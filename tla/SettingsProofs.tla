--------------------------- MODULE SettingsProofs ---------------------------
(***************************************************************************)
(* Proofs about Settings, for any ports, passwords and rule lists and any  *)
(* number of saves, edits and faults.                                      *)
(***************************************************************************)
EXTENDS Settings, SequenceTheorems, TLAPS

\* The page is loaded anew, a file is reset only when it is empty, and `saved' is said
\* only when nothing is going on.
Places ==
    /\ gui = "reset" => cut
    /\ msg = "saved" => gui = "ready"

\* The service saves for a request or for its own start; a service that is down has lost
\* the pipe, and a lost pipe is empty but for the answer somebody waits for.
Idle == job \in {"none", "start"}
Working ==
    /\ job = "none" <=> step \in {"none", "down"}
    /\ step = "down" => ~linked
    /\ ~linked => Idle /\ calls = <<>> /\ (~Waiting => answers = <<>>)

\* A temporary file that is about to be renamed holds what is in memory.
TmpWritten == ~cut /\ step = "rename" => tmp = Image(config, rules)

\* As long as no call has given up, there is one call at a time: its request is in the
\* pipe, or being handled, or answered, or lost with the pipe.
Own(r) ==
    /\ gui = "rules" => r.op = "set_rules" /\ r.rules = sent.rules
    /\ gui = "config" => r.op = "set_config" /\ r.port = sent.port
    /\ gui = "level" => r.op = "set_log_level"
    /\ gui = "reload" => r.op = "reload"
OwnJob ==
    \/ gui = "rules" /\ job = "set_rules"
    \/ gui = "config" /\ job \in {"set_config", "set_config again"}
    \/ gui = "level" /\ job \in {"set_log_level", "set_log_level again"}
    \/ gui = "reload" /\ job = "reload"
InPipe   == /\ Waiting /\ linked /\ Idle /\ answers = <<>>
            /\ Len(calls) = 1 /\ Own(Head(calls))
InWork   == Waiting /\ linked /\ OwnJob /\ calls = <<>> /\ answers = <<>>
Answered == Waiting /\ Idle /\ calls = <<>> /\ \E a \in {"success", "error"} : answers = <<a>>
NoCall   == (~Waiting \/ ~linked) /\ Idle /\ calls = <<>> /\ answers = <<>>
OneCall  == ~late => InPipe \/ InWork \/ Answered \/ NoCall

\* While a save goes on, the memory of a service that has not died holds the part
\* of the form it was sent, whether or not it could be stored.
InMemory ==
    /\ gui \in {"rules", "config", "level"} /\ linked => ~blind
    /\ ~late =>
          /\ job = "set_rules" \/ (gui = "rules" /\ answers # <<>> /\ linked)
                => rules = sent.rules
          /\ gui = "config" /\ linked => rules = sent.rules
          /\ job \in {"set_config", "set_config again"} => config.port = sent.port

\* From the success of set_config on the file holds the rules and the port that were
\* sent, and so does every service that runs and could read it.
Accepted == (gui = "config" /\ answers = <<"success">>) \/ gui = "level" \/ msg = "saved"
OnDisk ==
    Accepted /\ ~touched /\ ~cut /\ ~late =>
        /\ file.kind = "full" /\ ~file.typo
        /\ file.port = sent.port /\ file.rules = sent.rules
        /\ job # "start"
        /\ step # "down" /\ ~blind => config.port = sent.port /\ rules = sent.rules

Rest ==
    FileIsWhole /\ Places /\ Working /\ TmpWritten /\ OneCall /\ InMemory /\ OnDisk
SInv == TypeOK /\ Rest

-----------------------------------------------------------------------------
(* Types                                                                    *)

\* A pipe that holds one thing.
LEMMA OneThing ==
    /\ \A S : <<>> \in Seq(S) /\ Len(<<>>) = 0
    /\ \A S : \A x \in S :
          /\ Append(<<>>, x) = <<x>> /\ Len(<<x>>) = 1 /\ Head(<<x>>) = x
          /\ Tail(<<x>>) = <<>> /\ <<x>> # <<>>
    /\ \A S : \A q \in Seq(S) : Len(q) = 1 => q # <<>> /\ Tail(q) = <<>>
    /\ \A S : \A q \in Seq(S) : q # <<>> => Head(q) \in S /\ Tail(q) \in Seq(S)
    /\ \A S : \A q \in Seq(S), x \in S : Append(q, x) \in Seq(S) /\ Append(q, x) # <<>>
<1>1. \A S : <<>> \in Seq(S) /\ Len(<<>>) = 0 OBVIOUS
<1>2. ASSUME NEW S, NEW x \in S
      PROVE  /\ Append(<<>>, x) = <<x>> /\ Len(<<x>>) = 1 /\ Head(<<x>>) = x
             /\ Tail(<<x>>) = <<>> /\ <<x>> # <<>>
  OBVIOUS
<1>3. ASSUME NEW S, NEW q \in Seq(S), Len(q) = 1 PROVE q # <<>> /\ Tail(q) = <<>>
  <2>1. q # <<>> BY <1>3
  <2>2. Tail(q) \in Seq(S) /\ Len(Tail(q)) = 0 BY <1>3, <2>1, HeadTailProperties
  <2> QED BY <2>1, <2>2, EmptySeq
<1>4. ASSUME NEW S, NEW q \in Seq(S), q # <<>> PROVE Head(q) \in S /\ Tail(q) \in Seq(S)
  BY <1>4, HeadTailProperties
<1>5. ASSUME NEW S, NEW q \in Seq(S), NEW x \in S
      PROVE  Append(q, x) \in Seq(S) /\ Append(q, x) # <<>>
  BY <1>5, AppendProperties
<1> QED BY <1>1, <1>2, <1>3, <1>4, <1>5

\* What a file can hold, and that an edit of a whole file leaves one.
LEMMA FilesTyped ==
    /\ Missing \in Files /\ Blank \in Files /\ Empty \in Files /\ Torn \in Files
    /\ Garbled \in Files
    /\ \A c \in Configs, r \in Seq(RuleName) : Image(c, r) \in Files
    /\ \A f \in Files : f.kind = "full" =>
          /\ f.port \in Port /\ f.pwd \in Stored /\ f.level \in Levels
          /\ f.rules \in Seq(RuleName) /\ f.typo \in BOOLEAN
          /\ \A p \in Port, t \in BOOLEAN :
                /\ [f EXCEPT !.port = p, !.typo = t] \in Files
                /\ [f EXCEPT !.port = p, !.typo = t].kind = "full"
<1>1. /\ Missing \in Files /\ Blank \in Files /\ Empty \in Files /\ Torn \in Files
      /\ Garbled \in Files
  BY Zenon DEF Files
<1>2. \A c \in Configs, r \in Seq(RuleName) : Image(c, r) \in Files
  BY DEF Files, Image, Configs
<1>3. ASSUME NEW f \in Files, f.kind = "full"
      PROVE  f \in [kind : {"full"}, port : Port, pwd : Stored, level : Levels,
                    rules : Seq(RuleName), typo : BOOLEAN]
  BY <1>3 DEF Files, Missing, Blank, Empty, Torn, Garbled
<1>4. ASSUME NEW f \in Files, f.kind = "full", NEW p \in Port, NEW t \in BOOLEAN
      PROVE  /\ [f EXCEPT !.port = p, !.typo = t] \in Files
             /\ [f EXCEPT !.port = p, !.typo = t].kind = "full"
  BY <1>3, <1>4 DEF Files
<1> QED BY <1>1, <1>2, <1>3, <1>4

\* The requests the GUI sends, and what the handlers take from them.
LEMMA RequestsTyped ==
    /\ [op |-> "reload"] \in Requests
    /\ \A r \in Seq(RuleName) : [op |-> "set_rules", rules |-> r] \in Requests
    /\ \A p \in Port, w \in Stored : [op |-> "set_config", port |-> p, pwd |-> w] \in Requests
    /\ \A l \in Levels : [op |-> "set_log_level", level |-> l] \in Requests
    /\ \A r \in Requests :
          /\ r.op = "set_rules" => r.rules \in Seq(RuleName)
          /\ r.op = "set_config" => r.port \in Port /\ r.pwd \in Stored
          /\ r.op = "set_log_level" => r.level \in Levels
BY DEF Requests

\* Configurations and forms, as they are read, edited and created.
LEMMA ValuesTyped ==
    /\ DefaultConfig \in Configs /\ EmptyForm \in Forms
    /\ \A c \in Configs :
          /\ c.port \in Port /\ c.pwd \in Stored /\ c.level \in Levels
          /\ \A p \in Port, w \in Stored : [c EXCEPT !.port = p, !.pwd = w] \in Configs
          /\ \A p \in Port : [c EXCEPT !.port = p] \in Configs
          /\ \A l \in Levels : [c EXCEPT !.level = l] \in Configs
    /\ \A f \in Files : FormOf(f) \in Forms /\ PortOf(f) \in Port
    /\ \A f \in Forms :
          /\ f.port \in Port /\ f.pwd \in Stored /\ f.level \in Levels
          /\ f.rules \in Seq(RuleName)
          /\ [f EXCEPT !.pwd = NoPassword] \in Forms
<1> USE SettingsAssumption
<1>1. <<>> \in Seq(RuleName) /\ 2 \in Levels /\ NoPassword \in Stored BY DEF Levels, Stored
<1>2. DefaultConfig \in Configs BY <1>1 DEF DefaultConfig, Configs
<1>3. EmptyForm \in Forms BY <1>1 DEF EmptyForm, Forms
<1>4. ASSUME NEW f \in Files PROVE FormOf(f) \in Forms /\ PortOf(f) \in Port
  BY <1>3, FilesTyped DEF FormOf, PortOf, EmptyForm, Forms
<1> QED BY <1>1, <1>2, <1>3, <1>4 DEF Configs, Forms

\* The answers in the pipe.
LEMMA AnswersTyped ==
    ASSUME answers \in Seq({"success", "error"})
    PROVE  /\ \A r \in {"success", "error"} : Append(answers, r) \in Seq({"success", "error"})
           /\ answers # <<>> =>
                 /\ Head(answers) \in {"success", "error"}
                 /\ Tail(answers) \in Seq({"success", "error"})
           /\ <<>> \in Seq({"success", "error"})
<1> DEFINE S == {"success", "error"}
<1>1. answers \in Seq(S) OBVIOUS
<1> HIDE DEF S
<1>2. \A r \in S : Append(answers, r) \in Seq(S) BY <1>1, OneThing
<1>3. answers # <<>> => Head(answers) \in S /\ Tail(answers) \in Seq(S) BY <1>1, OneThing
<1>4. <<>> \in Seq(S) OBVIOUS
<1> QED BY <1>2, <1>3, <1>4 DEF S

\* What the handlers that go on after a save assign.
LEMMA GoOnTyped ==
    ASSUME TypeOK, NEW ok \in BOOLEAN, GoOn(ok)
    PROVE  /\ engine' \in Seq(RuleName) /\ inUse' \in Port
           /\ step' \in {"none", "open"} /\ answers' \in Seq({"success", "error"})
           /\ job' \in {"none", "set_config again", "set_log_level again"}
<1>1. config.port \in Port BY ValuesTyped DEF TypeOK
<1>2. answers' = answers \/ \E r \in {"success", "error"} : answers' = Append(answers, r)
  BY DEF GoOn, Answer, AnswerReload, SaveAgain
<1>3. answers' \in Seq({"success", "error"}) BY <1>2, AnswersTyped DEF TypeOK
<1>4. step' \in {"none", "open"} /\ job' \in {"none", "set_config again", "set_log_level again"}
  BY DEF GoOn, Answer, AnswerReload, SaveAgain
<1>5. UNCHANGED <<engine, inUse>> \/ Apply BY DEF GoOn
<1> QED BY <1>1, <1>3, <1>4, <1>5 DEF Apply, TypeOK

\* What loading a file, or creating a default one, assigns.
LEMMA LoadTyped ==
    ASSUME TypeOK,
           \/ \E opened \in BOOLEAN : LoadFile(opened)
           \/ \E j \in {"reload", "start"} : CreateDefaultConfig(j)
    PROVE  config' \in Configs /\ rules' \in Seq(RuleName) /\ config'.port \in Port
<1> USE SettingsAssumption
<1>1. ASSUME NEW opened \in BOOLEAN, LoadFile(opened)
      PROVE  config' \in Configs /\ rules' \in Seq(RuleName) /\ config'.port \in Port
  <2>1. CASE opened /\ file.kind = "full" /\ ~file.typo
    <3>1. [port |-> file.port, pwd |-> file.pwd, level |-> file.level] \in Configs
      BY <2>1, FilesTyped DEF TypeOK, Configs
    <3> QED BY <1>1, <2>1, <3>1, FilesTyped, ValuesTyped DEF TypeOK, LoadFile
  <2>2. CASE opened /\ file.kind = "full" /\ file.typo
    <3>1. config' = [config EXCEPT !.port = file.port] /\ rules' = rules
      BY <1>1, <2>2 DEF LoadFile
    <3>2. file.port \in Port BY <2>2, FilesTyped DEF TypeOK
    <3>3. config' \in Configs BY <3>1, <3>2, ValuesTyped DEF TypeOK
    <3> QED BY <3>1, <3>3, ValuesTyped DEF TypeOK
  <2>3. CASE ~opened \/ file.kind # "full"
    BY <1>1, <2>3, ValuesTyped DEF TypeOK, LoadFile
  <2> QED BY <2>1, <2>2, <2>3
<1>2. CASE \E j \in {"reload", "start"} : CreateDefaultConfig(j)
  <2>1. DefaultRule \in RuleName BY DEF RuleName
  <2>2. config' = DefaultConfig /\ rules' = Append(rules, DefaultRule)
    BY <1>2 DEF CreateDefaultConfig
  <2>3. rules' \in Seq(RuleName) BY <2>1, <2>2, AppendProperties DEF TypeOK
  <2> QED BY <2>2, <2>3, ValuesTyped
<1> QED BY <1>1, <1>2

\* A request that is taken is one.
LEMMA TakesTyped ==
    ASSUME TypeOK, NEW op, Takes(op)
    PROVE  Head(calls) \in Requests /\ calls' \in Seq(Requests)
BY OneThing DEF TypeOK, Takes

\* A counter below its bound.
LEMMA NextCount ==
    \A m \in Nat : \A c \in 0 .. m :
        \A n : n = c \/ (c < m /\ n = c + 1) => n \in 0 .. m
OBVIOUS

\* Types after the steps of the service.
LEMMA ServiceTyped ==
    ASSUME TypeOK, Service \/ SaveFails \/ CutTmp \/ Die
    PROVE  TypeOK'
<1> USE SettingsAssumption
<1>0. /\ faults \in 0 .. MaxFaults
      /\ \A n : n = faults \/ (faults < MaxFaults /\ n = faults + 1) => n \in 0 .. MaxFaults
  <2>1. faults \in 0 .. MaxFaults BY DEF TypeOK
  <2> QED BY <2>1, NextCount
<1> DEFINE Kept == UNCHANGED <<form, sent, msg, gui, saves, known, touched, edits>>
           Flags == /\ linked' \in BOOLEAN /\ cut' \in BOOLEAN /\ late' \in BOOLEAN
                    /\ blind' \in BOOLEAN
           Pipe == calls' \in Seq(Requests) /\ answers' \in Seq({"success", "error"})
           Disk == file' \in Files /\ tmp' \in Files
           Memory == /\ config' \in Configs /\ rules' \in Seq(RuleName)
                     /\ engine' \in Seq(RuleName) /\ inUse' \in Port
           Work == /\ step' \in {"none", "open", "write", "rename", "down"}
                   /\ job' \in {"none", "set_rules", "set_config", "set_config again",
                               "set_log_level", "set_log_level again", "reload", "start"}
<1>a. ASSUME Kept, Flags, Pipe, Disk, Memory, Work, faults' \in 0 .. MaxFaults PROVE TypeOK'
  <2>1. /\ saves' \in 0 .. MaxSaves /\ edits' \in 0 .. MaxEdits /\ touched' \in BOOLEAN
        /\ form' \in Forms /\ sent' \in [port : Port, pwd : Stored, rules : Seq(RuleName)]
        /\ msg' \in {"", "rejected", "saved"} /\ known' \in Port
        /\ gui' \in {"load", "create", "write", "reset", "ready", "rules", "config", "level",
                     "reload"}
    BY <1>a, Zenon DEF TypeOK
  <2> QED BY <1>a, <2>1, Zenon DEF TypeOK
<1> HIDE DEF Kept, Flags, Pipe, Disk, Memory, Work
<1>1. CASE OpenTmp \/ WriteTmp \/ CutTmp
  <2>1. tmp' \in Files /\ step' \in {"write", "rename"} /\ file' = file
    <3>1. Image(config, rules) \in Files BY FilesTyped DEF TypeOK
    <3> QED BY <1>1, <3>1, FilesTyped DEF OpenTmp, WriteTmp, CutTmp
  <2>2. faults' \in 0 .. MaxFaults BY <1>1, <1>0 DEF OpenTmp, WriteTmp, CutTmp
  <2>3. cut' = cut \/ cut' = TRUE BY <1>1 DEF OpenTmp, WriteTmp, CutTmp
  <2>4. /\ UNCHANGED <<config, rules, engine, inUse, job, linked, calls, answers, late, blind>>
        /\ Kept
    BY <1>1 DEF OpenTmp, WriteTmp, CutTmp, pipeVars, guiVars, Kept
  <2>5. Flags BY <2>3, <2>4, Zenon DEF Flags, TypeOK
  <2>6. Pipe /\ Memory /\ Disk BY <2>1, <2>4 DEF Pipe, Memory, Disk, TypeOK
  <2>7. Work BY <2>1, <2>4 DEF Work, TypeOK
  <2> QED BY <1>a, <2>2, <2>4, <2>5, <2>6, <2>7
<1>2. CASE Rename \/ SaveFails
  <2>1. file' \in Files /\ tmp' \in Files
    BY <1>2, FilesTyped DEF Rename, SaveFails, TypeOK, fileVars
  <2>2. faults' \in 0 .. MaxFaults BY <1>2, <1>0 DEF Rename, SaveFails
  <2>3. UNCHANGED <<config, rules, linked, calls, late, blind, cut>> /\ Kept
    BY <1>2 DEF Rename, SaveFails, guiVars, Kept
  <2>4. /\ engine' \in Seq(RuleName) /\ inUse' \in Port
        /\ step' \in {"none", "open"} /\ answers' \in Seq({"success", "error"})
        /\ job' \in {"none", "set_config again", "set_log_level again"}
    BY <1>2, GoOnTyped DEF Rename, SaveFails
  <2>5. Flags BY <2>3, Zenon DEF Flags, TypeOK
  <2>6. Pipe /\ Memory /\ Disk BY <2>1, <2>3, <2>4 DEF Pipe, Memory, Disk, TypeOK
  <2>7. Work BY <2>4 DEF Work
  <2> QED BY <1>a, <2>2, <2>3, <2>5, <2>6, <2>7
<1>3. CASE ReloadConfig \/ Start
  <2>1. config' \in Configs /\ rules' \in Seq(RuleName) /\ config'.port \in Port
    BY <1>3, LoadTyped DEF ReloadConfig, Start
  <2>2. engine' \in Seq(RuleName) /\ inUse' \in Port
    BY <1>3, <2>1 DEF ReloadConfig, Start, CreateDefaultConfig, TypeOK
  <2>3. /\ step' \in {"none", "open"} /\ job' \in {"none", "reload", "start"}
    BY <1>3 DEF ReloadConfig, Start, CreateDefaultConfig, AnswerReload, Answer
  <2>4. UNCHANGED <<file, tmp, linked, late, cut>> /\ Kept
    BY <1>3 DEF ReloadConfig, Start, fileVars, pipeVars, guiVars, Kept
  <2>5. faults' \in 0 .. MaxFaults
    BY <1>3, <1>0 DEF ReloadConfig, Start, CreateDefaultConfig, Opens
  <2>6. calls' \in Seq(Requests)
    <3>1. CASE ReloadConfig BY <3>1, TakesTyped DEF ReloadConfig
    <3>2. CASE Start BY <3>2 DEF Start, pipeVars, TypeOK
    <3> QED BY <1>3, <3>1, <3>2
  <2>7. answers' \in Seq({"success", "error"})
    <3>1. answers' = answers \/ \E r \in {"success", "error"} : answers' = Append(answers, r)
      BY <1>3 DEF ReloadConfig, Start, AnswerReload, Answer, pipeVars
    <3> QED BY <3>1, AnswersTyped DEF TypeOK
  <2>8. blind' \in BOOLEAN
    <3>1. blind' = blind \/ \E opened \in BOOLEAN : blind' = (blind \/ ~opened)
      BY <1>3 DEF ReloadConfig, Start
    <3> QED BY <3>1, Zenon DEF TypeOK
  <2>9. Flags BY <2>4, <2>8, Zenon DEF Flags, TypeOK
  <2>10. Pipe /\ Memory /\ Disk BY <2>1, <2>2, <2>4, <2>6, <2>7 DEF Pipe, Memory, Disk, TypeOK
  <2>11. Work BY <2>3 DEF Work
  <2> QED BY <1>a, <2>4, <2>5, <2>9, <2>10, <2>11
<1>4. CASE SetRules \/ SetConfig \/ SetLogLevel
  <2>1. Head(calls) \in Requests /\ calls' \in Seq(Requests)
    BY <1>4, TakesTyped DEF SetRules, SetConfig, SetLogLevel
  <2>2. config' \in Configs
    <3>1. CASE SetRules BY <3>1 DEF SetRules, TypeOK
    <3>2. CASE SetConfig
      <4> DEFINE request == Head(calls)
      <4>1. request.port \in Port /\ request.pwd \in Stored /\ config.pwd \in Stored
        BY <2>1, <3>2, RequestsTyped, ValuesTyped DEF SetConfig, Takes, TypeOK
      <4>2. PICK w \in IF request.pwd = NoPassword THEN {config.pwd}
                       ELSE {request.pwd, NoPassword} :
              config' = [config EXCEPT !.port = request.port, !.pwd = w]
        BY <3>2 DEF SetConfig
      <4>3. w \in Stored BY <4>1 DEF Stored
      <4>4. config \in Configs BY DEF TypeOK
      <4> QED BY <4>1, <4>2, <4>3, <4>4, ValuesTyped
    <3>3. CASE SetLogLevel
      BY <2>1, <3>3, RequestsTyped, ValuesTyped DEF SetLogLevel, Takes, TypeOK
    <3> QED BY <1>4, <3>1, <3>2, <3>3
  <2>3. rules' \in Seq(RuleName) /\ engine' \in Seq(RuleName) /\ inUse' \in Port
    BY <1>4, <2>1, RequestsTyped DEF SetRules, SetConfig, SetLogLevel, Takes, TypeOK
  <2>4. step' = "open" /\ job' \in {"set_rules", "set_config", "set_log_level"}
    BY <1>4 DEF SetRules, SetConfig, SetLogLevel
  <2>5. UNCHANGED <<file, tmp, linked, answers, late, faults, blind, cut>> /\ Kept
    BY <1>4 DEF SetRules, SetConfig, SetLogLevel, fileVars, guiVars, Kept
  <2>6. Flags BY <2>5, Zenon DEF Flags, TypeOK
  <2>7. Pipe /\ Memory /\ Disk BY <2>1, <2>2, <2>3, <2>5 DEF Pipe, Memory, Disk, TypeOK
  <2>8. Work BY <2>4 DEF Work
  <2> QED BY <1>a, <1>0, <2>5, <2>6, <2>7, <2>8
<1>5. CASE Die
  <2>1. /\ config' \in Configs /\ rules' \in Seq(RuleName) /\ engine' \in Seq(RuleName)
        /\ inUse' \in Port
    <3>1. <<>> \in Seq(RuleName) OBVIOUS
    <3> QED BY <1>5, <3>1, ValuesTyped DEF Die
  <2>2. Pipe
    <3>1. calls' \in Seq(Requests) BY <1>5 DEF Die
    <3>2. answers' = answers \/ answers' = <<>> BY <1>5 DEF Die
    <3>3. answers' \in Seq({"success", "error"}) BY <3>2, AnswersTyped DEF TypeOK
    <3> QED BY <3>1, <3>3 DEF Pipe
  <2>3. /\ linked' = FALSE /\ UNCHANGED <<file, tmp, late, blind, cut>> /\ Kept
        /\ step' = "down" /\ job' = "none"
    BY <1>5 DEF Die, fileVars, guiVars, Kept
  <2>4. faults' \in 0 .. MaxFaults BY <1>0, <1>5 DEF Die
  <2>5. Flags BY <2>3, Zenon DEF Flags, TypeOK
  <2>6. Memory /\ Disk BY <2>1, <2>3 DEF Memory, Disk, TypeOK
  <2>7. Work BY <2>3 DEF Work
  <2> QED BY <1>a, <2>2, <2>3, <2>4, <2>5, <2>6, <2>7
<1> QED BY <1>1, <1>2, <1>3, <1>4, <1>5 DEF Service

\* What a call returns and leaves in the pipe.
LEMMA ReturnsTyped ==
    ASSUME TypeOK, NEW r \in Results, Returns(r)
    PROVE  /\ answers' \in Seq({"success", "error"}) /\ late' \in BOOLEAN
           /\ faults' \in 0 .. MaxFaults
<1> USE SettingsAssumption
<1>1. answers' \in Seq({"success", "error"})
  <2>1. \/ answers' = answers \/ answers' = <<>>
        \/ answers # <<>> /\ answers' = Tail(answers)
    BY DEF Returns
  <2> QED BY <2>1, AnswersTyped DEF TypeOK
<1>2. late' = late \/ late' = TRUE BY DEF Returns
<1>3. late' \in BOOLEAN BY <1>2, Zenon DEF TypeOK
<1>4. faults' = faults \/ (faults < MaxFaults /\ faults' = faults + 1) BY DEF Returns
<1>5. faults \in 0 .. MaxFaults BY DEF TypeOK
<1>6. faults' \in 0 .. MaxFaults BY <1>4, <1>5
<1> QED BY <1>1, <1>3, <1>6

\* Types after the steps of the GUI and of the administrator.
LEMMA GuiTyped ==
    ASSUME TypeOK,
           \/ GuiSteps \/ Connect \/ LoadFromConfig \/ FileIsMissing \/ EnsureFileExists
           \/ ResetToEmpty \/ MoveReset \/ SaveAsync \/ GuiReload
           \/ \E p \in Port, w \in Stored, l \in Level, r \in Rules : EditForm(p, w, l, r)
           \/ AdminEdits
    PROVE  TypeOK'
<1> USE SettingsAssumption
<1>0. /\ saves \in 0 .. MaxSaves /\ edits \in 0 .. MaxEdits
      /\ saves < MaxSaves => saves + 1 \in 0 .. MaxSaves
      /\ edits < MaxEdits => edits + 1 \in 0 .. MaxEdits
  <2>1. saves \in 0 .. MaxSaves /\ edits \in 0 .. MaxEdits BY DEF TypeOK
  <2> QED BY <2>1, NextCount
<1> DEFINE Page == /\ form' \in Forms
                   /\ sent' \in [port : Port, pwd : Stored, rules : Seq(RuleName)]
                   /\ msg' \in {"", "rejected", "saved"} /\ known' \in Port
                   /\ gui' \in {"load", "create", "write", "reset", "ready", "rules",
                                "config", "level", "reload"}
           Counts == /\ saves' \in 0 .. MaxSaves /\ edits' \in 0 .. MaxEdits
                     /\ faults' \in 0 .. MaxFaults
           Flags == /\ linked' \in BOOLEAN /\ late' \in BOOLEAN /\ blind' \in BOOLEAN
                    /\ touched' \in BOOLEAN /\ cut' \in BOOLEAN
           Pipe == calls' \in Seq(Requests) /\ answers' \in Seq({"success", "error"})
           Disk == file' \in Files /\ tmp' \in Files
<1>a. ASSUME Page, Counts, Flags, Pipe, Disk,
             UNCHANGED <<config, rules, engine, inUse, step, job>>
      PROVE  TypeOK'
  <2>1. /\ config' \in Configs /\ rules' \in Seq(RuleName) /\ engine' \in Seq(RuleName)
        /\ inUse' \in Port /\ step' \in {"none", "open", "write", "rename", "down"}
        /\ job' \in {"none", "set_rules", "set_config", "set_config again", "set_log_level",
               "set_log_level again", "reload", "start"}
    BY <1>a, Zenon DEF TypeOK
  <2> QED BY <1>a, <2>1, Zenon DEF TypeOK
<1>b. /\ form \in Forms /\ sent \in [port : Port, pwd : Stored, rules : Seq(RuleName)]
      /\ form.port \in Port /\ form.pwd \in Stored /\ form.level \in Levels
      /\ form.rules \in Seq(RuleName) /\ sent.pwd \in Stored
      /\ [sent EXCEPT !.rules = form.rules, !.pwd = form.pwd]
           \in [port : Port, pwd : Stored, rules : Seq(RuleName)]
      /\ [sent EXCEPT !.port = form.port]
           \in [port : Port, pwd : Stored, rules : Seq(RuleName)]
  <2>1. form \in Forms /\ sent \in [port : Port, pwd : Stored, rules : Seq(RuleName)]
    BY DEF TypeOK
  <2>2. /\ form.port \in Port /\ form.pwd \in Stored /\ form.level \in Levels
        /\ form.rules \in Seq(RuleName)
    BY <2>1, ValuesTyped
  <2> QED BY <2>1, <2>2
<1>c. ASSUME NEW r \in Requests, Send(r) PROVE calls' \in Seq(Requests)
  <2>1. calls \in Seq(Requests) /\ Append(calls, r) \in Seq(Requests)
    BY OneThing DEF TypeOK
  <2> QED BY <1>c, <2>1 DEF Send
<1> HIDE DEF Page, Counts, Flags, Pipe, Disk
<1>1. CASE GuiSteps
  <2>1. PICK r \in Results : Returns(r)
    BY <1>1 DEF GuiSteps, SaveProxy, SaveRefused, SaveLevel, SaveDone, GuiReloaded, Results
  <2>2. /\ answers' \in Seq({"success", "error"}) /\ late' \in BOOLEAN
        /\ faults' \in 0 .. MaxFaults
    BY <2>1, ReturnsTyped
  <2>3. /\ UNCHANGED <<file, tmp, config, rules, engine, inUse, step, job, linked, saves>>
        /\ UNCHANGED <<known, touched, edits, blind, cut>>
    BY <1>1 DEF GuiSteps, SaveProxy, SaveRefused, SaveLevel, SaveDone, GuiReloaded, fileVars,
                svcVars
  <2>4. calls' \in Seq(Requests)
    <3>1. \/ calls' = calls
          \/ Send([op |-> "set_config", port |-> form.port, pwd |-> sent.pwd])
          \/ Send([op |-> "set_log_level", level |-> form.level])
      BY <1>1 DEF GuiSteps, SaveProxy, SaveRefused, SaveLevel, SaveDone, GuiReloaded
    <3>2. /\ [op |-> "set_config", port |-> form.port, pwd |-> sent.pwd] \in Requests
          /\ [op |-> "set_log_level", level |-> form.level] \in Requests
      BY <1>b, RequestsTyped
    <3> QED BY <1>c, <3>1, <3>2 DEF TypeOK
  <2>5. Page
    <3>1. /\ \/ form' = form \/ form' = [form EXCEPT !.pwd = NoPassword]
          /\ \/ sent' = sent \/ sent' = [sent EXCEPT !.port = form.port]
          /\ msg' = msg \/ msg' \in {"rejected", "saved"}
          /\ gui' \in {"config", "ready", "level", "load"}
      BY <1>1 DEF GuiSteps, SaveProxy, SaveRefused, SaveLevel, SaveDone, GuiReloaded
    <3>2. form' \in Forms BY <1>b, <3>1, ValuesTyped
    <3>3. sent' \in [port : Port, pwd : Stored, rules : Seq(RuleName)] BY <1>b, <3>1
    <3> QED BY <2>3, <3>1, <3>2, <3>3 DEF Page, TypeOK
  <2>6. Counts BY <1>0, <2>2, <2>3 DEF Counts
  <2>7. Flags BY <2>2, <2>3, Zenon DEF Flags, TypeOK
  <2>8. Pipe /\ Disk BY <2>2, <2>3, <2>4 DEF Pipe, Disk, TypeOK
  <2> QED BY <1>a, <2>3, <2>5, <2>6, <2>7, <2>8
<1>2. CASE SaveAsync \/ GuiReload
  <2>1. /\ UNCHANGED <<file, tmp, config, rules, engine, inUse, step, job, linked, answers>>
        /\ UNCHANGED <<late, form, known, edits, faults, cut>>
        /\ saves < MaxSaves /\ saves' = saves + 1
        /\ gui' \in {"rules", "reload"} /\ msg' = ""
        /\ touched' = touched \/ touched' = FALSE
        /\ blind' = blind \/ blind' = FALSE
        /\ sent' = sent \/ sent' = [sent EXCEPT !.rules = form.rules, !.pwd = form.pwd]
    BY <1>2 DEF SaveAsync, GuiReload, fileVars, svcVars
  <2>2. calls' \in Seq(Requests)
    <3>1. /\ [op |-> "set_rules", rules |-> form.rules] \in Requests
          /\ [op |-> "reload"] \in Requests
      BY <1>b, RequestsTyped
    <3> QED BY <1>2, <1>c, <3>1 DEF SaveAsync, GuiReload
  <2>3. Page BY <1>b, <2>1 DEF Page, TypeOK
  <2>4. Counts BY <1>0, <2>1 DEF Counts, TypeOK
  <2>5. Flags BY <2>1, Zenon DEF Flags, TypeOK
  <2>6. Pipe /\ Disk BY <2>1, <2>2 DEF Pipe, Disk, TypeOK
  <2> QED BY <1>a, <2>1, <2>3, <2>4, <2>5, <2>6
<1>3. CASE \/ Connect \/ LoadFromConfig \/ FileIsMissing \/ EnsureFileExists \/ ResetToEmpty
           \/ MoveReset
  <2>1. /\ UNCHANGED <<config, rules, engine, inUse, step, job, calls, answers, sent, saves>>
        /\ UNCHANGED <<touched, edits, faults, blind, cut>>
        /\ linked' = linked \/ linked' = TRUE
        /\ late' = late \/ late' = FALSE
        /\ gui' \in {"load", "create", "write", "reset", "ready"}
        /\ msg' = msg \/ msg' = ""
    BY <1>3 DEF Connect, LoadFromConfig, FileIsMissing, EnsureFileExists, ResetToEmpty,
                MoveReset, Shown, fileVars, svcVars, pipeVars
  <2>2. /\ file' = file \/ file' = tmp \/ file' \in {Blank, Empty}
        /\ tmp' = tmp \/ tmp' \in {Blank, Missing}
        /\ \/ form' = form /\ known' = known
           \/ \E f \in {file, Blank} : form' = FormOf(f) /\ known' = PortOf(f)
    BY <1>3 DEF Connect, LoadFromConfig, FileIsMissing, EnsureFileExists, ResetToEmpty,
                MoveReset, Shown, fileVars
  <2>3. Disk BY <2>2, FilesTyped DEF Disk, TypeOK
  <2>4. Page
    <3>1. file \in Files /\ Blank \in Files BY FilesTyped DEF TypeOK
    <3>2. form' \in Forms /\ known' \in Port BY <2>2, <3>1, ValuesTyped DEF TypeOK
    <3> QED BY <2>1, <3>2 DEF Page, TypeOK
  <2>5. Counts BY <2>1 DEF Counts, TypeOK
  <2>6. Flags BY <2>1, Zenon DEF Flags, TypeOK
  <2>7. Pipe BY <2>1 DEF Pipe, TypeOK
  <2> QED BY <1>a, <2>1, <2>3, <2>4, <2>5, <2>6, <2>7
<1>4. ASSUME NEW p \in Port, NEW w \in Stored, NEW l \in Level, NEW r \in Rules,
             EditForm(p, w, l, r)
      PROVE  TypeOK'
  <2>1. (form.edited \/ p # form.port) \in BOOLEAN BY Zenon
  <2>2. l \in Levels /\ r \in Seq(RuleName) BY DEF Levels
  <2>3. form' \in Forms BY <1>4, <2>1, <2>2 DEF EditForm, Forms
  <2>4. /\ UNCHANGED <<file, tmp, config, rules, engine, inUse, step, job, linked, calls>>
        /\ UNCHANGED <<answers, late, gui, sent, msg, saves, known, touched, edits, faults>>
        /\ UNCHANGED <<blind, cut>>
    BY <1>4 DEF EditForm, fileVars, svcVars, pipeVars
  <2>5. Page BY <2>3, <2>4 DEF Page, TypeOK
  <2>6. Flags BY <2>4, Zenon DEF Flags, TypeOK
  <2>7. Counts /\ Pipe /\ Disk BY <2>4 DEF Counts, Pipe, Disk, TypeOK
  <2> QED BY <1>a, <2>4, <2>5, <2>6, <2>7
<1>5. CASE AdminEdits
  <2>1. PICK f \in Files : Edit(f)
    BY <1>5, FilesTyped DEF AdminEdits, TypeOK
  <2>2. /\ UNCHANGED <<tmp, config, rules, engine, inUse, step, job, linked, calls, answers>>
        /\ UNCHANGED <<late, gui, form, sent, msg, saves, known, faults, blind, cut>>
        /\ touched' = TRUE /\ file' \in Files /\ edits < MaxEdits /\ edits' = edits + 1
    BY <2>1 DEF Edit, svcVars, pipeVars
  <2>3. Page BY <2>2 DEF Page, TypeOK
  <2>4. Flags BY <2>2, Zenon DEF Flags, TypeOK
  <2>5. Counts BY <1>0, <2>2 DEF Counts, TypeOK
  <2>6. Pipe /\ Disk BY <2>2 DEF Pipe, Disk, TypeOK
  <2> QED BY <1>a, <2>2, <2>3, <2>4, <2>5, <2>6
<1> QED BY <1>1, <1>2, <1>3, <1>4, <1>5

\* Every step keeps the types.
LEMMA TypeStep == ASSUME TypeOK, [Next]_vars PROVE TypeOK'
<1>1. CASE UNCHANGED vars
  <2>1. /\ UNCHANGED <<file, tmp, config, rules, engine, inUse, step, job, linked, calls>>
        /\ UNCHANGED <<answers, late, gui, form, sent, msg, saves, known, touched, edits>>
        /\ UNCHANGED <<faults, blind, cut>>
    BY <1>1 DEF vars, fileVars, svcVars, pipeVars, guiVars
  <2>2. /\ saves' \in 0 .. MaxSaves /\ edits' \in 0 .. MaxEdits /\ faults' \in 0 .. MaxFaults
        /\ linked' \in BOOLEAN /\ touched' \in BOOLEAN /\ cut' \in BOOLEAN
        /\ late' \in BOOLEAN /\ blind' \in BOOLEAN
    BY <2>1, Zenon DEF TypeOK
  <2>3. /\ file' \in Files /\ tmp' \in Files /\ config' \in Configs /\ form' \in Forms
        /\ calls' \in Seq(Requests) /\ known' \in Port
        /\ rules' \in Seq(RuleName) /\ engine' \in Seq(RuleName) /\ inUse' \in Port
    BY <2>1, Zenon DEF TypeOK
  <2> QED BY <2>1, <2>2, <2>3 DEF TypeOK
<1> QED BY <1>1, ServiceTyped, GuiTyped DEF Next

-----------------------------------------------------------------------------
(* A save                                                                   *)

\* The end of a save: another one begins, or the request is answered, or the service
\* has started.
LEMMA GoOnSays ==
    ASSUME SInv, step \in {"open", "write", "rename"}, NEW ok \in BOOLEAN, GoOn(ok)
    PROVE  \/ /\ step' = "open" /\ answers' = answers
              /\ \/ job = "set_config" /\ job' = "set_config again"
                 \/ job = "set_log_level" /\ job' = "set_log_level again"
           \/ /\ step' = "none" /\ job' = "none" /\ job \notin {"none", "start"}
              /\ \E r \in {"success", "error"} :
                    /\ answers' = Append(answers, r)
                    /\ r = "success" /\ job \in {"set_config", "set_config again"} =>
                          job = "set_config again" /\ ok = TRUE
           \/ step' = "none" /\ job' = "none" /\ job = "start" /\ answers' = answers
<1>1. job # "none" BY DEF SInv, Rest, Working
<1>2. ok = TRUE \/ ok = FALSE OBVIOUS
<1> QED BY <1>1, <1>2 DEF GoOn, Answer, AnswerReload, SaveAgain

\* The rename makes the file what is in memory; a failure leaves it as it was.
LEMMA SaveEnds == ASSUME SInv, Rename \/ SaveFails PROVE Rest'
<1> USE DEF SInv, Rest
<1>1. PICK ok \in BOOLEAN :
        /\ GoOn(ok) /\ step \in {"open", "write", "rename"}
        /\ \/ ok = TRUE /\ step = "rename" /\ gui # "write" /\ file' = tmp /\ tmp' = Missing
           \/ ok = FALSE /\ UNCHANGED <<file, tmp>>
  BY DEF Rename, SaveFails, CanRename, fileVars
<1>2. UNCHANGED <<config, rules, linked, calls, late, gui, sent, msg, touched, blind, cut>>
  BY DEF Rename, SaveFails, guiVars
<1> DEFINE Again == /\ step' = "open" /\ answers' = answers
                    /\ \/ job = "set_config" /\ job' = "set_config again"
                       \/ job = "set_log_level" /\ job' = "set_log_level again"
           Replied(r) == /\ step' = "none" /\ job' = "none" /\ job \notin {"none", "start"}
                         /\ answers' = Append(answers, r)
                         /\ r = "success" /\ job \in {"set_config", "set_config again"} =>
                               job = "set_config again" /\ ok = TRUE
           Started == step' = "none" /\ job' = "none" /\ job = "start" /\ answers' = answers
<1>3. Again \/ Started \/ \E r \in {"success", "error"} : Replied(r)
  BY <1>1, GoOnSays
<1>4. ~cut /\ ok = TRUE => file' = Image(config, rules)
  BY <1>1 DEF TmpWritten
<1>5. ASSUME ~late, job # "start"
      PROVE  InWork /\ linked /\ answers = <<>> /\ calls = <<>> /\ msg # "saved"
  <2>1. job # "none" BY <1>1 DEF Working
  <2>2. InWork BY <1>5, <2>1 DEF OneCall, InPipe, Answered, NoCall, Idle
  <2> QED BY <2>2 DEF InWork, Waiting, Places
<1>6. \A r \in {"success", "error"} : Append(<<>>, r) = <<r>> /\ <<r>> # <<>>
  BY OneThing
<1>7. FileIsWhole'
  <2>1. CASE ok = TRUE BY <1>1, <1>2, <1>4, <2>1 DEF FileIsWhole, Image
  <2>2. CASE ok = FALSE BY <1>1, <1>2, <2>2 DEF FileIsWhole
  <2> QED BY <2>1, <2>2
<1>8. Places' BY <1>2 DEF Places
<1>9. Working'
  <2>1. ~linked => job = "start" BY <1>1 DEF Working, Idle
  <2>2. Waiting' <=> Waiting BY <1>2 DEF Waiting
  <2> QED BY <1>2, <1>3, <2>1, <2>2 DEF Working, Idle
<1>10. TmpWritten' BY <1>3 DEF TmpWritten
<1>11. OneCall'
  <2> SUFFICES ASSUME ~late PROVE InPipe' \/ InWork' \/ Answered' \/ NoCall'
    BY <1>2 DEF OneCall
  <2>1. Waiting' <=> Waiting BY <1>2 DEF Waiting
  <2>2. CASE Started
    <3>1. Idle' /\ Idle /\ ~OwnJob BY <2>2 DEF Idle, OwnJob
    <3>2. InPipe \/ Answered \/ NoCall BY <3>1 DEF OneCall, InWork
    <3>3. InPipe => InPipe' BY <1>2, <2>1, <2>2, <3>1 DEF InPipe, Own
    <3>4. Answered => Answered' BY <1>2, <2>1, <2>2, <3>1 DEF Answered
    <3>5. NoCall => NoCall' BY <1>2, <2>1, <2>2, <3>1 DEF NoCall
    <3> QED BY <3>2, <3>3, <3>4, <3>5
  <2>3. CASE Again
    <3>1. InWork BY <1>5, <2>3
    <3> QED BY <1>2, <2>1, <2>3, <3>1 DEF InWork, OwnJob
  <2>4. ASSUME NEW r \in {"success", "error"}, Replied(r) PROVE Answered'
    <3>1. InWork BY <1>5, <2>4
    <3>2. answers' = <<r>> BY <1>6, <2>4, <3>1 DEF InWork
    <3> QED BY <1>2, <2>1, <2>4, <3>1, <3>2 DEF InWork, Answered, Idle
  <2> QED BY <1>3, <2>2, <2>3, <2>4
<1>12. InMemory'
  <2>1. ~late /\ job \notin {"none", "start"} /\ gui = "rules" => job = "set_rules"
    BY <1>5 DEF InWork, OwnJob
  <2> QED BY <1>2, <1>3, <2>1 DEF InMemory
<1>13. OnDisk'
  <2> SUFFICES ASSUME Accepted', ~touched, ~cut, ~late
               PROVE  /\ file'.kind = "full" /\ ~file'.typo
                      /\ file'.port = sent.port /\ file'.rules = sent.rules
                      /\ job' # "start"
                      /\ step' # "down" /\ ~blind =>
                            config.port = sent.port /\ rules = sent.rules
    BY <1>2 DEF OnDisk
  <2>0. job' # "start" BY <1>3
  <2>1. CASE Accepted
    <3>1. /\ file.kind = "full" /\ ~file.typo /\ job # "start"
          /\ file.port = sent.port /\ file.rules = sent.rules
          /\ step # "down" /\ ~blind => config.port = sent.port /\ rules = sent.rules
      BY <2>1 DEF OnDisk
    <3>2. /\ InWork /\ linked /\ answers = <<>> /\ msg # "saved" BY <1>5, <3>1
    <3>3. gui = "level" BY <1>6, <2>1, <3>2 DEF Accepted
    <3>4. ~blind BY <3>2, <3>3 DEF InMemory
    <3>5. config.port = sent.port /\ rules = sent.rules BY <1>1, <3>1, <3>4
    <3>6. CASE ok = TRUE BY <1>4, <2>0, <3>5, <3>6 DEF Image
    <3>7. CASE ok = FALSE BY <1>1, <2>0, <3>1, <3>5, <3>7
    <3> QED BY <3>6, <3>7
  <2>2. CASE ~Accepted
    <3>1. gui = "config" /\ answers' = <<"success">> /\ answers' # answers
      BY <1>2, <2>2 DEF Accepted
    <3>2. PICK r \in {"success", "error"} : Replied(r) BY <1>3, <3>1
    <3>3. InWork /\ linked /\ answers = <<>> BY <1>5, <3>2
    <3>4. <<r>> = <<"success">> BY <1>6, <3>1, <3>2, <3>3
    <3>5. r = "success" BY <3>4
    <3>6. job = "set_config again" /\ ok = TRUE
      BY <3>1, <3>2, <3>3, <3>5 DEF InWork, OwnJob
    <3>7. config.port = sent.port /\ rules = sent.rules BY <3>1, <3>3, <3>6 DEF InMemory
    <3>8. file' = Image(config, rules) BY <1>4, <3>6
    <3>9. /\ file'.kind = "full" /\ ~file'.typo
          /\ file'.port = sent.port /\ file'.rules = sent.rules
      BY <3>7, <3>8 DEF Image
    <3> QED BY <2>0, <3>7, <3>9
  <2> QED BY <2>1, <2>2
<1> QED BY <1>7, <1>8, <1>9, <1>10, <1>11, <1>12, <1>13

\* Steps that leave the pipe, what was sent and the GUI's place alone.
LEMMA PipeKept ==
    ASSUME SInv, UNCHANGED <<linked, calls, answers, late, gui, sent, job>>
    PROVE  OneCall'
<1>1. UNCHANGED <<Waiting, Idle, OwnJob>> BY DEF Waiting, Idle, OwnJob
<1>2. UNCHANGED <<InPipe, InWork, Answered, NoCall>>
  BY <1>1 DEF InPipe, InWork, Answered, NoCall, Own
<1> QED BY <1>2 DEF SInv, Rest, OneCall

\* The steps before it touch only the temporary file.
LEMMA SaveGoesOn == ASSUME SInv, OpenTmp \/ WriteTmp \/ CutTmp PROVE Rest'
<1> USE DEF SInv, Rest
<1>1. /\ UNCHANGED <<file, config, rules, job, linked, calls, answers, late, gui, sent, msg>>
      /\ UNCHANGED <<touched, blind>>
      /\ step \in {"open", "write"} /\ step' \in {"write", "rename"}
      /\ cut' = cut \/ cut' = TRUE
      /\ step' = "rename" => tmp' = Image(config, rules) \/ cut' = TRUE
  BY DEF OpenTmp, WriteTmp, CutTmp, guiVars, pipeVars
<1>2. cut => cut' BY <1>1
<1>3. FileIsWhole' BY <1>1, <1>2 DEF FileIsWhole
<1>4. Places' BY <1>1, <1>2 DEF Places
<1>5. Working' BY <1>1 DEF Working, Idle, Waiting
<1>6. TmpWritten' BY <1>1 DEF TmpWritten
<1>7. OneCall' BY <1>1, PipeKept
<1>8. InMemory' BY <1>1 DEF InMemory
<1>9. OnDisk' BY <1>1, <1>2 DEF OnDisk, Accepted
<1> QED BY <1>3, <1>4, <1>5, <1>6, <1>7, <1>8, <1>9

\* The handlers take the request of the call that waits, unless one has given up.
LEMMA HandlerKeeps ==
    ASSUME SInv, SetRules \/ SetConfig \/ SetLogLevel \/ ReloadConfig
    PROVE  Rest'
<1> USE DEF SInv, Rest
<1>1. UNCHANGED <<file, tmp, linked, late, gui, sent, msg, touched, blind, cut>>
  BY DEF SetRules, SetConfig, SetLogLevel, ReloadConfig, fileVars, guiVars
<1>2. /\ step = "none" /\ calls # <<>> /\ calls' = Tail(calls) /\ job = "none" /\ linked
  BY DEF SetRules, SetConfig, SetLogLevel, ReloadConfig, Takes, Working
<1> DEFINE request == Head(calls)
           Rules2 == /\ request.op = "set_rules" /\ job' = "set_rules" /\ step' = "open"
                     /\ answers' = answers /\ rules' = request.rules /\ config' = config
           Config2 == /\ request.op = "set_config" /\ job' = "set_config" /\ step' = "open"
                      /\ answers' = answers /\ rules' = rules /\ config'.port = request.port
           Level2 == /\ request.op = "set_log_level" /\ job' = "set_log_level"
                     /\ step' = "open" /\ answers' = answers /\ rules' = rules
                     /\ config'.port = config.port
           Reload2 == /\ request.op = "reload"
                      /\ \/ job' = "reload" /\ step' = "open" /\ answers' = answers
                         \/ /\ job' = "none" /\ step' = "none"
                            /\ \E r \in {"success", "error"} : answers' = Append(answers, r)
<1>3. Rules2 \/ Config2 \/ Level2 \/ Reload2
  <2>1. CASE SetRules BY <2>1 DEF SetRules, Takes
  <2>2. CASE SetConfig
    <3>1. PICK w : config' = [config EXCEPT !.port = request.port, !.pwd = w]
      BY <2>2 DEF SetConfig
    <3>2. config'.port = request.port BY <3>1 DEF TypeOK, Configs
    <3> QED BY <2>2, <3>2 DEF SetConfig, Takes
  <2>3. CASE SetLogLevel
    <3>1. config'.port = config.port BY <2>3 DEF SetLogLevel, TypeOK, Configs
    <3> QED BY <2>3, <3>1 DEF SetLogLevel, Takes
  <2>4. CASE ReloadConfig
    BY <2>4 DEF ReloadConfig, CreateDefaultConfig, Takes, AnswerReload, Answer
  <2> QED BY <2>1, <2>2, <2>3, <2>4
<1>4. ASSUME ~late PROVE InPipe /\ calls' = <<>> /\ answers = <<>> /\ Own(request)
  <2>1. InPipe BY <1>2, <1>4 DEF OneCall, InWork, Answered, NoCall
  <2>2. Tail(calls) = <<>> BY <2>1, OneThing DEF InPipe, TypeOK
  <2> QED BY <1>2, <2>1, <2>2 DEF InPipe
<1>5. ASSUME ~late
      PROVE  /\ request.op = "set_rules" <=> gui = "rules"
             /\ request.op = "set_config" <=> gui = "config"
             /\ request.op = "set_log_level" <=> gui = "level"
             /\ request.op = "reload" <=> gui = "reload"
             /\ gui = "rules" => request.rules = sent.rules
             /\ gui = "config" => request.port = sent.port
             /\ Waiting /\ gui # "ready"
  <2>1. InPipe /\ Own(request) BY <1>4, <1>5
  <2> HIDE DEF request
  <2> QED BY <2>1 DEF InPipe, Own, Waiting
<1> HIDE DEF request
<1>6. \A r \in {"success", "error"} : Append(<<>>, r) = <<r>> BY OneThing
<1>7. FileIsWhole' BY <1>1 DEF FileIsWhole
<1>8. Places' BY <1>1 DEF Places
<1>9. Working' BY <1>1, <1>2, <1>3 DEF Working
<1>10. TmpWritten' BY <1>3 DEF TmpWritten
<1>11. OneCall'
  <2> SUFFICES ASSUME ~late PROVE InWork' \/ Answered'
    BY <1>1 DEF OneCall
  <2>1. Waiting' BY <1>1, <1>5 DEF Waiting
  <2>2. calls' = <<>> /\ answers = <<>> /\ linked' BY <1>1, <1>2, <1>4
  <2>3. CASE answers' = answers
    <3>0. job' # "none" => OwnJob' BY <1>1, <1>3, <1>5 DEF OwnJob
    <3>1. \A r \in {"success", "error"} : Append(answers, r) # answers
      BY <2>2, OneThing
    <3>2. job' # "none" BY <1>3, <2>3, <3>1
    <3> QED BY <2>1, <2>2, <2>3, <3>0, <3>2 DEF InWork
  <2>4. CASE answers' # answers
    <3>1. job' = "none" /\ \E r \in {"success", "error"} : answers' = <<r>>
      BY <1>3, <1>6, <2>2, <2>4
    <3> QED BY <2>1, <2>2, <3>1 DEF Answered, Idle
  <2> QED BY <2>3, <2>4
<1>12. InMemory'
  <2>1. gui \in {"rules", "config", "level"} /\ linked => ~blind BY DEF InMemory
  <2>2. ASSUME ~late
        PROVE  /\ job' = "set_rules" \/ (gui = "rules" /\ answers' # <<>>)
                     => rules' = sent.rules
               /\ gui = "config" => rules' = sent.rules
               /\ job' \in {"set_config", "set_config again"} => config'.port = sent.port
    BY <1>2, <1>3, <1>4, <1>5, <2>2 DEF InMemory
  <2> QED BY <1>1, <1>2, <2>1, <2>2 DEF InMemory
<1>13. OnDisk'
  <2> SUFFICES ASSUME Accepted', ~touched, ~cut, ~late
               PROVE  /\ file.kind = "full" /\ ~file.typo
                      /\ file.port = sent.port /\ file.rules = sent.rules
                      /\ job' # "start"
                      /\ step' # "down" /\ ~blind =>
                            config'.port = sent.port /\ rules' = sent.rules
    BY <1>1 DEF OnDisk
  <2>1. gui \in {"config", "level"} BY <1>1, <1>5 DEF Accepted, Places
  <2>2. answers' = answers /\ answers = <<>> BY <1>3, <1>4, <1>5, <2>1
  <2>3. gui = "level" BY <1>1, <1>5, <2>2, OneThing DEF Accepted, Places
  <2>4. Level2 BY <1>3, <1>5, <2>3
  <2>5. Accepted BY <2>3 DEF Accepted
  <2> QED BY <1>2, <2>4, <2>5 DEF OnDisk
<1> QED BY <1>7, <1>8, <1>9, <1>10, <1>11, <1>12, <1>13

\* A death loses memory and pipe, and leaves the file.
LEMMA DeathKeeps == ASSUME SInv, Die PROVE Rest'
<1> USE DEF SInv, Rest
<1>1. /\ UNCHANGED <<file, tmp, late, gui, sent, msg, touched, blind, cut>>
      /\ step' = "down" /\ job' = "none" /\ linked' = FALSE /\ calls' = <<>>
      /\ answers' = IF Waiting THEN answers ELSE <<>>
  BY DEF Die, fileVars, guiVars
<1>2. Waiting' <=> Waiting BY <1>1 DEF Waiting
<1>3. FileIsWhole' /\ Places' /\ TmpWritten' BY <1>1 DEF FileIsWhole, Places, TmpWritten
<1>4. Working' BY <1>1, <1>2 DEF Working, Idle
<1>5. OneCall'
  <2> SUFFICES ASSUME ~late PROVE Answered' \/ NoCall' BY <1>1 DEF OneCall
  <2>1. CASE Answered BY <1>1, <1>2, <2>1 DEF Answered, Idle
  <2>2. CASE ~Answered
    <3>1. answers = <<>> BY <2>2 DEF OneCall, InPipe, InWork, NoCall
    <3>2. answers' = <<>> BY <1>1, <3>1
    <3> QED BY <1>1, <1>2, <3>2 DEF NoCall, Idle
  <2> QED BY <2>1, <2>2
<1>6. InMemory' BY <1>1 DEF InMemory
<1>7. OnDisk'
  <2>1. Accepted' => Accepted BY <1>1 DEF Accepted, Waiting
  <2> QED BY <1>1, <2>1 DEF OnDisk
<1> QED BY <1>3, <1>4, <1>5, <1>6, <1>7

\* A service started from the file of an accepted save has the settings that were sent,
\* if it could open it.
LEMMA StartKeeps == ASSUME SInv, Start PROVE Rest'
<1> USE DEF SInv, Rest
<1>1. /\ UNCHANGED <<file, tmp, linked, calls, answers, late, gui, sent, msg, touched, cut>>
      /\ step = "down" /\ job = "none" /\ linked = FALSE
  BY DEF Start, fileVars, guiVars, pipeVars, Working
<1>2. \/ step' = "open" /\ job' = "start" /\ file.kind = "missing" /\ blind' = blind
      \/ \E opened \in BOOLEAN :
            /\ step' = "none" /\ job' = "none" /\ LoadFile(opened)
            /\ blind' = (blind \/ ~opened)
  BY DEF Start, CreateDefaultConfig
<1>3. FileIsWhole' /\ Places' /\ TmpWritten'
  BY <1>1, <1>2 DEF FileIsWhole, Places, TmpWritten
<1>4. Working' BY <1>1, <1>2 DEF Working, Idle, Waiting
<1>5. OneCall'
  <2> SUFFICES ASSUME ~late PROVE Answered' \/ NoCall' BY <1>1 DEF OneCall
  <2>1. Idle' BY <1>2 DEF Idle
  <2>2. Waiting' <=> Waiting BY <1>1 DEF Waiting
  <2>3. Answered \/ NoCall BY <1>1 DEF OneCall, InPipe, InWork
  <2>4. Answered => Answered' BY <1>1, <2>1, <2>2 DEF Answered
  <2>5. NoCall => NoCall' BY <1>1, <2>1, <2>2 DEF NoCall
  <2> QED BY <2>3, <2>4, <2>5
<1>6. InMemory' BY <1>1, <1>2 DEF InMemory
<1>7. OnDisk'
  <2> SUFFICES ASSUME Accepted, ~touched, ~cut, ~late
               PROVE  /\ file.kind = "full" /\ ~file.typo
                      /\ file.port = sent.port /\ file.rules = sent.rules
                      /\ job' # "start"
                      /\ ~blind' => config'.port = sent.port /\ rules' = sent.rules
    BY <1>1 DEF OnDisk, Accepted
  <2>1. /\ file.kind = "full" /\ ~file.typo
        /\ file.port = sent.port /\ file.rules = sent.rules
    BY DEF OnDisk
  <2>2. PICK opened \in BOOLEAN :
          job' = "none" /\ LoadFile(opened) /\ blind' = (blind \/ ~opened)
    BY <1>2, <2>1
  <2>3. CASE opened
    <3>1. /\ config' = [port |-> file.port, pwd |-> file.pwd, level |-> file.level]
          /\ rules' = file.rules
      BY <2>1, <2>2, <2>3 DEF LoadFile
    <3> QED BY <2>1, <2>2, <3>1
  <2>4. CASE ~opened
    <3>1. blind' = TRUE BY <2>2, <2>4, Zenon
    <3> QED BY <2>1, <2>2, <3>1
  <2> QED BY <2>3, <2>4
<1> QED BY <1>3, <1>4, <1>5, <1>6, <1>7

\* What a call that ends in time leaves.
LEMMA CallEnds ==
    ASSUME SInv, NEW r \in Results, Returns(r), Waiting, UNCHANGED linked
    PROVE  /\ ~linked => answers' = <<>>
           /\ late => late'
           /\ ~late' => /\ Idle /\ calls = <<>> /\ answers' = <<>>
                        /\ linked => answers # <<>>
           /\ ~late' /\ r = "success" => answers = <<"success">>
<1> USE DEF SInv, Rest
<1>1. ~linked => answers' = <<>> BY DEF Returns
<1>2. late => late' BY DEF Returns
<1>3. ASSUME ~late', answers # <<>>
      PROVE  /\ Idle /\ calls = <<>> /\ answers' = <<>>
             /\ r = "success" => answers = <<"success">>
  <2>1. Answered BY <1>2, <1>3 DEF OneCall, InPipe, InWork, NoCall
  <2>2. PICK a \in {"success", "error"} : answers = <<a>> BY <2>1 DEF Answered
  <2>3. Head(answers) = a /\ Tail(answers) = <<>> BY <2>2, OneThing
  <2>4. r = a BY <1>3, <2>3 DEF Returns
  <2> QED BY <1>3, <2>1, <2>2, <2>3, <2>4 DEF Answered, Returns
<1>4. ASSUME ~late', answers = <<>>
      PROVE  Idle /\ calls = <<>> /\ answers' = <<>> /\ ~linked /\ r = "lost"
  <2>1. ~linked /\ r = "lost" /\ answers' = answers BY <1>4 DEF Returns
  <2> QED BY <1>4, <2>1 DEF Working
<1> QED BY <1>1, <1>2, <1>3, <1>4

\* The GUI's calls: what is sent is what `sent' says.
LEMMA GuiSends == ASSUME SInv, SaveAsync \/ SaveProxy \/ SaveLevel \/ GuiReload PROVE Rest'
<1> USE DEF SInv, Rest
<1>1. /\ UNCHANGED <<file, tmp, config, rules, step, job, linked, cut>>
      /\ msg' # "saved"
      /\ gui' \in {"rules", "config", "level", "reload"}
  BY DEF SaveAsync, SaveProxy, SaveLevel, GuiReload, fileVars, svcVars, Places
<1>2. Waiting' BY <1>1 DEF Waiting
<1>3. /\ late => late'
      /\ ~late' => Idle /\ calls = <<>> /\ answers' = <<>>
      /\ ~linked => calls = <<>>
  <2>1. CASE SaveAsync \/ GuiReload
    <3>1. gui = "ready" /\ UNCHANGED <<answers, late>> BY <2>1 DEF SaveAsync, GuiReload
    <3>2. ~Waiting BY <3>1 DEF Waiting
    <3> QED BY <3>1, <3>2 DEF OneCall, InPipe, InWork, Answered, NoCall, Working
  <2>2. CASE SaveProxy \/ SaveLevel
    <3>1. Waiting /\ \E r \in Results : Returns(r)
      BY <2>2 DEF SaveProxy, SaveLevel, Waiting, Results
    <3> QED BY <1>1, <3>1, CallEnds DEF Working
  <2> QED BY <2>1, <2>2
<1> DEFINE Sent(r) == /\ gui' = "rules" => r.op = "set_rules" /\ r.rules = sent'.rules
                      /\ gui' = "config" => r.op = "set_config" /\ r.port = sent'.port
                      /\ gui' = "level" => r.op = "set_log_level"
                      /\ gui' = "reload" => r.op = "reload"
<1>4. PICK q \in Requests :
        /\ calls' = IF linked THEN Append(calls, q) ELSE calls
        /\ Sent(q)
  <2>0. form \in Forms /\ sent \in [port : Port, pwd : Stored, rules : Seq(RuleName)]
    BY DEF TypeOK
  <2>a. /\ form.port \in Port /\ form.pwd \in Stored /\ form.level \in Levels
        /\ form.rules \in Seq(RuleName) /\ sent.pwd \in Stored
    BY <2>0, ValuesTyped
  <2>1. CASE SaveAsync
    <3> DEFINE q == [op |-> "set_rules", rules |-> form.rules]
    <3>1. q \in Requests BY <2>a, RequestsTyped
    <3>2. sent'.rules = form.rules /\ gui' = "rules" BY <2>0, <2>1 DEF SaveAsync
    <3>3. Sent(q) BY <3>2
    <3> QED BY <2>1, <3>1, <3>3 DEF SaveAsync, Send
  <2>2. CASE SaveProxy
    <3> DEFINE q == [op |-> "set_config", port |-> form.port, pwd |-> sent.pwd]
    <3>1. q \in Requests BY <2>a, RequestsTyped
    <3>2. sent'.port = form.port /\ gui' = "config" BY <2>0, <2>2 DEF SaveProxy
    <3>3. Sent(q) BY <3>2
    <3> QED BY <2>2, <3>1, <3>3 DEF SaveProxy, Send
  <2>3. CASE SaveLevel
    <3> DEFINE q == [op |-> "set_log_level", level |-> form.level]
    <3>1. q \in Requests BY <2>a, RequestsTyped
    <3>2. Sent(q) BY <2>3 DEF SaveLevel
    <3> QED BY <2>3, <3>1, <3>2 DEF SaveLevel, Send
  <2>4. CASE GuiReload
    <3> DEFINE q == [op |-> "reload"]
    <3>1. q \in Requests BY RequestsTyped
    <3>2. Sent(q) BY <2>4 DEF GuiReload
    <3> QED BY <2>4, <3>1, <3>2 DEF GuiReload, Send
  <2> QED BY <2>1, <2>2, <2>3, <2>4
<1>5. FileIsWhole' BY <1>1 DEF FileIsWhole, SaveAsync, SaveProxy, SaveLevel, GuiReload
<1>6. Places' BY <1>1 DEF Places
<1>7. Working' BY <1>1, <1>2, <1>3, <1>4 DEF Working, Idle
<1>8. TmpWritten' BY <1>1 DEF TmpWritten
<1>9. OneCall'
  <2> SUFFICES ASSUME ~late' PROVE InPipe' \/ NoCall' BY DEF OneCall
  <2>1. Idle' /\ answers' = <<>> BY <1>1, <1>3 DEF Idle
  <2>2. CASE linked
    <3>1. calls' = <<q>> BY <1>3, <1>4, <2>2, OneThing
    <3>2. Len(calls') = 1 /\ Head(calls') = q BY <1>4, <3>1, OneThing
    <3>3. Own(Head(calls))' BY <1>4, <3>2 DEF Own
    <3> QED BY <1>1, <1>2, <2>1, <2>2, <3>2, <3>3 DEF InPipe
  <2>3. CASE ~linked BY <1>1, <1>3, <1>4, <2>1, <2>3 DEF NoCall
  <2> QED BY <2>2, <2>3
<1>10. InMemory'
  <2>1. gui' \in {"rules", "config", "level"} /\ linked => ~blind'
    BY DEF SaveAsync, SaveProxy, SaveLevel, GuiReload, InMemory
  <2>2. ASSUME ~late', linked, gui' = "config" PROVE rules = sent'.rules
    <3>1. SaveProxy BY <2>2 DEF SaveAsync, SaveProxy, SaveLevel, GuiReload
    <3>2. sent'.rules = sent.rules BY <3>1 DEF SaveProxy, TypeOK
    <3>3. answers # <<>> /\ ~late
      BY <1>1, <2>2, <3>1, CallEnds DEF SaveProxy, Waiting
    <3> QED BY <2>2, <3>1, <3>2, <3>3 DEF SaveProxy, InMemory
  <2> QED BY <1>1, <1>3, <2>1, <2>2 DEF InMemory, Idle
<1>11. OnDisk'
  <2> SUFFICES ASSUME Accepted', ~touched', ~cut, ~late'
               PROVE  /\ file.kind = "full" /\ ~file.typo
                      /\ file.port = sent'.port /\ file.rules = sent'.rules
                      /\ job # "start"
                      /\ step # "down" /\ ~blind' =>
                            config.port = sent'.port /\ rules = sent'.rules
    BY <1>1 DEF OnDisk
  <2>1. gui' = "level" BY <1>1, <1>3, OneThing DEF Accepted
  <2>2. SaveLevel BY <2>1 DEF SaveAsync, SaveProxy, SaveLevel, GuiReload
  <2>3. UNCHANGED <<sent, blind, touched>> /\ gui = "config" /\ Returns("success")
    BY <2>2 DEF SaveLevel
  <2>4. answers = <<"success">> /\ ~late BY <1>1, <2>3, CallEnds DEF Waiting, Results
  <2>5. Accepted BY <2>3, <2>4 DEF Accepted
  <2> QED BY <2>3, <2>4, <2>5 DEF OnDisk
<1> QED BY <1>5, <1>6, <1>7, <1>8, <1>9, <1>10, <1>11

\* The GUI says `saved' only after set_config has succeeded.
LEMMA GuiReceives == ASSUME SInv, SaveRefused \/ SaveDone \/ GuiReloaded PROVE Rest'
<1> USE DEF SInv, Rest
<1>1. /\ UNCHANGED <<file, tmp, config, rules, step, job, linked, calls, sent, touched, blind>>
      /\ cut' = cut
      /\ gui' \in {"ready", "load"} /\ gui \in {"config", "level", "reload"}
      /\ msg' = "saved" => gui' = "ready"
  BY DEF SaveRefused, SaveDone, GuiReloaded, fileVars, svcVars, Places
<1>2. msg' = "saved" => gui = "level"
  BY DEF SaveRefused, SaveDone, GuiReloaded, Places
<1>3. /\ ~linked => answers' = <<>>
      /\ late => late'
      /\ ~late' => Idle /\ calls = <<>> /\ answers' = <<>>
  <2>1. Waiting /\ \E r \in Results : Returns(r)
    BY DEF SaveRefused, SaveDone, GuiReloaded, Waiting, Results
  <2> QED BY <1>1, <2>1, CallEnds
<1>4. ~Waiting' BY <1>1 DEF Waiting
<1>5. FileIsWhole' BY <1>1 DEF FileIsWhole
<1>6. Places' BY <1>1 DEF Places
<1>7. Working' BY <1>1, <1>3, <1>4 DEF Working, Idle
<1>8. TmpWritten' BY <1>1 DEF TmpWritten
<1>9. OneCall' BY <1>1, <1>3, <1>4 DEF OneCall, NoCall, Idle
<1>10. InMemory' BY <1>1, <1>3 DEF InMemory, Idle
<1>11. OnDisk'
  <2>1. Accepted' => Accepted BY <1>1, <1>2 DEF Accepted
  <2> QED BY <1>1, <1>3, <2>1 DEF OnDisk
<1> QED BY <1>5, <1>6, <1>7, <1>8, <1>9, <1>10, <1>11

\* What the GUI does between two calls.
LEMMA GuiWaits ==
    ASSUME SInv,
           \/ Connect \/ LoadFromConfig \/ FileIsMissing \/ EnsureFileExists
           \/ ResetToEmpty \/ MoveReset
    PROVE  Rest'
<1> USE DEF SInv, Rest
<1>1. /\ UNCHANGED <<config, rules, step, job, calls, answers, sent, touched, blind, cut>>
      /\ \/ linked' = linked /\ late' = late
         \/ linked' = TRUE /\ late' = FALSE /\ ~linked /\ step # "down"
      /\ gui \in {"load", "create", "write", "reset", "ready"}
      /\ gui' \in {"load", "create", "write", "reset", "ready"}
      /\ msg' # "saved"
  BY DEF Connect, LoadFromConfig, FileIsMissing, EnsureFileExists, ResetToEmpty, MoveReset,
         Shown, fileVars, svcVars, pipeVars, Places
<1>2. /\ tmp' # tmp => cut
      /\ gui' = "reset" => cut
      /\ \/ file' = file /\ gui # "write"
         \/ file' = Empty /\ gui' = "write"
         \/ file' = Blank
         \/ cut
  BY DEF Connect, LoadFromConfig, FileIsMissing, EnsureFileExists, ResetToEmpty, MoveReset,
         MayReset, Shown, fileVars, Places, FileIsWhole
<1>3. ~Waiting /\ ~Waiting' BY <1>1 DEF Waiting
<1>4. ~late \/ ~linked => Idle /\ calls = <<>> /\ answers = <<>>
  BY <1>3 DEF OneCall, InPipe, InWork, Answered, NoCall, Working
<1>5. FileIsWhole' BY <1>1, <1>2 DEF FileIsWhole, Blank
<1>6. Places' BY <1>1, <1>2 DEF Places
<1>7. Working' BY <1>1, <1>3, <1>4 DEF Working, Idle
<1>8. TmpWritten' BY <1>1, <1>2 DEF TmpWritten
<1>9. OneCall' BY <1>1, <1>3, <1>4 DEF OneCall, NoCall, Idle
<1>10. InMemory'
  <2>1. ~late' => job \in {"none", "start"} BY <1>1, <1>4 DEF Idle
  <2>2. gui' \notin {"rules", "config", "level"} BY <1>1
  <2> QED BY <1>1, <2>1, <2>2 DEF InMemory
<1>11. OnDisk' BY <1>1 DEF OnDisk, Accepted
<1> QED BY <1>5, <1>6, <1>7, <1>8, <1>9, <1>10, <1>11

\* The user edits what has not been sent; an edit of the file by somebody else is
\* recorded as such.
LEMMA EditKeeps ==
    ASSUME SInv,
           \/ AdminEdits
           \/ \E p \in Port, w \in Stored, l \in Level, r \in Rules : EditForm(p, w, l, r)
    PROVE  Rest'
<1> USE DEF SInv, Rest
<1>1. /\ UNCHANGED <<tmp, config, rules, step, job, linked, calls, answers, late, gui, sent>>
      /\ UNCHANGED <<msg, blind, cut>>
      /\ touched' = TRUE \/ (touched' = touched /\ file' = file)
  BY DEF AdminEdits, Edit, EditForm, fileVars, svcVars, pipeVars
<1>2. file' = file \/ file'.kind \notin {"torn", "empty"}
  <2>1. \/ file' = file \/ file' = Missing \/ file' = Garbled
        \/ file.kind = "full" /\ \E p \in Port, t \in BOOLEAN :
                                    file' = [file EXCEPT !.port = p, !.typo = t]
    BY DEF AdminEdits, Edit, EditForm, fileVars
  <2>2. file \in Files BY DEF TypeOK
  <2>3. CASE file' = Missing \/ file' = Garbled BY <2>3 DEF Missing, Garbled
  <2>4. ASSUME file.kind = "full", NEW p \in Port, NEW t \in BOOLEAN,
               file' = [file EXCEPT !.port = p, !.typo = t]
        PROVE  file'.kind = "full"
    BY <2>2, <2>4, FilesTyped
  <2> QED BY <2>1, <2>3, <2>4
<1>3. FileIsWhole' BY <1>1, <1>2 DEF FileIsWhole
<1>4. Places' BY <1>1 DEF Places
<1>5. Working' BY <1>1 DEF Working, Idle, Waiting
<1>6. TmpWritten' BY <1>1 DEF TmpWritten
<1>7. OneCall' BY <1>1, PipeKept
<1>8. InMemory' BY <1>1 DEF InMemory
<1>9. OnDisk' BY <1>1 DEF OnDisk, Accepted
<1> QED BY <1>3, <1>4, <1>5, <1>6, <1>7, <1>8, <1>9

\* The first start.
LEMMA SettingsInit == Init => SInv
<1> SUFFICES ASSUME Init PROVE SInv OBVIOUS
<1> USE SettingsAssumption
<1>1. PICK p \in Port, w \in Stored, r \in Rules :
        /\ config = [port |-> p, pwd |-> w, level |-> 2] /\ file = Image(config, r)
        /\ rules = r /\ engine = r /\ inUse = p
  BY DEF Init
<1>2. config \in Configs BY <1>1 DEF Configs, Levels
<1>3. r \in Seq(RuleName) /\ file \in Files BY <1>1, <1>2, FilesTyped
<1>4. /\ tmp = Missing /\ step = "none" /\ job = "none"
      /\ linked = FALSE /\ calls = <<>> /\ answers = <<>> /\ late = FALSE
      /\ gui = "load" /\ form = EmptyForm /\ sent = Nothing /\ msg = "" /\ known = GuiPort
      /\ touched = FALSE /\ blind = FALSE
      /\ saves = 0 /\ edits = 0 /\ faults = 0 /\ cut = FALSE
  BY DEF Init
<1>5. TypeOK
  <2>1. /\ linked \in BOOLEAN /\ touched \in BOOLEAN /\ cut \in BOOLEAN
        /\ late \in BOOLEAN /\ blind \in BOOLEAN
    BY <1>4, Zenon
  <2>2. saves \in 0 .. MaxSaves /\ edits \in 0 .. MaxEdits /\ faults \in 0 .. MaxFaults
    <3>1. MaxSaves \in Nat /\ MaxEdits \in Nat /\ MaxFaults \in Nat OBVIOUS
    <3>2. saves = 0 /\ edits = 0 /\ faults = 0 BY <1>4
    <3> QED BY <3>1, <3>2
  <2>3. /\ form \in Forms /\ tmp \in Files /\ known \in Port
    BY <1>4, ValuesTyped, FilesTyped
  <2>4. sent \in [port : Port, pwd : Stored, rules : Seq(RuleName)]
    <3>1. <<>> \in Seq(RuleName) /\ NoPassword \in Stored BY DEF Stored
    <3> QED BY <1>4, <3>1 DEF Nothing
  <2>5. calls \in Seq(Requests) /\ answers \in Seq({"success", "error"})
    BY <1>4, OneThing
  <2> QED BY <1>1, <1>2, <1>3, <1>4, <2>1, <2>2, <2>3, <2>4, <2>5 DEF TypeOK
<1>6. FileIsWhole BY <1>1 DEF FileIsWhole, Image
<1>7. Places /\ Working /\ TmpWritten /\ OneCall /\ InMemory /\ OnDisk
  BY <1>4 DEF Places, Working, Idle, TmpWritten, OneCall, NoCall, Waiting, InMemory, OnDisk,
              Accepted
<1> QED BY <1>5, <1>6, <1>7 DEF SInv, Rest

\* Every step keeps the invariant.
LEMMA SettingsStep == ASSUME SInv, [Next]_vars PROVE SInv'
<1>1. TypeOK' BY TypeStep DEF SInv
<1>2. Rest'
  <2>1. CASE UNCHANGED vars
    <3>1. /\ UNCHANGED <<file, tmp, config, rules, step, job, linked, calls, answers, late>>
          /\ UNCHANGED <<gui, sent, msg, touched, blind, cut>>
      BY <2>1 DEF vars, fileVars, svcVars, pipeVars, guiVars
    <3>2. FileIsWhole' /\ Places' BY <3>1 DEF SInv, Rest, FileIsWhole, Places
    <3>3. Working' /\ TmpWritten'
      BY <3>1 DEF SInv, Rest, Working, TmpWritten, Idle, Waiting
    <3>4. OneCall' BY <3>1, PipeKept
    <3>5. InMemory' /\ OnDisk' BY <3>1 DEF SInv, Rest, InMemory, OnDisk, Accepted
    <3> QED BY <3>2, <3>3, <3>4, <3>5 DEF Rest
  <2> QED
    BY <2>1, SaveEnds, SaveGoesOn, HandlerKeeps, DeathKeeps, StartKeeps, GuiSends,
       GuiReceives, GuiWaits, EditKeeps DEF Next, Service, GuiSteps
<1> QED BY <1>1, <1>2 DEF SInv

\* SInv is inductive: as long as no call has given up there is one request, answered by
\* the service, and from the success of set_config on the file holds what was sent.
THEOREM SettingsInductive == Spec => []SInv
BY SettingsInit, SettingsStep, PTL DEF Spec

\* Types.
THEOREM SettingsTypeCorrect == Spec => []TypeOK
BY SettingsInductive, PTL DEF SInv

\* A death or a failed step at any point of a save leaves a whole config.json.
THEOREM SavedFileWhole == Spec => []FileIsWhole
BY SettingsInductive, PTL DEF SInv, Rest

\* What the GUI reports as saved is in the file, and in every service started from it that
\* could open it, unless a call on the pipe had given up.
THEOREM SavedIsDurable == Spec => []SavedSurvives
<1>1. SInv => SavedSurvives
  BY DEF SInv, Rest, OnDisk, Accepted, SavedSurvives
<1> QED BY <1>1, SettingsInductive, PTL
=============================================================================
