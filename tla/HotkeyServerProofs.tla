-------------------------- MODULE HotkeyServerProofs --------------------------
(***************************************************************************)
(* Theorems on HotkeyServer, for any files, contents, clients and requests *)
(* and any number of edits and of loads that overlap.  Those on what is    *)
(* served take files that keep the name of their detector; the last one    *)
(* takes, besides, names that differ.                                      *)
(***************************************************************************)
EXTENDS HotkeyServer, SequenceTheorems, TLAPS

\* A config has a name of a detector, and so is none of the others.
LEMMA ConfigNames ==
  /\ \A f \in Files : \A x \in Versions(f) :
       x \in Configs /\ x.name \in Names /\ x \notin {NoConfig, Torn}
  /\ \A f \in Files : Contents[f] \subseteq Versions(f)
  /\ NoConfig # Torn
  <1>1. ASSUME NEW f \in Files, NEW x \in Versions(f)
        PROVE  x \in Configs /\ x.name \in Names
    <2>1. \A y \in Contents[f] : y.name \in Names
      BY ContentsAssumption DEF IsConfig
    <2>2. QED
      BY <2>1 DEF Configs, Versions
  <1>2. NoConfig.name = "none" /\ Torn.name = "torn"
    BY DEF NoConfig, Torn
  <1>3. \A f \in Files : Contents[f] \subseteq Versions(f)
    BY DEF Versions
  <1>4. QED
    BY <1>1, <1>2, <1>3, NamesAssumption

\* The first piece of a version of a file is one of its versions too.
LEMMA VersionParts ==
  ASSUME NEW f \in Files, NEW x \in Versions(f), NEW h \in {NoKeyboard, NoHotkey}
  PROVE  [name |-> x.name, hotkey |-> h] \in Versions(f)
  <1>1. PICK y \in Contents[f] : y.name = x.name
    <2>1. CASE x \in Contents[f]
      BY <2>1
    <2>2. ASSUME NEW y \in Contents[f], NEW k \in {NoKeyboard, NoHotkey},
                 x = [name |-> y.name, hotkey |-> k]
          PROVE  \E z \in Contents[f] : z.name = x.name
      BY <2>2
    <2>3. QED
      BY <2>1, <2>2 DEF Versions
  <1>2. [name |-> y.name, hotkey |-> h] \in
          {[name |-> z.name, hotkey |-> k] : z \in Contents[f], k \in {NoKeyboard, NoHotkey}}
    OBVIOUS
  <1>3. QED
    BY <1>1, <1>2 DEF Versions

LEMMA NamesKnown == \A f \in Files : First[f].name \in Names /\ First[f] \in Contents[f]
  BY ContentsAssumption DEF IsConfig

Read == Configs \cup {Torn}

\* What is left of a sequence without one of its elements.
LEMMA Removed ==
  ASSUME NEW V, NEW s \in Seq(V), NEW i \in 1 .. Len(s)
  PROVE  /\ RemoveAt(s, i) \in Seq(V)
         /\ Len(RemoveAt(s, i)) = Len(s) - 1
         /\ \A k \in 1 .. Len(s) - 1 : RemoveAt(s, i)[k] = IF k < i THEN s[k] ELSE s[k + 1]
  <1> DEFINE n == Len(s)
             p == SubSeq(s, 1, i - 1)
             q == SubSeq(s, i + 1, n)
  <1>1. n \in Nat /\ i \in Nat /\ 1 <= i /\ i <= n /\ \A k \in 1 .. n : s[k] \in V
    OBVIOUS
  <1>2. /\ p \in Seq(V) /\ Len(p) = i - 1
        /\ \A k \in 1 .. i - 1 : p[k] = s[k]
    <2>1. 1 \in Int /\ i - 1 \in Int /\ \A k \in 1 .. i - 1 : s[k] \in V
      BY <1>1
    <2>2. /\ p \in Seq(V) /\ Len(p) = (IF 1 <= i - 1 THEN (i - 1) - 1 + 1 ELSE 0)
          /\ \A k \in 1 .. (i - 1) - 1 + 1 : p[k] = s[1 + k - 1]
      BY <2>1, SubSeqProperties
    <2>3. QED
      BY <1>1, <2>2
  <1>3. /\ q \in Seq(V) /\ Len(q) = n - i
        /\ \A k \in 1 .. n - i : q[k] = s[i + k]
    <2>1. i + 1 \in Int /\ n \in Int /\ \A k \in i + 1 .. n : s[k] \in V
      BY <1>1
    <2>2. /\ q \in Seq(V) /\ Len(q) = (IF i + 1 <= n THEN n - (i + 1) + 1 ELSE 0)
          /\ \A k \in 1 .. n - (i + 1) + 1 : q[k] = s[i + 1 + k - 1]
      BY <2>1, SubSeqProperties
    <2>3. QED
      BY <1>1, <2>2
  <1>4. /\ p \o q \in Seq(V) /\ Len(p \o q) = Len(p) + Len(q)
        /\ \A k \in 1 .. Len(p) + Len(q) : (p \o q)[k] = IF k <= Len(p) THEN p[k] ELSE q[k - Len(p)]
    BY <1>2, <1>3, ConcatProperties
  <1>5. RemoveAt(s, i) = p \o q
    BY DEF RemoveAt
  <1> HIDE DEF n, p, q
  <1>6. Len(p \o q) = n - 1
    <2>1. Len(p \o q) = (i - 1) + (n - i)
      BY <1>2, <1>3, <1>4
    <2>2. QED
      BY <1>1, <2>1
  <1>7. \A k \in 1 .. n - 1 : (p \o q)[k] = IF k < i THEN s[k] ELSE s[k + 1]
    <2> SUFFICES ASSUME NEW k \in 1 .. n - 1
                 PROVE  (p \o q)[k] = IF k < i THEN s[k] ELSE s[k + 1]
      OBVIOUS
    <2>1. (p \o q)[k] = IF k <= i - 1 THEN p[k] ELSE q[k - (i - 1)]
      <3>1. Len(p) + Len(q) = n - 1
        BY <1>1, <1>2, <1>3
      <3>2. (p \o q)[k] = IF k <= Len(p) THEN p[k] ELSE q[k - Len(p)]
        BY <1>4, <3>1
      <3>3. QED
        BY <1>2, <3>2
    <2>2. CASE k < i
      BY <1>1, <1>2, <2>1, <2>2
    <2>3. CASE ~(k < i)
      <3>1. k - (i - 1) \in 1 .. n - i /\ i + (k - (i - 1)) = k + 1
        BY <1>1, <2>3
      <3>2. q[k - (i - 1)] = s[k + 1]
        BY <1>3, <3>1
      <3>3. QED
        BY <1>1, <2>1, <2>3, <3>2
    <2>4. QED
      BY <2>2, <2>3
  <1>8. QED
    BY <1>4, <1>5, <1>6, <1>7 DEF n

\* What the end of a load leaves of the others.
LEMMA LoadEnded ==
  ASSUME TypeOK, NEW f \in Files, NEW i \in 1 .. Len(read[f]), EndLoad(f, i)
  PROVE  /\ started' = started
         /\ read' \in [Files -> Seq(Read)] /\ late' \in [Files -> Nat]
         /\ overtaken' \in [Files -> BOOLEAN] /\ \A g \in Files : late'[g] <= Len(read'[g])
         /\ \A g \in Files \ {f} : /\ read'[g] = read[g] /\ late'[g] = late[g]
                                   /\ overtaken'[g] = overtaken[g]
         /\ Len(read'[f]) = Len(read[f]) - 1
         /\ \A k \in 1 .. Len(read[f]) - 1 :
              read'[f][k] = IF k < i THEN read[f][k] ELSE read[f][k + 1]
         /\ late'[f] = IF i <= late[f] THEN late[f] - 1
                       ELSE IF read[f][i] = Torn THEN late[f] ELSE i - 1
         /\ overtaken'[f] = IF read[f][i] = Torn THEN overtaken[f] ELSE i <= late[f]
  <1>1. /\ read \in [Files -> Seq(Read)] /\ late \in [Files -> Nat]
        /\ overtaken \in [Files -> BOOLEAN] /\ \A g \in Files : late[g] <= Len(read[g])
    BY DEF TypeOK, Read
  <1>2. read[f] \in Seq(Read) /\ Len(read[f]) \in Nat /\ late[f] \in Nat /\ late[f] <= Len(read[f])
    <2>1. read[f] \in Seq(Read)
      BY <1>1
    <2>2. QED
      BY <1>1, <2>1
  <1>3. /\ RemoveAt(read[f], i) \in Seq(Read)
        /\ Len(RemoveAt(read[f], i)) = Len(read[f]) - 1
        /\ \A k \in 1 .. Len(read[f]) - 1 :
             RemoveAt(read[f], i)[k] = IF k < i THEN read[f][k] ELSE read[f][k + 1]
    BY <1>2, Removed
  <1>4. read' = [read EXCEPT ![f] = RemoveAt(read[f], i)]
    BY DEF EndLoad
  <1>5. read'[f] = RemoveAt(read[f], i) /\ \A g \in Files \ {f} : read'[g] = read[g]
    BY <1>1, <1>4
  <1>6. read' \in [Files -> Seq(Read)]
    BY <1>1, <1>3, <1>4
  <1> DEFINE m == IF i <= late[f] THEN late[f] - 1
                  ELSE IF read[f][i] = Torn THEN late[f] ELSE i - 1
             o == IF read[f][i] = Torn THEN overtaken[f] ELSE i <= late[f]
  <1>7. m \in Nat /\ m <= Len(read[f]) - 1
    BY <1>2
  <1>8. late' = [late EXCEPT ![f] = m]
    BY DEF EndLoad
  <1>9. overtaken' = [overtaken EXCEPT ![f] = o] /\ started' = started
    BY DEF EndLoad
  <1>10. o \in BOOLEAN
    <2>1. overtaken[f] \in BOOLEAN /\ (i <= late[f]) \in BOOLEAN
      BY <1>1
    <2>2. QED
      BY <2>1
  <1> HIDE DEF m, o
  <1>11. late'[f] = m /\ late' \in [Files -> Nat] /\ \A g \in Files \ {f} : late'[g] = late[g]
    BY <1>1, <1>7, <1>8
  <1>12. /\ overtaken'[f] = o /\ overtaken' \in [Files -> BOOLEAN]
         /\ \A g \in Files \ {f} : overtaken'[g] = overtaken[g]
    BY <1>1, <1>9, <1>10
  <1>13. \A g \in Files : late'[g] <= Len(read'[g])
    <2> SUFFICES ASSUME NEW g \in Files
                 PROVE  late'[g] <= Len(read'[g])
      OBVIOUS
    <2>1. CASE g = f
      BY <1>3, <1>5, <1>7, <1>11, <2>1
    <2>2. CASE g # f
      BY <1>1, <1>5, <1>11, <2>2
    <2>3. QED
      BY <2>1, <2>2
  <1>14. QED
    BY <1>3, <1>5, <1>6, <1>9, <1>11, <1>12, <1>13 DEF m, o

LEMMA TypeInit == Init => TypeOK
  <1> SUFFICES ASSUME Init
               PROVE  TypeOK
    OBVIOUS
  <1>1. file \in [Files -> Configs]
    BY FirstAssumption, NamesKnown, ConfigNames DEF Init
  <1>2. read \in [Files -> Seq(Configs \cup {Torn})] /\ \A f \in Files : late[f] <= Len(read[f])
    BY DEF Init
  <1>3. QED
    BY <1>1, <1>2 DEF Init, TypeOK

LEMMA TypeStep == TypeOK /\ [Next]_vars => TypeOK'
  <1> SUFFICES ASSUME TypeOK, [Next]_vars
               PROVE  TypeOK'
    OBVIOUS
  <1> USE DEF TypeOK
  <1>1. ASSUME NEW f \in Files, NEW x \in Contents[f], Truncate(f, x)
        PROVE  TypeOK'
    <2>1. x \in Configs
      BY ConfigNames
    <2>2. changed' \in [Files -> BOOLEAN] /\ unseen' \in [Files -> BOOLEAN]
      BY <1>1 DEF Truncate, Notice
    <2>3. file' \in [Files -> Configs \cup {Torn}]
      BY <1>1 DEF Truncate
    <2>4. goal' \in [Files -> Configs \cup {NoConfig}]
      BY <1>1, <2>1 DEF Truncate
    <2>5. edits' \in Nat /\ UNCHANGED <<loads, stage, original, detectors, server, tasks,
                                       request, run, answer, calls>>
      BY <1>1 DEF Truncate, loader, http
    <2>6. QED
      BY <2>2, <2>3, <2>4, <2>5 DEF loads
  <1>2. ASSUME NEW f \in Files, NEW h \in {NoKeyboard, NoHotkey}, WritePart(f, h)
        PROVE  TypeOK'
    <2>1. goal[f] \in Configs
      BY <1>2 DEF WritePart, Writing
    <2>2. PICK g \in Files : goal[f] \in Versions(g)
      BY <2>1 DEF Configs
    <2>3. [name |-> goal[f].name, hotkey |-> h] \in Versions(g)
      BY <2>2, VersionParts
    <2>4. file' \in [Files -> Configs \cup {Torn}]
      BY <1>2, <2>3, ConfigNames DEF WritePart
    <2>5. changed' \in [Files -> BOOLEAN] /\ unseen' \in [Files -> BOOLEAN]
      BY <1>2 DEF WritePart, Notice
    <2>6. edits' \in Nat /\ UNCHANGED <<goal, loads, stage, original, detectors, server, tasks,
                                       request, run, answer, calls>>
      BY <1>2 DEF WritePart, loader, http
    <2>7. QED
      BY <2>4, <2>5, <2>6 DEF loads
  <1>3. ASSUME NEW f \in Files, FinishWrite(f)
        PROVE  TypeOK'
    <2>1. changed' \in [Files -> BOOLEAN] /\ unseen' \in [Files -> BOOLEAN]
      BY <1>3 DEF FinishWrite, Notice
    <2>2. file' \in [Files -> Configs \cup {Torn}] /\ goal' \in [Files -> Configs \cup {NoConfig}]
      BY <1>3 DEF FinishWrite, Writing
    <2>3. UNCHANGED <<edits, loads, stage, original, detectors, server, tasks,
                      request, run, answer, calls>>
      BY <1>3 DEF FinishWrite, loader, http
    <2>4. QED
      BY <2>1, <2>2, <2>3 DEF loads
  <1>4. ASSUME Startup
        PROVE  TypeOK'
    <2>1. UNCHANGED <<files, changed, unseen, stage, original, loads, detectors, http>>
      BY <1>4 DEF Startup, StartupScripts, Listen, EndTask, LoadFails, StartTasks
    <2>2. ASSUME NEW ok \in BOOLEAN, StartupScripts(ok) \/ Listen(ok)
          PROVE  server' \in {"checking", "loading", "starting", "serving", "stopped"} /\ tasks' = tasks
      BY <2>2 DEF StartupScripts, Listen
    <2>3. ASSUME NEW ok \in BOOLEAN, NEW n \in Names, EndTask(n, ok)
          PROVE  /\ server' \in {"checking", "loading", "starting", "serving", "stopped"}
                 /\ tasks' \in [Names -> {"none", "running", "done"}]
      <3>1. CASE ok /\ tasks' = [tasks EXCEPT ![n] = "done"] /\ server' = server
        BY <3>1
      <3>2. CASE ~ok /\ server' = "stopped" /\ tasks' = tasks
        BY <3>2
      <3>3. QED
        BY <2>3, <3>1, <3>2 DEF EndTask
    <2>4. ASSUME LoadFails \/ StartTasks
          PROVE  /\ server' \in {"checking", "loading", "starting", "serving", "stopped"}
                 /\ tasks' \in [Names -> {"none", "running", "done"}]
      BY <2>4 DEF LoadFails, StartTasks
    <2>5. /\ server' \in {"checking", "loading", "starting", "serving", "stopped"}
          /\ tasks' \in [Names -> {"none", "running", "done"}]
      BY <1>4, <2>2, <2>3, <2>4 DEF Startup
    <2>6. QED
      BY <2>1, <2>5 DEF files, loads, http
  <1>5. ASSUME NEW f \in Files, ReadFirst(f) \/ WatchFile(f)
        PROVE  TypeOK'
    <2>1. UNCHANGED <<files, changed, unseen, loads, startup, http>>
      BY <1>5 DEF ReadFirst, WatchFile
    <2>2. /\ stage' \in [Files -> {"toRead", "read", "watched", "failed"}]
          /\ original' \in [Files -> Configs \cup {NoConfig}]
          /\ detectors' \in [Names -> Configs \cup {NoConfig}]
      <3>1. CASE WatchFile(f)
        <4>1. original[f] \in Configs \cup {NoConfig}
          OBVIOUS
        <4>2. QED
          BY <3>1, <4>1 DEF WatchFile
      <3>2. CASE /\ stage' = [stage EXCEPT ![f] = "failed"]
                 /\ original' = original /\ detectors' = detectors
        BY <3>2
      <3>3. CASE /\ file[f] # Torn /\ stage' = [stage EXCEPT ![f] = "read"]
                 /\ original' = [original EXCEPT ![f] = file[f]] /\ detectors' = detectors
        <4>1. file[f] \in Configs
          BY <3>3
        <4>2. QED
          BY <3>3, <4>1
      <3>4. QED
        BY <1>5, <3>1, <3>2, <3>3 DEF ReadFirst
    <2>3. QED
      BY <2>1, <2>2 DEF files, loads, startup, http
  <1>6. ASSUME NEW f \in Files, ReportChange(f)
        PROVE  TypeOK'
    <2>1. started' \in [Files -> Nat] /\ changed' \in [Files -> BOOLEAN]
      BY <1>6 DEF ReportChange
    <2>2. QED
      BY <1>6, <2>1 DEF ReportChange, files, loader, http
  <1>7. ASSUME NEW f \in Files, ReadFile(f)
        PROVE  TypeOK'
    <2>1. started' \in [Files -> Nat]
      BY <1>7 DEF ReadFile
    <2>2. Append(read[f], file[f]) \in Seq(Configs \cup {Torn})
          /\ Len(Append(read[f], file[f])) = Len(read[f]) + 1
      OBVIOUS
    <2>3. read' \in [Files -> Seq(Configs \cup {Torn})] /\ \A g \in Files : late'[g] <= Len(read'[g])
      BY <1>7, <2>2 DEF ReadFile
    <2>4. QED
      BY <1>7, <2>1, <2>3 DEF ReadFile, files, loader, http
  <1>8. ASSUME NEW f \in Files, NEW i \in 1 .. Len(read[f]), Replace(f, i)
        PROVE  TypeOK'
    <2>1. EndLoad(f, i) /\ read[f][i] # Torn
      BY <1>8 DEF Replace
    <2>2. read[f][i] \in Configs
      BY <2>1
    <2>3. detectors' \in [Names -> Configs \cup {NoConfig}]
      BY <1>8, <2>2 DEF Replace
    <2>4. UNCHANGED <<files, changed, unseen, stage, original, startup, http>>
      BY <1>8 DEF Replace
    <2>5. QED
      <3>1. /\ started' = started
            /\ read' \in [Files -> Seq(Configs \cup {Torn})] /\ late' \in [Files -> Nat]
            /\ overtaken' \in [Files -> BOOLEAN] /\ \A g \in Files : late'[g] <= Len(read'[g])
        BY <2>1, LoadEnded DEF Read
      <3>2. QED
        BY <2>3, <2>4, <3>1 DEF files, startup, http
  <1>9. ASSUME NEW f \in Files, NEW i \in 1 .. Len(read[f]), DropTorn(f, i)
        PROVE  TypeOK'
    <2>1. EndLoad(f, i) /\ UNCHANGED <<files, changed, unseen, loader, http>>
      BY <1>9 DEF DropTorn
    <2>2. QED
      <3>1. /\ started' = started
            /\ read' \in [Files -> Seq(Configs \cup {Torn})] /\ late' \in [Files -> Nat]
            /\ overtaken' \in [Files -> BOOLEAN] /\ \A g \in Files : late'[g] <= Len(read'[g])
        BY <2>1, LoadEnded DEF Read
      <3>2. QED
        BY <2>1, <3>1 DEF files, loader, http
  <1>10. ASSUME NEW c \in Clients, NEW r \in Requests, TriggerHotkey(c, r)
        PROVE  TypeOK'
    <2>1. Refusal(r) \in {0, 404, 422}
      BY DEF Refusal
    <2>2. UNCHANGED <<files, changed, unseen, loads, loader>> /\ calls' \in Nat
      BY <1>10 DEF TriggerHotkey
    <2>3. /\ request' \in [Clients -> Requests \cup {NoRequest}]
          /\ run' \in [Clients -> {"none", "running", "looking", "script", "done", "error", "over"}]
          /\ answer' \in [Clients -> {0, 200, 404, 422, 500}]
      <3>1. request' = [request EXCEPT ![c] = r]
        BY <1>10 DEF TriggerHotkey
      <3>2. CASE /\ Refusal(r) # 0 /\ answer' = [answer EXCEPT ![c] = Refusal(r)]
                 /\ run' = [run EXCEPT ![c] = "over"]
        BY <2>1, <3>1, <3>2
      <3>3. ASSUME NEW s \in {"running", "error"},
                   answer' = [answer EXCEPT ![c] = 0], run' = [run EXCEPT ![c] = s]
            PROVE  /\ run' \in [Clients -> {"none", "running", "looking", "script", "done", "error", "over"}]
                   /\ answer' \in [Clients -> {0, 200, 404, 422, 500}]
        BY <3>3
      <3>4. QED
        BY <1>10, <3>1, <3>2, <3>3 DEF TriggerHotkey
    <2>4. QED
      BY <2>2, <2>3 DEF files, loads, loader
  <1>11. ASSUME NEW c \in Clients, Executor(c) \/ Answer(c)
         PROVE  TypeOK'
    <2>1. UNCHANGED <<files, changed, unseen, loads, loader, request, calls>>
      BY <1>11 DEF Executor, ValidateConfig, CallScript, EndScript, Answer
    <2>2. /\ run' \in [Clients -> {"none", "running", "looking", "script", "done", "error", "over"}]
          /\ answer' \in [Clients -> {0, 200, 404, 422, 500}]
      <3>1. ASSUME NEW s \in {"looking", "script", "done", "error"},
                   run' = [run EXCEPT ![c] = s], answer' = answer
            PROVE  run' \in [Clients -> {"none", "running", "looking", "script", "done", "error", "over"}]
        BY <3>1
      <3>2. ASSUME NEW a \in {200, 500}, run' = [run EXCEPT ![c] = "over"],
                   answer' = [answer EXCEPT ![c] = a]
            PROVE  /\ run' \in [Clients -> {"none", "running", "looking", "script", "done", "error", "over"}]
                   /\ answer' \in [Clients -> {0, 200, 404, 422, 500}]
        BY <3>2
      <3>3. CASE Executor(c)
        <4>1. PICK ok \in BOOLEAN : ValidateConfig(c, ok) \/ CallScript(c, ok) \/ EndScript(c, ok)
          BY <3>3 DEF Executor
        <4>2. answer' = answer /\ \E s \in {"looking", "script", "done", "error"} :
                                    run' = [run EXCEPT ![c] = s]
          BY <4>1 DEF ValidateConfig, CallScript, EndScript
        <4>3. QED
          BY <3>1, <4>2
      <3>4. CASE Answer(c)
        BY <3>2, <3>4 DEF Answer
      <3>5. QED
        BY <1>11, <3>3, <3>4
    <2>3. QED
      BY <2>1, <2>2 DEF files, loads, loader
  <1>12. CASE UNCHANGED vars
    BY <1>12 DEF vars
  <1>13. QED
    <2> HIDE DEF TypeOK
    <2>1. CASE User
      BY <1>1, <1>2, <1>3, <2>1 DEF User
    <2>2. CASE Loading
      BY <1>5, <1>6, <1>7, <1>8, <1>9, <2>2 DEF Loading
    <2>3. CASE Request
      BY <1>10, <2>3 DEF Request
    <2>4. QED
      BY <1>4, <1>11, <1>12, <2>1, <2>2, <2>3 DEF Next

\* Every variable keeps its type.
THEOREM TypeCorrect == Spec => []TypeOK
  BY TypeInit, TypeStep, PTL DEF Spec

-----------------------------------------------------------------------------
\* A client is told that its hotkey was run only when it has run to its end.
THEOREM AnswersTrue == Spec => AnswerTellsResult
  <1>1. ASSUME TypeOK, [Next]_vars
        PROVE  [\A c \in Clients : answer[c] = 0 /\ answer'[c] = 200 => run[c] = "done"]_vars
    <2> SUFFICES ASSUME NEW c \in Clients, answer[c] = 0, answer'[c] = 200
                 PROVE  run[c] = "done"
      OBVIOUS
    <2>1. PICK d \in Clients : Request \/ Answer(d)
      <3>1. answer' # answer
        OBVIOUS
      <3>2. QED
        BY <1>1, <3>1 DEF Next, User, Truncate, WritePart, FinishWrite, Startup, StartupScripts, Listen, EndTask,
           LoadFails, StartTasks, Loading, ReadFirst, WatchFile, ReportChange, ReadFile, Replace,
           DropTorn, Executor, ValidateConfig, CallScript, EndScript, vars, http
    <2>2. CASE Answer(d)
      BY <1>1, <2>2 DEF Answer, TypeOK
    <2>3. ASSUME NEW e \in Clients, NEW r \in Requests, TriggerHotkey(e, r)
          PROVE  FALSE
      <3>1. Refusal(r) \in {0, 404, 422}
        BY DEF Refusal
      <3>2. answer'[c] \in {answer[c], 0, 404, 422}
        <4>1. answer \in [Clients -> {0, 200, 404, 422, 500}]
          BY <1>1 DEF TypeOK
        <4>2. CASE Refusal(r) # 0 /\ answer' = [answer EXCEPT ![e] = Refusal(r)]
          BY <3>1, <4>1, <4>2
        <4>3. CASE answer' = [answer EXCEPT ![e] = 0]
          BY <4>1, <4>3
        <4>4. QED
          BY <2>3, <4>2, <4>3 DEF TriggerHotkey
      <3>3. QED
        BY <3>2
    <2>4. QED
      BY <2>1, <2>2, <2>3 DEF Request
  <1>2. QED
    BY <1>1, TypeInit, TypeStep, PTL DEF Spec, AnswerTellsResult

-----------------------------------------------------------------------------
\* Files keep the name of their detector, as their user writes them.
KeptNames == \A f \in Files : \A x \in Contents[f] : x.name = First[f].name
\* No two files have the same detector.
OwnNames == \A f, g \in Files : First[f].name = First[g].name => f = g

\* What is read from a file, and kept, is a version of that file.
OwnContents ==
  /\ \A f \in Files : /\ file[f] \in Versions(f) \cup {Torn}
                      /\ goal[f] \in Contents[f] \cup {NoConfig}
                      /\ file[f] = Torn => Writing(f)
  /\ \A f \in Files : stage[f] \in {"read", "watched"} => original[f] \in Versions(f)
  /\ \A f \in Files : \A k \in 1 .. Len(read[f]) : read[f][k] \in Versions(f) \cup {Torn}

\* Only a file that is watched is reloaded.
WatchedLoads ==
  \A f \in Files : stage[f] # "watched" => ~changed[f] /\ started[f] = 0 /\ read[f] = <<>>

\* A file that is watched has put its detector in the map.
Mapped == \A f \in Files : stage[f] = "watched" => detectors[First[f].name] # NoConfig

\* Once tasks are started, each detector of a file has its own.
Started ==
  /\ server \in {"starting", "serving"} => \A f \in Files : stage[f] = "watched"
  /\ server = "starting" => \A f \in Files : tasks[First[f].name] # "none"
  /\ server = "serving" => \A f \in Files : tasks[First[f].name] = "done"

Loaded == TypeOK /\ OwnContents /\ WatchedLoads
Served == Loaded /\ Mapped /\ Started

\* What the steps of clients leave alone.
loading == <<file, goal, changed, unseen, stage, original, started, read, late, overtaken,
             detectors, server, tasks>>

LEMMA ClientsApart ==
  ASSUME Request \/ (\E c \in Clients : Executor(c) \/ Answer(c)) \/ UNCHANGED vars
  PROVE  UNCHANGED loading
  BY DEF Request, TriggerHotkey, Executor, ValidateConfig, CallScript, EndScript, Answer,
         vars, files, loads, loader, loading

\* What the steps of the start, but for loads, leave alone.
LEMMA StartupApart ==
  ASSUME \/ \E ok \in BOOLEAN : StartupScripts(ok) \/ Listen(ok)
         \/ \E ok \in BOOLEAN, n \in Names : EndTask(n, ok)
         \/ LoadFails \/ StartTasks
  PROVE  UNCHANGED <<file, goal, changed, unseen, stage, original, loads, detectors>>
  BY DEF StartupScripts, Listen, EndTask, LoadFails, StartTasks, files

\* A piece of an edit, or all of it: the cases are alike for what follows.
Edit(f) == \/ \E x \in Contents[f] : Truncate(f, x)
           \/ \E h \in {NoKeyboard, NoHotkey} : WritePart(f, h)
           \/ FinishWrite(f)

\* The cases of a step, for the lemmas below.
LEMMA StepCases ==
  ASSUME [Next]_vars
  PROVE  \/ \E f \in Files : Edit(f)
         \/ \E f \in Files : ReadFirst(f) \/ WatchFile(f) \/ ReportChange(f) \/ ReadFile(f)
         \/ \E f \in Files : \E i \in 1 .. Len(read[f]) : Replace(f, i) \/ DropTorn(f, i)
         \/ \E ok \in BOOLEAN : StartupScripts(ok) \/ Listen(ok)
         \/ \E ok \in BOOLEAN, n \in Names : EndTask(n, ok)
         \/ LoadFails \/ StartTasks
         \/ UNCHANGED loading
  BY ClientsApart DEF Next, User, Edit, Startup, Loading

\* An edit changes the file and is noticed, and no more.
LEMMA EditChanges ==
  ASSUME Loaded, NEW f \in Files, Edit(f)
  PROVE  /\ Notice(f) /\ UNCHANGED <<stage, original, loads, detectors, server, tasks>>
         /\ \A g \in Files \ {f} : file'[g] = file[g] /\ goal'[g] = goal[g]
         /\ file'[f] \in Versions(f) \cup {Torn} /\ goal'[f] \in Contents[f] \cup {NoConfig}
         /\ file'[f] = Torn => goal'[f] # NoConfig
  <1> USE DEF Loaded, TypeOK, OwnContents
  <1>1. ASSUME NEW x \in Contents[f], Truncate(f, x)
        PROVE  /\ \A g \in Files \ {f} : file'[g] = file[g] /\ goal'[g] = goal[g]
               /\ file'[f] \in Versions(f) \cup {Torn} /\ goal'[f] \in Contents[f] \cup {NoConfig}
               /\ file'[f] = Torn => goal'[f] # NoConfig
    BY <1>1, ConfigNames DEF Truncate
  <1>2. ASSUME NEW h \in {NoKeyboard, NoHotkey}, WritePart(f, h)
        PROVE  /\ \A g \in Files \ {f} : file'[g] = file[g] /\ goal'[g] = goal[g]
               /\ file'[f] \in Versions(f) \cup {Torn} /\ goal'[f] \in Contents[f] \cup {NoConfig}
               /\ file'[f] = Torn => goal'[f] # NoConfig
    <2>1. goal[f] \in Contents[f]
      BY <1>2 DEF WritePart, Writing
    <2>2. [name |-> goal[f].name, hotkey |-> h] \in Versions(f)
      BY <2>1, VersionParts, ConfigNames
    <2>3. file'[f] \in Versions(f) /\ goal' = goal /\ \A g \in Files \ {f} : file'[g] = file[g]
      BY <1>2, <2>2 DEF WritePart
    <2>4. QED
      BY <2>1, <2>3, ConfigNames
  <1>3. ASSUME FinishWrite(f)
        PROVE  /\ \A g \in Files \ {f} : file'[g] = file[g] /\ goal'[g] = goal[g]
               /\ file'[f] \in Versions(f) \cup {Torn} /\ goal'[f] \in Contents[f] \cup {NoConfig}
               /\ file'[f] = Torn => goal'[f] # NoConfig
    BY <1>3, ConfigNames DEF FinishWrite, Writing
  <1>4. Notice(f) /\ UNCHANGED <<stage, original, loads, detectors, server, tasks>>
    BY DEF Edit, Truncate, WritePart, FinishWrite, loader
  <1>5. QED
    BY <1>1, <1>2, <1>3, <1>4 DEF Edit

LEMMA LoadedInit == Init => Loaded
  <1> SUFFICES ASSUME Init
               PROVE  Loaded
    OBVIOUS
  <1>1. OwnContents
    BY NamesKnown, ConfigNames DEF Init, OwnContents
  <1>2. WatchedLoads
    BY DEF Init, WatchedLoads
  <1>3. QED
    BY <1>1, <1>2, TypeInit DEF Loaded

LEMMA LoadedStep == Loaded /\ [Next]_vars => Loaded'
  <1> SUFFICES ASSUME Loaded, [Next]_vars
               PROVE  OwnContents' /\ WatchedLoads'
    BY TypeStep DEF Loaded
  <1> USE DEF Loaded, OwnContents, WatchedLoads
  <1>1. ASSUME NEW f \in Files, Edit(f)
        PROVE  OwnContents' /\ WatchedLoads'
    <2>1. /\ Notice(f) /\ UNCHANGED <<stage, original, loads, detectors, server, tasks>>
          /\ \A g \in Files \ {f} : file'[g] = file[g] /\ goal'[g] = goal[g]
          /\ file'[f] \in Versions(f) \cup {Torn} /\ goal'[f] \in Contents[f] \cup {NoConfig}
          /\ file'[f] = Torn => goal'[f] # NoConfig
      BY <1>1, EditChanges
    <2>2. OwnContents'
      BY <2>1 DEF loads, Writing
    <2>3. \A g \in Files : changed'[g] => changed[g] \/ stage[g] = "watched"
      BY <2>1 DEF Notice, TypeOK
    <2>4. WatchedLoads'
      BY <2>1, <2>3 DEF loads
    <2>5. QED
      BY <2>2, <2>4
  <1>2. ASSUME NEW f \in Files, ReadFirst(f) \/ WatchFile(f)
        PROVE  OwnContents' /\ WatchedLoads'
    <2>1. /\ UNCHANGED <<file, goal, changed, started, read>>
          /\ \A g \in Files \ {f} : stage'[g] = stage[g] /\ original'[g] = original[g]
          /\ stage[f] # "watched"
      BY <1>2 DEF ReadFirst, WatchFile, files, loads, TypeOK
    <2>2. stage'[f] \in {"read", "watched"} => original'[f] \in Versions(f)
      BY <1>2 DEF ReadFirst, WatchFile, TypeOK
    <2>3. QED
      BY <2>1, <2>2 DEF Writing
  <1>3. ASSUME NEW f \in Files, ReportChange(f)
        PROVE  OwnContents' /\ WatchedLoads'
    <2>1. UNCHANGED <<file, goal, read, stage, original>> /\ stage[f] = "watched"
      BY <1>3 DEF ReportChange, files, loader
    <2>2. \A g \in Files \ {f} : started'[g] = started[g] /\ changed'[g] = changed[g]
      BY <1>3 DEF ReportChange, TypeOK
    <2>3. QED
      BY <2>1, <2>2 DEF Writing
  <1>4. ASSUME NEW f \in Files, ReadFile(f)
        PROVE  OwnContents' /\ WatchedLoads'
    <2>1. UNCHANGED <<file, goal, changed, stage, original>> /\ stage[f] = "watched"
      BY <1>4 DEF ReadFile, files, loader, TypeOK
    <2>2. \A g \in Files \ {f} : started'[g] = started[g] /\ read'[g] = read[g]
      BY <1>4 DEF ReadFile, TypeOK
    <2>3. read'[f] = Append(read[f], file[f]) /\ read[f] \in Seq(Read)
      BY <1>4 DEF ReadFile, TypeOK, Read
    <2>4. \A k \in 1 .. Len(read'[f]) : read'[f][k] \in Versions(f) \cup {Torn}
      BY <2>3
    <2>5. QED
      BY <2>1, <2>2, <2>4 DEF Writing
  <1>5. ASSUME NEW f \in Files, NEW i \in 1 .. Len(read[f]), Replace(f, i) \/ DropTorn(f, i)
        PROVE  OwnContents' /\ WatchedLoads'
    <2>1. EndLoad(f, i) /\ UNCHANGED <<file, goal, changed, stage, original>>
      BY <1>5 DEF Replace, DropTorn, files, loader
    <2>2. read[f] \in Seq(Read) /\ Len(read[f]) \in Nat
      BY DEF TypeOK, Read
    <2>3. stage[f] = "watched"
      <3>1. read[f] # <<>>
        BY <2>2
      <3>2. QED
        BY <3>1
    <2>4. /\ started' = started /\ \A g \in Files \ {f} : read'[g] = read[g]
          /\ Len(read'[f]) = Len(read[f]) - 1
          /\ \A k \in 1 .. Len(read[f]) - 1 :
               read'[f][k] = IF k < i THEN read[f][k] ELSE read[f][k + 1]
      BY <2>1, LoadEnded
    <2>5. \A k \in 1 .. Len(read'[f]) : read'[f][k] \in Versions(f) \cup {Torn}
      <3> SUFFICES ASSUME NEW k \in 1 .. Len(read[f]) - 1
                   PROVE  read'[f][k] \in Versions(f) \cup {Torn}
        BY <2>4
      <3>1. k \in 1 .. Len(read[f]) /\ k + 1 \in 1 .. Len(read[f])
        BY <2>2
      <3>2. QED
        BY <2>4, <3>1
    <2>6. QED
      BY <2>1, <2>3, <2>4, <2>5 DEF Writing
  <1>6. ASSUME UNCHANGED <<file, goal, changed, stage, original, started, read>>
        PROVE  OwnContents' /\ WatchedLoads'
    BY <1>6 DEF Writing
  <1>7. QED
    <2>1. CASE \/ \E ok \in BOOLEAN : StartupScripts(ok) \/ Listen(ok)
               \/ \E ok \in BOOLEAN, n \in Names : EndTask(n, ok)
               \/ LoadFails \/ StartTasks
      BY <2>1, <1>6, StartupApart DEF loads
    <2>2. CASE UNCHANGED loading
      BY <2>2, <1>6 DEF loading
    <2>3. QED
      BY <1>1, <1>2, <1>3, <1>4, <1>5, <2>1, <2>2, StepCases

\* A version of a file has the one name of that file.
LEMMA VersionNames ==
  ASSUME KeptNames
  PROVE  \A f \in Files : \A x \in Versions(f) : x.name = First[f].name
  BY DEF KeptNames, Versions

LEMMA ServedInit == Init => Served
  BY LoadedInit DEF Init, Served, Mapped, Started

\* A reload puts another config under the one name its file has.
LEMMA ReplaceKeepsName ==
  ASSUME KeptNames, Loaded, NEW f \in Files, NEW i \in 1 .. Len(read[f]), Replace(f, i)
  PROVE  /\ read[f][i] \in Versions(f)
         /\ detectors' = [detectors EXCEPT ![First[f].name] = read[f][i]]
  <1> DEFINE x == read[f][i]
  <1>1. x \in Versions(f)
    BY DEF Loaded, OwnContents, Replace
  <1>2. read[f] # <<>>
    BY DEF Loaded, TypeOK
  <1>3. original[f] \in Versions(f)
    BY <1>2 DEF Loaded, OwnContents, WatchedLoads
  <1>4. original[f].name = First[f].name /\ x.name = First[f].name
    BY <1>1, <1>3, VersionNames
  <1>5. detectors' = [n \in Names |-> IF n = x.name THEN x ELSE detectors[n]]
    BY <1>4 DEF Replace
  <1>6. detectors' = [detectors EXCEPT ![First[f].name] = x]
    <2> HIDE DEF x
    <2>1. DOMAIN detectors = Names /\ detectors = [n \in Names |-> detectors[n]]
      BY DEF Loaded, TypeOK
    <2>2. QED
      BY <1>4, <1>5, <2>1
  <1>7. QED
    BY <1>1, <1>6

LEMMA ServedStep ==
  ASSUME KeptNames
  PROVE  Served /\ [Next]_vars => Served'
  <1> SUFFICES ASSUME Served, [Next]_vars
               PROVE  Mapped' /\ Started'
    BY LoadedStep DEF Served
  <1> USE DEF Served, Mapped, Started
  <1> TypeOK
    BY DEF Loaded
  <1>1. ASSUME NEW f \in Files, WatchFile(f)
        PROVE  Mapped' /\ Started'
    <2>1. original[f] \in Versions(f) /\ original[f].name = First[f].name
      BY <1>1, VersionNames DEF Loaded, OwnContents, WatchFile
    <2>2. original[f] # NoConfig
      BY <2>1, ConfigNames
    <2>3. detectors' = [detectors EXCEPT ![First[f].name] = original[f]]
      BY <1>1, <2>1 DEF WatchFile
    <2>4. Mapped'
      BY <1>1, <2>2, <2>3, NamesKnown DEF WatchFile, TypeOK
    <2>5. QED
      BY <1>1, <2>4 DEF WatchFile, startup, TypeOK
  <1>2. ASSUME NEW f \in Files, ReadFirst(f)
        PROVE  Mapped' /\ Started'
    BY <1>2 DEF ReadFirst, startup, TypeOK
  <1>3. ASSUME NEW f \in Files, NEW i \in 1 .. Len(read[f]), Replace(f, i)
        PROVE  Mapped' /\ Started'
    <2> DEFINE x == read[f][i]
    <2>1. x \in Versions(f) /\ detectors' = [detectors EXCEPT ![First[f].name] = x]
      BY <1>3, ReplaceKeepsName
    <2>2. x # NoConfig
      BY <2>1, ConfigNames
    <2>3. UNCHANGED <<stage, server, tasks>>
      BY <1>3 DEF Replace, startup
    <2> HIDE DEF x
    <2>4. QED
      BY <2>1, <2>2, <2>3, NamesKnown DEF TypeOK
  <1>4. ASSUME NEW ok \in BOOLEAN, StartupScripts(ok) \/ LoadFails
        PROVE  Mapped' /\ Started'
    BY <1>4 DEF StartupScripts, LoadFails
  <1>5. CASE StartTasks
    BY <1>5, NamesKnown DEF StartTasks
  <1>6. ASSUME NEW ok \in BOOLEAN, NEW n \in Names, EndTask(n, ok)
        PROVE  Mapped' /\ Started'
    BY <1>6, NamesKnown DEF EndTask, TypeOK
  <1>7. ASSUME NEW ok \in BOOLEAN, Listen(ok)
        PROVE  Mapped' /\ Started'
    BY <1>7, NamesKnown DEF Listen, TypeOK
  <1>8. ASSUME UNCHANGED <<stage, detectors, server, tasks>>
        PROVE  Mapped' /\ Started'
    BY <1>8
  <1>9. ASSUME NEW f \in Files, Edit(f)
        PROVE  Mapped' /\ Started'
    BY <1>8, <1>9, EditChanges
  <1>10. ASSUME NEW f \in Files, ReportChange(f) \/ ReadFile(f)
         PROVE  Mapped' /\ Started'
    BY <1>8, <1>10 DEF ReportChange, ReadFile, loader
  <1>11. ASSUME NEW f \in Files, NEW i \in 1 .. Len(read[f]), DropTorn(f, i)
         PROVE  Mapped' /\ Started'
    BY <1>8, <1>11 DEF DropTorn, loader
  <1>12. CASE UNCHANGED loading
    BY <1>8, <1>12 DEF loading
  <1>13. QED
    BY <1>1, <1>2, <1>3, <1>4, <1>5, <1>6, <1>7, <1>9, <1>10, <1>11, <1>12, StepCases

\* A request for a detector always finds some version of it.
THEOREM NeverMissing ==
  ASSUME KeptNames
  PROVE  Spec => []ServedThroughout
  <1>1. Served => ServedThroughout
    BY DEF Served, Mapped, Started, ServedThroughout, Serving
  <1>2. QED
    BY <1>1, ServedInit, ServedStep, PTL DEF Spec

\* No request is served before the startup tasks of all detectors have ended.
THEOREM StartedFirst ==
  ASSUME KeptNames
  PROVE  Spec => []StartedBeforeServing
  <1>1. Served => StartedBeforeServing
    <2> SUFFICES ASSUME Served, Serving, NEW f \in Files
                 PROVE  tasks[original[f].name] = "done"
      BY DEF StartedBeforeServing
    <2>1. stage[f] = "watched" /\ tasks[First[f].name] = "done"
      BY DEF Served, Started, Serving
    <2>2. original[f].name = First[f].name
      BY <2>1, VersionNames DEF Served, Loaded, OwnContents
    <2>3. QED
      BY <2>1, <2>2
  <1>2. QED
    BY <1>1, ServedInit, ServedStep, PTL DEF Spec

-----------------------------------------------------------------------------
\* Between its first read and its watch, only an unseen change makes a file
\* differ from what was read.
ReadTrue == \A f \in Files : stage[f] = "read" => unseen[f] \/ file[f] = original[f]

\* The last load to read a file has read what it says now, and is under way.
Coming(f) == late[f] < Len(read[f]) /\ read[f][Len(read[f])] = file[f]
\* That load, or the start, has put it in the map, and older ones at most came after.
Arrived(f) == late[f] = Len(read[f]) /\ (overtaken[f] \/ detectors[First[f].name] = file[f])

\* The config of a watched file is reported, to be read, on its way, or in the map.
OnItsWay == \A f \in Files :
  stage[f] = "watched" =>
    \/ unseen[f] \/ changed[f] \/ file[f] = Torn \/ started[f] > 0
    \/ Coming(f) \/ Arrived(f)

Following == Served /\ ReadTrue /\ OnItsWay

LEMMA FollowingInit == Init => Following
  BY ServedInit DEF Init, Following, ReadTrue, OnItsWay

LEMMA FollowingStep ==
  ASSUME KeptNames, OwnNames
  PROVE  Following /\ [Next]_vars => Following'
  <1> SUFFICES ASSUME Following, [Next]_vars
               PROVE  ReadTrue' /\ OnItsWay'
    BY ServedStep DEF Following
  <1> USE DEF Following, Served, Loaded
  <1>0. \A g \in Files : read[g] \in Seq(Read) /\ Len(read[g]) \in Nat /\ late[g] \in Nat
    BY DEF TypeOK, Read
  <1>1. ASSUME NEW f \in Files, Edit(f)
        PROVE  ReadTrue' /\ OnItsWay'
    <2>1. /\ Notice(f) /\ UNCHANGED <<stage, original, started, read, late, overtaken, detectors>>
          /\ \A g \in Files \ {f} : file'[g] = file[g]
      BY <1>1, EditChanges DEF loads
    <2>2. /\ \A g \in Files \ {f} : changed'[g] = changed[g] /\ unseen'[g] = unseen[g]
          /\ changed'[f] = (changed[f] \/ stage[f] = "watched")
          /\ unseen'[f] = (stage[f] = "read")
      BY <2>1 DEF Notice, TypeOK
    <2>3. ReadTrue'
      BY <2>1, <2>2 DEF ReadTrue
    <2>4. OnItsWay'
      <3> SUFFICES ASSUME NEW g \in Files, stage[g] = "watched", ~changed'[g]
                   PROVE  \/ unseen'[g] \/ file'[g] = Torn \/ started'[g] > 0
                          \/ Coming(g)' \/ Arrived(g)'
        BY <2>1 DEF OnItsWay
      <3>1. g # f
        BY <2>2
      <3>2. QED
        BY <2>1, <2>2, <3>1 DEF OnItsWay, Coming, Arrived
    <2>5. QED
      BY <2>3, <2>4
  <1>2. ASSUME NEW f \in Files, ReadFirst(f)
        PROVE  ReadTrue' /\ OnItsWay'
    <2>1. UNCHANGED <<file, changed, unseen, started, read, late, overtaken, detectors>>
      BY <1>2 DEF ReadFirst, files, loads
    <2>2. /\ stage'[f] \in {"read", "failed"}
          /\ stage'[f] = "read" => original'[f] = file[f]
          /\ \A g \in Files : g # f => stage'[g] = stage[g] /\ original'[g] = original[g]
      BY <1>2 DEF ReadFirst, TypeOK
    <2>3. QED
      BY <2>1, <2>2 DEF ReadTrue, OnItsWay, Coming, Arrived
  <1>3. ASSUME NEW f \in Files, WatchFile(f)
        PROVE  ReadTrue' /\ OnItsWay'
    <2>1. UNCHANGED <<file, changed, unseen, started, read, late, overtaken, original>>
      BY <1>3 DEF WatchFile, files, loads
    <2>2. original[f].name = First[f].name
      BY <1>3, VersionNames DEF OwnContents, WatchFile
    <2>3. /\ detectors'[First[f].name] = original[f]
          /\ \A g \in Files : g # f => detectors'[First[g].name] = detectors[First[g].name]
      BY <1>3, <2>2, NamesKnown DEF WatchFile, OwnNames, TypeOK
    <2>4. stage[f] = "read" /\ stage'[f] = "watched" /\ \A g \in Files : g # f => stage'[g] = stage[g]
      BY <1>3 DEF WatchFile, TypeOK
    <2>5. read[f] = <<>> /\ late[f] = 0
      <3>1. read[f] = <<>> /\ late[f] <= Len(read[f])
        BY <2>4 DEF WatchedLoads, TypeOK
      <3>2. QED
        BY <1>0, <3>1
    <2>6. late'[f] = Len(read'[f])
      BY <2>1, <2>5
    <2>7. unseen'[f] \/ Arrived(f)'
      BY <2>1, <2>3, <2>4, <2>6 DEF ReadTrue, Arrived
    <2>8. \A g \in Files \ {f} : (Coming(g) => Coming(g)') /\ (Arrived(g) => Arrived(g)')
      BY <2>1, <2>3 DEF Coming, Arrived
    <2>9. QED
      BY <2>1, <2>4, <2>7, <2>8 DEF ReadTrue, OnItsWay
  <1>4. ASSUME NEW f \in Files, ReportChange(f)
        PROVE  ReadTrue' /\ OnItsWay'
    <2>1. UNCHANGED <<file, unseen, stage, original, detectors, read, late, overtaken>>
      BY <1>4 DEF ReportChange, files, loader
    <2>2. /\ started'[f] > 0
          /\ \A g \in Files \ {f} : changed'[g] = changed[g] /\ started'[g] = started[g]
      BY <1>4 DEF ReportChange, TypeOK
    <2>3. QED
      BY <2>1, <2>2 DEF ReadTrue, OnItsWay, Coming, Arrived
  <1>5. ASSUME NEW f \in Files, ReadFile(f)
        PROVE  ReadTrue' /\ OnItsWay'
    <2>1. UNCHANGED <<file, changed, unseen, stage, original, detectors, late, overtaken>>
      BY <1>5 DEF ReadFile, files, loader
    <2>2. /\ read'[f] = Append(read[f], file[f])
          /\ \A g \in Files \ {f} : read'[g] = read[g] /\ started'[g] = started[g]
      BY <1>5 DEF ReadFile, TypeOK
    <2>3. Len(read'[f]) = Len(read[f]) + 1 /\ read'[f][Len(read[f]) + 1] = file[f]
      BY <1>0, <2>2
    <2>4. late'[f] <= Len(read[f])
      BY <2>1 DEF TypeOK
    <2>5. Coming(f)'
      BY <1>0, <2>1, <2>3, <2>4 DEF Coming
    <2>6. QED
      BY <2>1, <2>2, <2>5 DEF ReadTrue, OnItsWay, Coming, Arrived
  <1>6. ASSUME NEW f \in Files, NEW i \in 1 .. Len(read[f]), Replace(f, i)
        PROVE  ReadTrue' /\ OnItsWay'
    <2> DEFINE n == Len(read[f])
               x == read[f][i]
    <2>1. UNCHANGED <<file, changed, unseen, stage, original>> /\ EndLoad(f, i) /\ x # Torn
      BY <1>6 DEF Replace, files
    <2>2. detectors' = [detectors EXCEPT ![First[f].name] = x]
      BY <1>6, ReplaceKeepsName
    <2>3. /\ detectors'[First[f].name] = x
          /\ \A g \in Files : g # f => detectors'[First[g].name] = detectors[First[g].name]
      BY <2>2, NamesKnown DEF OwnNames, TypeOK
    <2>4. /\ started' = started /\ Len(read'[f]) = n - 1
          /\ \A g \in Files \ {f} : /\ read'[g] = read[g] /\ late'[g] = late[g]
                                   /\ overtaken'[g] = overtaken[g]
          /\ \A k \in 1 .. n - 1 : read'[f][k] = IF k < i THEN read[f][k] ELSE read[f][k + 1]
          /\ late'[f] = IF i <= late[f] THEN late[f] - 1 ELSE i - 1
          /\ overtaken'[f] = (i <= late[f])
      BY <2>1, LoadEnded
    <2>5. n \in Nat /\ i \in 1 .. n /\ late[f] \in Nat /\ late[f] <= n
      BY <1>0 DEF TypeOK
    <2> HIDE DEF n, x
    <2>6. Coming(f) => Coming(f)' \/ Arrived(f)'
      <3> SUFFICES ASSUME Coming(f)
                   PROVE  Coming(f)' \/ Arrived(f)'
        OBVIOUS
      <3>1. late[f] < n /\ read[f][n] = file[f]
        BY DEF Coming, n
      <3>2. CASE i = n
        <4>1. late'[f] = n - 1 /\ x = file[f]
          BY <2>4, <2>5, <3>1, <3>2 DEF x
        <4>2. QED
          BY <2>1, <2>3, <2>4, <4>1 DEF Arrived
      <3>3. CASE i # n
        <4>1. late'[f] < n - 1 /\ n - 1 \in 1 .. n - 1 /\ ~(n - 1 < i)
          <5>1. i <= n - 1
            BY <2>5, <3>3
          <5>2. CASE i <= late[f]
            BY <2>4, <2>5, <3>1, <5>1, <5>2
          <5>3. CASE ~(i <= late[f])
            <6>1. late'[f] = i - 1
              BY <2>4, <5>3
            <6>2. QED
              BY <2>5, <5>1, <6>1
          <5>4. QED
            BY <5>2, <5>3
        <4>2. read'[f][n - 1] = read[f][n]
          <5>1. n - 1 + 1 = n
            BY <2>5
          <5>2. QED
            BY <2>4, <4>1, <5>1
        <4>3. QED
          BY <2>1, <2>4, <3>1, <4>1, <4>2 DEF Coming
      <3>4. QED
        BY <3>2, <3>3
    <2>7. Arrived(f) => Arrived(f)'
      <3> SUFFICES ASSUME Arrived(f)
                   PROVE  Arrived(f)'
        OBVIOUS
      <3>1. late[f] = n
        BY DEF Arrived, n
      <3>2. i <= late[f]
        BY <2>5, <3>1
      <3>3. late'[f] = n - 1 /\ overtaken'[f]
        BY <2>4, <3>1, <3>2
      <3>4. QED
        BY <2>4, <3>3 DEF Arrived
    <2>8. \A g \in Files \ {f} : (Coming(g) => Coming(g)') /\ (Arrived(g) => Arrived(g)')
      BY <2>1, <2>3, <2>4 DEF Coming, Arrived
    <2>9. QED
      BY <2>1, <2>4, <2>6, <2>7, <2>8 DEF ReadTrue, OnItsWay
  <1>7. ASSUME NEW f \in Files, NEW i \in 1 .. Len(read[f]), DropTorn(f, i)
        PROVE  ReadTrue' /\ OnItsWay'
    <2> DEFINE n == Len(read[f])
    <2>1. /\ UNCHANGED <<file, changed, unseen, stage, original, detectors>>
          /\ EndLoad(f, i) /\ read[f][i] = Torn
      BY <1>7 DEF DropTorn, files, loader
    <2>2. /\ started' = started /\ Len(read'[f]) = n - 1
          /\ \A g \in Files \ {f} : /\ read'[g] = read[g] /\ late'[g] = late[g]
                                   /\ overtaken'[g] = overtaken[g]
          /\ \A k \in 1 .. n - 1 : read'[f][k] = IF k < i THEN read[f][k] ELSE read[f][k + 1]
          /\ late'[f] = IF i <= late[f] THEN late[f] - 1 ELSE late[f]
          /\ overtaken'[f] = overtaken[f]
      BY <2>1, LoadEnded
    <2>3. n \in Nat /\ i \in 1 .. n /\ late[f] \in Nat /\ late[f] <= n
      BY <1>0 DEF TypeOK
    <2> HIDE DEF n
    <2>4. Coming(f) => Coming(f)' \/ file[f] = Torn
      <3> SUFFICES ASSUME Coming(f), file[f] # Torn
                   PROVE  Coming(f)'
        OBVIOUS
      <3>1. late[f] < n /\ read[f][n] = file[f]
        BY DEF Coming, n
      <3>2. i # n
        BY <2>1, <3>1
      <3>3. late'[f] < n - 1 /\ n - 1 \in 1 .. n - 1 /\ ~(n - 1 < i)
        <4>1. i <= n - 1
          BY <2>3, <3>2
        <4>2. CASE i <= late[f]
          BY <2>2, <2>3, <3>1, <4>1, <4>2
        <4>3. CASE ~(i <= late[f])
          <5>1. late'[f] = late[f] /\ late[f] < i
            BY <2>2, <2>3, <4>3
          <5>2. QED
            BY <2>3, <4>1, <5>1
        <4>4. QED
          BY <4>2, <4>3
      <3>4. read'[f][n - 1] = read[f][n]
        <4>1. n - 1 + 1 = n
          BY <2>3
        <4>2. QED
          BY <2>2, <3>3, <4>1
      <3>5. QED
        BY <2>1, <2>2, <3>1, <3>3, <3>4 DEF Coming
    <2>5. Arrived(f) => Arrived(f)'
      <3> SUFFICES ASSUME Arrived(f)
                   PROVE  Arrived(f)'
        OBVIOUS
      <3>1. late[f] = n
        BY DEF Arrived, n
      <3>2. late'[f] = n - 1
        BY <2>2, <2>3, <3>1
      <3>3. QED
        BY <2>1, <2>2, <3>2 DEF Arrived
    <2>6. \A g \in Files \ {f} : (Coming(g) => Coming(g)') /\ (Arrived(g) => Arrived(g)')
      BY <2>1, <2>2 DEF Coming, Arrived
    <2>7. QED
      BY <2>1, <2>2, <2>4, <2>5, <2>6 DEF ReadTrue, OnItsWay
  <1>8. ASSUME UNCHANGED <<file, changed, unseen, stage, original, loads, detectors>>
        PROVE  ReadTrue' /\ OnItsWay'
    BY <1>8 DEF ReadTrue, OnItsWay, Coming, Arrived, loads
  <1>9. QED
    <2>1. CASE \/ \E ok \in BOOLEAN : StartupScripts(ok) \/ Listen(ok)
               \/ \E ok \in BOOLEAN, n \in Names : EndTask(n, ok)
               \/ LoadFails \/ StartTasks
      BY <2>1, <1>8, StartupApart
    <2>2. CASE UNCHANGED loading
      BY <2>2, <1>8 DEF loading, loads
    <2>3. QED
      BY <1>1, <1>2, <1>3, <1>4, <1>5, <1>6, <1>7, <2>1, <2>2, StepCases

\* When all is quiet, each detector is served as its file says, however many of
\* its loads overlapped, but for an edit made before the watch and for an older
\* config put over a newer one by the last load to end.
THEOREM FilesFollowed ==
  ASSUME KeptNames, OwnNames
  PROVE  Spec => []MapFollowsFiles
  <1>1. Following => MapFollowsFiles
    <2> SUFFICES ASSUME Following, Quiet, NEW f \in Files, ~unseen[f], ~overtaken[f]
                 PROVE  Follows(f)
      BY DEF MapFollowsFiles
    <2>1. stage[f] = "watched"
      BY DEF Following, Served, Started, Quiet, Serving
    <2>2. ~Writing(f) /\ ~changed[f] /\ started[f] = 0 /\ read[f] = <<>>
      BY DEF Quiet
    <2>3. file[f] # Torn
      BY <2>2 DEF Following, Served, Loaded, OwnContents
    <2>4. late[f] \in Nat /\ Len(read[f]) = 0
      BY <2>2 DEF Following, Served, Loaded, TypeOK
    <2>5. Arrived(f)
      BY <2>1, <2>2, <2>3, <2>4 DEF Following, OnItsWay, Coming
    <2>6. file[f].name = First[f].name
      BY <2>3, VersionNames DEF Following, Served, Loaded, OwnContents
    <2>7. QED
      BY <2>2, <2>5, <2>6 DEF Follows, Arrived
  <1>2. QED
    BY <1>1, FollowingInit, FollowingStep, PTL DEF Spec
=============================================================================
