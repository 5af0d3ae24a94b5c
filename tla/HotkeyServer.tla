---------------------------- MODULE HotkeyServer ----------------------------
(***************************************************************************)
(* The server of 2Keys (packages/@twokeys/server): the map of detector     *)
(* configs, loaded at start and reloaded when a file changes, the startup  *)
(* tasks of the detectors, and the route that triggers a hotkey through an *)
(* executor add-on, executor-ahk, which runs a script in the server's own  *)
(* process.                                                                *)
(*                                                                         *)
(* The files are edited by the user, an edit being what fs.writeFile does: *)
(* it truncates the file and then writes it, in one piece or more.         *)
(* Changes of one file that the watcher has not reported yet are reported  *)
(* once; every report starts a load of its own.  Node runs one callback at *)
(* a time, but the loads it waits for complete in any order.               *)
(***************************************************************************)
EXTENDS Naturals, Sequences, SequencesExt

CONSTANTS
  Files,     \* detector config files of the project
  Names,     \* names of detectors
  Contents,  \* file -> the configs the user may write in it
  First,     \* file -> its config at the start
  Clients,   \* who sends requests
  Requests,  \* the requests they may send
  Executors, \* names of the executors in the registry
  MaxEdits,  \* bound on the number of edits, and of the pieces they are written in
  MaxCalls   \* bound on the number of requests

\* A hotkey is [multi, events, executor]: is it split by event, for which
\* events, and run by which executor.
NoHotkey == [absent |-> "hotkey"]
NoKeyboard == [absent |-> "keyboard"]

\* A config as far as one hotkey of one keyboard is concerned.
IsConfig(x) == /\ x.name \in Names
               /\ x.hotkey \notin {NoHotkey, NoKeyboard} =>
                    /\ x.hotkey.multi \in BOOLEAN
                    /\ x.hotkey.events \subseteq {"up", "down", "hold"}

ASSUME ContentsAssumption ==
  \A f \in Files : First[f] \in Contents[f] /\ \A x \in Contents[f] : IsConfig(x)
ASSUME FirstAssumption == First \in [Files -> UNION {Contents[f] : f \in Files}]
\* Names that stand for no config.
ASSUME NamesAssumption == Names \cap {"none", "torn"} = {}
ASSUME BoundsAssumption == MaxEdits \in Nat /\ MaxCalls \in Nat

VARIABLES
  file,      \* content of each file
  goal,      \* what the edit in progress writes, NoConfig without one
  edits,     \* number of edits, and of pieces
  changed,   \* changes of a file the watcher has not reported yet
  unseen,    \* history: did the last change come between the first read and the watch?
  stage,     \* first load of each file: "toRead", "read", "watched", "failed"
  original,  \* the config of the first load, which the watcher keeps
  started,   \* loads of each file that have yet to read it
  read,      \* what the others read, in the order they did
  late,      \* history: how many of them read before one that is in the map
  overtaken, \* history: did the last one in the map read before an earlier one?
  detectors, \* the map of configs, NoConfig where there is none
  server,    \* how far the start of the server is
  tasks,     \* the startup task of each detector
  request,   \* the request of each client
  run,       \* how far its execution is
  answer,    \* the status code it got, 0 before
  calls      \* number of requests

vars == <<file, goal, edits, changed, unseen, stage, original, started, read, late,
          overtaken, detectors, server, tasks, request, run, answer, calls>>
files == <<file, goal, edits>>
startup == <<server, tasks>>
loads == <<started, read, late, overtaken>>
loader == <<stage, original, detectors, server, tasks>>
http == <<request, run, answer, calls>>

-----------------------------------------------------------------------------
NoConfig == [name |-> "none"]
Torn == [name |-> "torn"]

\* What the user may write in a file, and what is there before all of it is: the
\* hotkeys come after the name.
Versions(f) ==
  Contents[f] \cup {[name |-> x.name, hotkey |-> h] : x \in Contents[f], h \in {NoKeyboard, NoHotkey}}
Configs == UNION {Versions(f) : f \in Files}

NoRequest == [detector |-> "none"]

Writing(f) == goal[f] # NoConfig

TypeOK ==
  /\ file \in [Files -> Configs \cup {Torn}]
  /\ goal \in [Files -> Configs \cup {NoConfig}]
  /\ edits \in Nat /\ calls \in Nat
  /\ changed \in [Files -> BOOLEAN]
  /\ unseen \in [Files -> BOOLEAN]
  /\ stage \in [Files -> {"toRead", "read", "watched", "failed"}]
  /\ original \in [Files -> Configs \cup {NoConfig}]
  /\ started \in [Files -> Nat]
  /\ read \in [Files -> Seq(Configs \cup {Torn})]
  /\ late \in [Files -> Nat] /\ \A f \in Files : late[f] <= Len(read[f])
  /\ overtaken \in [Files -> BOOLEAN]
  /\ detectors \in [Names -> Configs \cup {NoConfig}]
  /\ request \in [Clients -> Requests \cup {NoRequest}]
  /\ server \in {"checking", "loading", "starting", "serving", "stopped"}
  /\ tasks \in [Names -> {"none", "running", "done"}]
  /\ run \in [Clients -> {"none", "running", "looking", "script", "done", "error", "over"}]
  /\ answer \in [Clients -> {0, 200, 404, 422, 500}]

Init ==
  /\ file = First
  /\ goal = [f \in Files |-> NoConfig]
  /\ edits = 0
  /\ changed = [f \in Files |-> FALSE]
  /\ unseen = [f \in Files |-> FALSE]
  /\ stage = [f \in Files |-> "toRead"]
  /\ original = [f \in Files |-> NoConfig]
  /\ started = [f \in Files |-> 0]
  /\ read = [f \in Files |-> <<>>]
  /\ late = [f \in Files |-> 0]
  /\ overtaken = [f \in Files |-> FALSE]
  /\ detectors = [n \in Names |-> NoConfig]
  /\ server = "checking"
  /\ tasks = [n \in Names |-> "none"]
  /\ request = [c \in Clients |-> NoRequest]
  /\ run = [c \in Clients |-> "none"]
  /\ answer = [c \in Clients |-> 0]
  /\ calls = 0

Serving == server = "serving"

\* Node runs a callback: no script has its thread, and the process is there.
Free == server # "stopped" /\ \A c \in Clients : run[c] # "script"

-----------------------------------------------------------------------------
\* A change is reported only once the file is watched.
Notice(f) ==
  /\ changed' = [changed EXCEPT ![f] = @ \/ stage[f] = "watched"]
  /\ unseen' = [unseen EXCEPT ![f] = (stage[f] = "read")]

Truncate(f, x) ==
  /\ edits < MaxEdits
  /\ x \in Contents[f]
  /\ ~Writing(f)
  /\ file' = [file EXCEPT ![f] = Torn]
  /\ goal' = [goal EXCEPT ![f] = x]
  /\ edits' = edits + 1
  /\ Notice(f)
  /\ UNCHANGED <<loads, loader, http>>

\* The first piece of a long file may be a config already.
WritePart(f, missing) ==
  /\ edits < MaxEdits
  /\ Writing(f) /\ file[f] = Torn
  /\ edits' = edits + 1
  /\ file' = [file EXCEPT ![f] = [name |-> goal[f].name, hotkey |-> missing]]
  /\ Notice(f)
  /\ UNCHANGED <<goal, loads, loader, http>>

FinishWrite(f) ==
  /\ Writing(f)
  /\ file' = [file EXCEPT ![f] = goal[f]]
  /\ goal' = [goal EXCEPT ![f] = NoConfig]
  /\ Notice(f)
  /\ UNCHANGED <<edits, loads, loader, http>>

-----------------------------------------------------------------------------
\* isAdmin, by a command that only an administrator may run: then the process
\* ends at once.
StartupScripts(admin) ==
  /\ server = "checking"
  /\ server' = IF admin THEN "stopped" ELSE "loading"
  /\ UNCHANGED <<files, changed, unseen, stage, original, loads, detectors, tasks, http>>

\* loadDetectors, first part: a file is read, its config put in the map, and
\* then the file is watched.  An empty file has no name to read.
ReadFirst(f) ==
  /\ server = "loading"
  /\ stage[f] = "toRead"
  /\ IF file[f] = Torn
     THEN /\ stage' = [stage EXCEPT ![f] = "failed"]
          /\ UNCHANGED original
     ELSE /\ stage' = [stage EXCEPT ![f] = "read"]
          /\ original' = [original EXCEPT ![f] = file[f]]
  /\ UNCHANGED <<files, changed, unseen, loads, detectors, startup, http>>

WatchFile(f) ==
  /\ server = "loading"
  /\ stage[f] = "read"
  /\ stage' = [stage EXCEPT ![f] = "watched"]
  /\ detectors' = [detectors EXCEPT ![original[f].name] = original[f]]
  /\ UNCHANGED <<files, changed, unseen, original, loads, startup, http>>

\* A file that cannot be loaded ends the start.
LoadFails ==
  /\ server = "loading"
  /\ \E f \in Files : stage[f] = "failed"
  /\ server' = "stopped"
  /\ UNCHANGED <<files, changed, unseen, stage, original, loads, detectors, tasks, http>>

\* Slip: the tasks are started and not waited for.
StartTasksOnly ==
  /\ server = "loading"
  /\ \A f \in Files : stage[f] = "watched"
  /\ server' = "serving"
  /\ tasks' = [n \in Names |-> IF detectors[n] # NoConfig THEN "running" ELSE "none"]
  /\ UNCHANGED <<files, changed, unseen, stage, original, loads, detectors, http>>

\* Second part: the controller of each detector in the map runs its task.
StartTasks ==
  /\ server = "loading"
  /\ \A f \in Files : stage[f] = "watched"
  /\ server' = "starting"
  /\ tasks' = [n \in Names |-> IF detectors[n] # NoConfig THEN "running" ELSE "none"]
  /\ UNCHANGED <<files, changed, unseen, stage, original, loads, detectors, http>>

\* A client config or a controller that is missing, like a task that fails,
\* ends the start.
EndTask(n, ok) ==
  /\ server = "starting"
  /\ tasks[n] = "running"
  /\ IF ok THEN tasks' = [tasks EXCEPT ![n] = "done"] /\ UNCHANGED server
           ELSE server' = "stopped" /\ UNCHANGED tasks
  /\ UNCHANGED <<files, changed, unseen, stage, original, loads, detectors, http>>

\* loadExecutors, which may fail as well, and then the server listens.
Listen(ok) ==
  /\ server = "starting"
  /\ \A n \in Names : tasks[n] # "running"
  /\ server' = IF ok THEN "serving" ELSE "stopped"
  /\ UNCHANGED <<files, changed, unseen, stage, original, loads, detectors, tasks, http>>

\* Slip: the old config is taken out until the new one is there.
ReportRemoving(f) ==
  /\ Free
  /\ changed[f]
  /\ changed' = [changed EXCEPT ![f] = FALSE]
  /\ started' = [started EXCEPT ![f] = @ + 1]
  /\ detectors' = [detectors EXCEPT ![original[f].name] = NoConfig]
  /\ UNCHANGED <<files, unseen, stage, original, read, late, overtaken, startup, http>>

\* Slip: a change reported while a load runs is taken to be in that load.
ReportIdle(f) ==
  /\ Free
  /\ changed[f]
  /\ changed' = [changed EXCEPT ![f] = FALSE]
  /\ started' = [started EXCEPT ![f] = IF read[f] = <<>> THEN 1 ELSE @]
  /\ UNCHANGED <<files, unseen, loader, read, late, overtaken, http>>

\* The watcher's callback starts a load, whatever loads are under way.
ReportChange(f) ==
  /\ Free
  /\ changed[f]
  /\ changed' = [changed EXCEPT ![f] = FALSE]
  /\ started' = [started EXCEPT ![f] = @ + 1]
  /\ UNCHANGED <<files, unseen, loader, read, late, overtaken, http>>

ReadFile(f) ==
  /\ started[f] > 0
  /\ started' = [started EXCEPT ![f] = @ - 1]
  /\ read' = [read EXCEPT ![f] = Append(@, file[f])]
  /\ UNCHANGED <<files, changed, unseen, loader, late, overtaken, http>>

\* The i-th of the loads of a file is over. Its config is put in the map over one
\* that was read later, or is now the one that was read last.
EndLoad(f, i) ==
  /\ read' = [read EXCEPT ![f] = RemoveAt(@, i)]
  /\ late' = [late EXCEPT ![f] = IF i <= @ THEN @ - 1 ELSE IF read[f][i] = Torn THEN @ ELSE i - 1]
  /\ overtaken' = [overtaken EXCEPT ![f] = IF read[f][i] = Torn THEN @ ELSE i <= late[f]]
  /\ UNCHANGED started

\* Slip: the config goes under the name the file had at the start.
ReplaceOriginal(f, i) ==
  /\ Free
  /\ EndLoad(f, i)
  /\ detectors' = [detectors EXCEPT ![original[f].name] = read[f][i]]
  /\ UNCHANGED <<files, changed, unseen, stage, original, startup, http>>

\* The config goes in the map; under a new name, the name that is taken out is
\* the one the file had at the start.
Replace(f, i) ==
  LET x   == read[f][i]
      old == original[f].name
  IN /\ Free
     /\ x # Torn
     /\ EndLoad(f, i)
     /\ detectors' = [n \in Names |-> IF n = old /\ x.name # old THEN NoConfig
                                      ELSE IF n = x.name THEN x ELSE detectors[n]]
     /\ UNCHANGED <<files, changed, unseen, stage, original, startup, http>>

\* Slip: the error ends the watching of the file.
DropClosing(f, i) ==
  /\ Free
  /\ read[f][i] = Torn
  /\ EndLoad(f, i)
  /\ stage' = [stage EXCEPT ![f] = "failed"]
  /\ UNCHANGED <<files, changed, unseen, original, detectors, startup, http>>

\* There is no name to read: the error is logged and thrown again.
DropTorn(f, i) ==
  /\ Free
  /\ read[f][i] = Torn
  /\ EndLoad(f, i)
  /\ UNCHANGED <<files, changed, unseen, loader, http>>

-----------------------------------------------------------------------------
(* POST /api/post/trigger/:detector/:keyboard.  An event that is not given *)
(* is "down".                                                              *)

EventOf(r) == IF r.event = "" THEN "down" ELSE r.event

\* The checks of the route, in their order; 0 when there is something to run.
Refusal(r) ==
  LET x == detectors[r.detector] IN
  IF r.hotkey = "missing" \/ EventOf(r) \notin {"up", "down", "hold"} THEN 422
  ELSE IF x = NoConfig \/ x.hotkey \in {NoKeyboard, NoHotkey} THEN 404
  ELSE IF x.hotkey.multi /\ EventOf(r) \notin x.hotkey.events THEN 422
  ELSE 0

\* Slip: every run is taken to succeed once it is started.
TriggerHotkeyAtOnce(c, r) ==
  /\ Serving /\ Free
  /\ calls < MaxCalls
  /\ run[c] \in {"none", "over"}
  /\ calls' = calls + 1
  /\ request' = [request EXCEPT ![c] = r]
  /\ answer' = [answer EXCEPT ![c] = IF Refusal(r) # 0 THEN Refusal(r) ELSE 200]
  /\ run' = [run EXCEPT ![c] = IF Refusal(r) # 0 THEN "over" ELSE "running"]
  /\ UNCHANGED <<files, changed, unseen, loads, loader>>

\* The route answers at once, or calls the executor, which throws when it is
\* not one of those in the registry.
TriggerHotkey(c, r) ==
  /\ Serving /\ Free
  /\ calls < MaxCalls
  /\ run[c] \in {"none", "over"}
  /\ calls' = calls + 1
  /\ request' = [request EXCEPT ![c] = r]
  /\ \/ /\ Refusal(r) # 0
        /\ answer' = [answer EXCEPT ![c] = Refusal(r)]
        /\ run' = [run EXCEPT ![c] = "over"]
     \/ /\ Refusal(r) = 0
        /\ answer' = [answer EXCEPT ![c] = 0]
        /\ run' = [run EXCEPT ![c] =
             IF detectors[r.detector].hotkey.executor \in Executors THEN "running" ELSE "error"]
  /\ UNCHANGED <<files, changed, unseen, loads, loader>>

\* validateConfig: the file of the hotkey has to be there, and its function to
\* have a name that is one.
ValidateConfig(c, valid) ==
  /\ Free
  /\ run[c] = "running"
  /\ run' = [run EXCEPT ![c] = IF valid THEN "looking" ELSE "error"]
  /\ UNCHANGED <<files, changed, unseen, loads, loader, request, answer, calls>>

\* getExecutable finds the library, or throws.  run_ahk_text then loads it, and
\* has the thread until no script is running.
CallScript(c, found) ==
  /\ Free
  /\ run[c] = "looking"
  /\ run' = [run EXCEPT ![c] = IF found THEN "script" ELSE "error"]
  /\ UNCHANGED <<files, changed, unseen, loads, loader, request, answer, calls>>

\* A library that cannot be loaded or freed is an error.
EndScript(c, ok) ==
  /\ run[c] = "script"
  /\ run' = [run EXCEPT ![c] = IF ok THEN "done" ELSE "error"]
  /\ UNCHANGED <<files, changed, unseen, loads, loader, request, answer, calls>>

\* Slip: the error of the executor is not handed to express.
AnswerSuccess(c) ==
  /\ Free
  /\ run[c] = "done"
  /\ run' = [run EXCEPT ![c] = "over"]
  /\ answer' = [answer EXCEPT ![c] = 200]
  /\ UNCHANGED <<files, changed, unseen, loads, loader, request, calls>>

\* .catch(next).then(...): after an error the client has got a 500 from the
\* error handler, and the 200 that follows throws since the headers are sent.
Answer(c) ==
  /\ Free
  /\ run[c] \in {"done", "error"}
  /\ run' = [run EXCEPT ![c] = "over"]
  /\ answer' = [answer EXCEPT ![c] = IF run[c] = "error" THEN 500 ELSE 200]
  /\ UNCHANGED <<files, changed, unseen, loads, loader, request, calls>>

-----------------------------------------------------------------------------
User ==
  \E f \in Files : \/ \E x \in Contents[f] : Truncate(f, x)
                   \/ \E h \in {NoKeyboard, NoHotkey} : WritePart(f, h)
                   \/ FinishWrite(f)
Request == \E c \in Clients, r \in Requests : TriggerHotkey(c, r)
Executor(c) == \E ok \in BOOLEAN : ValidateConfig(c, ok) \/ CallScript(c, ok) \/ EndScript(c, ok)

Startup ==
  \/ \E ok \in BOOLEAN : StartupScripts(ok) \/ Listen(ok) \/ \E n \in Names : EndTask(n, ok)
  \/ LoadFails \/ StartTasks

Loading ==
  \E f \in Files :
    \/ ReadFirst(f) \/ WatchFile(f) \/ ReportChange(f) \/ ReadFile(f)
    \/ \E i \in 1 .. Len(read[f]) : Replace(f, i) \/ DropTorn(f, i)

Next ==
  \/ User
  \/ Startup \/ Loading
  \/ Request
  \/ \E c \in Clients : Executor(c) \/ Answer(c)

Spec == Init /\ [][Next]_vars

\* Node gets round to every callback, an edit that has begun is finished, and
\* tasks and scripts come to an end, one way or the other.
FairSpec ==
  /\ Spec
  /\ \A f \in Files : WF_vars(FinishWrite(f))
  /\ WF_vars(Startup) /\ WF_vars(Loading)
  /\ \A c \in Clients : WF_vars(Answer(c)) /\ WF_vars(Executor(c))

-----------------------------------------------------------------------------
\* No edit, report or load is under way.
Quiet == Serving /\ \A f \in Files : ~Writing(f) /\ ~changed[f] /\ started[f] = 0 /\ read[f] = <<>>

\* The config a detector has, by its file, is the one requests are served from.
Follows(f) == ~Writing(f) /\ detectors[file[f].name] = file[f]

\* "should reload detectors when a change is made" (test/loaders/
\* loadDetector.ts:42): when all is quiet a detector is served as its file says,
\* however many loads of it overlapped, and whatever part of an edit each of them
\* read. An edit is lost in two cases only. One made between the first read of the
\* file and its watch is, until the next (loadDetectors.ts:23-27); and the last load
\* to end, if it read the file before one that ended earlier, puts its older config
\* over that one's (loadDetectors.ts:29-31). Files keep their names here.
MapFollowsFiles == Quiet => \A f \in Files : unseen[f] \/ overtaken[f] \/ Follows(f)

\* The start ends, and every edit of a file that is watched gets to the map in
\* the end, but in those two cases.
EditsArrive ==
  <>[]\A f \in Files :
        \/ server = "stopped"
        \/ stage[f] = "watched" /\ (unseen[f] \/ overtaken[f] \/ Follows(f))

\* While files that keep their names are edited and reloaded, a request always
\* finds some version of its detector: nothing is answered "Detector Not Found".
ServedThroughout ==
  Serving => \A f \in Files : detectors[First[f].name] # NoConfig

\* No hotkey is served before the startup task of every detector in the map has
\* ended well, however reloads change the map meanwhile: the first config of
\* each file has had its task.
StartedBeforeServing == Serving => \A f \in Files : tasks[original[f].name] = "done"

\* A client is told "Run triggered" only when its hotkey has run to the end,
\* and one whose run fails is never told so.
AnswerTellsResult ==
  [][\A c \in Clients : answer[c] = 0 /\ answer'[c] = 200 => run[c] = "done"]_vars

\* A request is answered, provided its executor comes to an end.
RequestAnswered == \A c \in Clients : run[c] # "none" ~> answer[c] # 0

-----------------------------------------------------------------------------
(* What the comments and the tests say, and the code does not do.          *)

\* "adding new items when name changes are made and deleting old ones"
\* (test/loaders/loadDetector.ts:52): when all is quiet and every edit was
\* seen, no name is in the map that no file has.
OldNamesDeleted ==
  Quiet /\ (\A f \in Files : ~unseen[f]) =>
    \A n \in Names : detectors[n] # NoConfig => \E f \in Files : file[f].name = n
=============================================================================
