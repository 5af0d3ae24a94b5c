------------------------------ MODULE ConfigSync ------------------------------
(***************************************************************************)
(* The two copies of config.yml: the one of the legacy server              *)
(* (packages/@twokeys/legacy-server), and the one of the detector          *)
(* (detectors/detector-pi), which its commands fetch from the first and    *)
(* extend with the paths of the keyboards.                                 *)
(*                                                                         *)
(* Every writer empties the file before it fills it, and none takes a      *)
(* lock.  A terminal of the detector runs one command at a time.  Messages *)
(* get lost, commands and the server are killed between any two steps.     *)
(***************************************************************************)
EXTENDS Naturals

CONSTANTS
  Keyboards,   \* keyboards of the project
  Paths,       \* files of /dev/input/by-id
  Terminals,   \* where commands of the detector run
  Posts,       \* update-keyboard-path requests in service at a time
  NoTerminal,  \* nobody waits for the answer
  MaxCommands  \* bound on the commands given

ASSUME BoundsAssumption == MaxCommands \in Nat
ASSUME NamesAssumption == NoTerminal \notin Terminals
ASSUME KeyboardsAssumption == Keyboards # {}

\* "WAITING FROM DETECTOR"
NoPath == "WAITING"
ASSUME PathsAssumption == NoPath \notin Paths

VARIABLES
  server,    \* config.yml of the server
  detector,  \* config.yml of the detector
  initing,   \* is an init of the server between its two writes?
  term,      \* the command of each terminal
  post,      \* the requests in service
  commands,  \* number of commands given
  pressed,   \* history: keyboard -> the files whose key was pressed for it
  lost,      \* history: how the config of the detector may have got lost
  alone      \* history: the terminal whose add has had nothing beside it since
             \* it read the config, or NoTerminal

vars == <<server, detector, initing, term, post, commands, pressed, lost, alone>>

-----------------------------------------------------------------------------
\* A config as far as the paths of its keyboards are concerned.
Config == [Keyboards -> Paths \cup {NoPath}]

\* No file; a file just emptied, which YAML reads as null; a file two writers
\* mixed, which YAML refuses.
Missing == [file |-> "missing"]
Empty == [file |-> "empty"]
Garbled == [file |-> "garbled"]
File == Config \cup {Missing, Empty, Garbled}
ASSUME FilesAssumption == {Missing, Empty, Garbled} \cap Config = {}

Fresh == [k \in Keyboards |-> NoPath]
WithPath(x, k, f) == [x EXCEPT ![k] = f]

\* What is in a file after x is written at its start: a writer who comes
\* second may leave the end of what the first one wrote.
Written(old, x) == IF old \in {Empty, x} THEN {x} ELSE {x, Garbled}

Idle == [at |-> "idle"]
Stages == {"next", "waiting", "pressed", "read", "opened", "saved", "posted", "hung",
           "asking", "answered", "emptied", "daemons"}
ForKeyboard == {"waiting", "pressed", "read", "opened", "saved", "posted", "hung"}
Command == [at : Stages, op : {"add", "sync", "init"}, kb : Keyboards,
            path : Paths \cup {NoPath}, todo : SUBSET Keyboards, copy : Config \cup {Empty}]
NoPost == [at |-> "none"]
Post == [at : {"sent", "read", "emptied", "written"}, from : Terminals \cup {NoTerminal},
         kb : Keyboards, path : Paths \cup {NoPath}, copy : Config]

\* Fields not set yet hold anything of their type.
TypeOK ==
  /\ server \in File /\ detector \in File
  /\ initing \in BOOLEAN
  /\ term \in [Terminals -> Command \cup {Idle}]
  /\ post \in [Posts -> Post \cup {NoPost}]
  /\ commands \in Nat
  /\ pressed \in [Keyboards -> SUBSET Paths]
  /\ lost \in SUBSET {"killed", "null", "mixed"}
  /\ alone \in Terminals \cup {NoTerminal}

\* No project yet; a project the server knows; one the detector knows as well.
Init ==
  /\ server \in {Missing, Fresh}
  /\ detector \in {Missing, server}
  /\ initing = FALSE
  /\ term = [t \in Terminals |-> Idle]
  /\ post = [m \in Posts |-> NoPost]
  /\ commands = 0
  /\ pressed = [k \in Keyboards |-> {}]
  /\ lost = {}
  /\ alone = NoTerminal

Counted == commands < MaxCommands /\ commands' = commands + 1
Goto(t, stage) == term' = [term EXCEPT ![t].at = stage]
End(t) == term' = [term EXCEPT ![t] = Idle]

-----------------------------------------------------------------------------
(* The server: run_init.                                                   *)

\* createWriteStream creates the file, or with --force empties it, before the
\* first question; without --force an existing file ends the command.
OpenServer(force) ==
  /\ ~initing
  /\ server = Missing \/ force
  /\ Counted
  /\ initing' = TRUE
  /\ server' = Empty
  /\ alone' = NoTerminal
  /\ UNCHANGED <<detector, term, post, pressed, lost>>

\* The questions are answered and the config is written.
WriteServerConfig ==
  /\ initing
  /\ initing' = FALSE
  /\ server' \in Written(server, Fresh)
  /\ UNCHANGED <<detector, term, post, commands, pressed, lost, alone>>

\* The command is killed, or ends with an error, at one of its questions.
AbandonInit ==
  /\ initing
  /\ initing' = FALSE
  /\ UNCHANGED <<server, detector, term, post, commands, pressed, lost, alone>>

-----------------------------------------------------------------------------
(* Commands of the detector: sync and init fetch the config.               *)

CommandAt(stage, op, todo) == [at |-> stage, op |-> op, todo |-> todo, copy |-> Empty,
                               kb |-> CHOOSE k \in Keyboards : TRUE, path |-> NoPath]

\* add_keyboards starts a process for each keyboard, one after the other.
NextProcess(t) ==
  term' = [term EXCEPT ![t] = CommandAt("next", term[t].op, term[t].todo)]

Begin(t) == term[t] = Idle /\ Counted /\ alone' = NoTerminal

\* Slip: the file is opened for writing before the server is asked.
StartSyncOpening(t) ==
  /\ Begin(t)
  /\ detector \in Config
  /\ term' = [term EXCEPT ![t] = CommandAt("asking", "sync", {})]
  /\ detector' = Empty
  /\ UNCHANGED <<server, initing, post, pressed, lost>>

\* sync_config takes the address of the server from the config it has: with
\* none it fails.  init asks for the address.
StartSync(t) ==
  /\ Begin(t)
  /\ detector \in Config
  /\ term' = [term EXCEPT ![t] = CommandAt("asking", "sync", {})]
  /\ UNCHANGED <<server, detector, initing, post, pressed, lost>>

\* init asks for the address, and with --no-path-request for no keyboard.
StartInit(t, todo) ==
  /\ Begin(t)
  /\ term' = [term EXCEPT ![t] = CommandAt("asking", "init", todo)]
  /\ UNCHANGED <<server, detector, initing, post, pressed, lost>>

\* Slip: what is in the file is sent as it is.
GetConfigRaw(t) ==
  /\ term[t].at = "asking"
  /\ server # Missing
  /\ term' = [term EXCEPT ![t].at = "answered", ![t].copy = server]
  /\ UNCHANGED <<server, detector, initing, post, commands, pressed, lost, alone>>

\* GET /get/config: an empty file is sent as null, with status 200.
GetConfig(t) ==
  /\ term[t].at = "asking"
  /\ server \in Config \cup {Empty}
  /\ term' = [term EXCEPT ![t].at = "answered", ![t].copy = server]
  /\ UNCHANGED <<server, detector, initing, post, commands, pressed, lost, alone>>

\* No connection, or status 500 for a file that is missing.
Refused(t) ==
  /\ term[t].at = "asking"
  /\ End(t)
  /\ UNCHANGED <<server, detector, initing, post, commands, pressed, lost, alone>>

\* What YAML refuses throws in a callback nobody catches: the server ends,
\* with all it was doing, and is started again.
GetGarbled(t) ==
  /\ term[t].at = "asking"
  /\ server = Garbled
  /\ End(t)
  /\ post' = [m \in Posts |-> NoPost]
  /\ UNCHANGED <<server, detector, initing, commands, pressed, lost, alone>>

\* open(CONFIG_FILE, "w")
OpenFetched(t) ==
  /\ term[t].at = "answered"
  /\ detector' = Empty
  /\ Goto(t, "emptied")
  /\ UNCHANGED <<server, initing, post, commands, pressed, lost, alone>>

\* A config that is null is written all the same; init then fails on it.
WriteFetched(t) ==
  /\ term[t].at = "emptied"
  /\ detector' \in Written(detector, term[t].copy)
  /\ IF term[t].op = "sync" \/ term[t].copy = Empty THEN End(t) ELSE NextProcess(t)
  /\ lost' = lost \cup (IF term[t].copy = Empty THEN {"null"} ELSE {})
                  \cup (IF detector' = Garbled THEN {"mixed"} ELSE {})
  /\ UNCHANGED <<server, initing, post, commands, pressed, alone>>

-----------------------------------------------------------------------------
(* add, for one keyboard or for all of them: one process for each.         *)

\* Both read the config first, and fail without one.
StartAdd(t, k) ==
  /\ Begin(t)
  /\ detector \in Config
  /\ term' = [term EXCEPT ![t] = [CommandAt("waiting", "add", {}) EXCEPT !.kb = k]]
  /\ UNCHANGED <<server, detector, initing, post, pressed, lost>>

StartAddAll(t) ==
  /\ Begin(t)
  /\ detector \in Config
  /\ term' = [term EXCEPT ![t] = CommandAt("next", "add", Keyboards)]
  /\ UNCHANGED <<server, detector, initing, post, pressed, lost>>

\* A process that finds no config fails, and the next one is started.
NextKeyboard(t, k) ==
  /\ term[t].at = "next"
  /\ k \in term[t].todo
  /\ term' = [term EXCEPT ![t].at = IF detector \in Config THEN "waiting" ELSE "next",
                          ![t].kb = k, ![t].todo = @ \ {k}]
  /\ UNCHANGED <<server, detector, initing, post, commands, pressed, lost, alone>>

NoMoreKeyboards(t) ==
  /\ term[t].at = "next"
  /\ term[t].todo = {}
  /\ IF term[t].op = "init" THEN Goto(t, "daemons") ELSE End(t)
  /\ UNCHANGED <<server, detector, initing, post, commands, pressed, lost, alone>>

\* The first device with an event; it stops the others before anything else
\* can run.
Press(t, f) ==
  /\ term[t].at = "waiting"
  /\ term' = [term EXCEPT ![t].at = "pressed", ![t].path = f]
  /\ pressed' = [pressed EXCEPT ![term[t].kb] = @ \cup {f}]
  /\ UNCHANGED <<server, detector, initing, post, commands, lost, alone>>

\* An exception in the handler is not caught: the process goes on watching the
\* other devices.
Unreadable(t) ==
  /\ term[t].at \in {"pressed", "saved"}
  /\ detector \notin Config
  /\ Goto(t, "hung")
  /\ UNCHANGED <<server, detector, initing, post, commands, pressed, lost, alone>>

\* No other command runs, on either side, and no request is in service.
Quiet(t) == /\ \A u \in Terminals \ {t} : term[u] = Idle
            /\ \A m \in Posts : post[m] = NoPost
            /\ ~initing

\* Slip: the name of the keyboard is where the last command left it.
ReadConfigShared(t) ==
  /\ term[t].at = "pressed"
  /\ detector \in Config
  /\ \E u \in Terminals :
       /\ term[u] # Idle
       /\ term' = [term EXCEPT ![t].at = "read",
                     ![t].copy = WithPath(detector, term[u].kb, term[t].path)]
  /\ alone' = IF Quiet(t) THEN t ELSE NoTerminal
  /\ UNCHANGED <<server, detector, initing, post, commands, pressed, lost>>

ReadConfig(t) ==
  /\ term[t].at = "pressed"
  /\ detector \in Config
  /\ term' = [term EXCEPT ![t].at = "read",
                ![t].copy = WithPath(detector, term[t].kb, term[t].path)]
  /\ alone' = IF Quiet(t) THEN t ELSE NoTerminal
  /\ UNCHANGED <<server, detector, initing, post, commands, pressed, lost>>

OpenConfig(t) ==
  /\ term[t].at = "read"
  /\ detector' = Empty
  /\ Goto(t, "opened")
  /\ UNCHANGED <<server, initing, post, commands, pressed, lost, alone>>

WriteConfig(t) ==
  /\ term[t].at = "opened"
  /\ detector' \in Written(detector, term[t].copy)
  /\ lost' = IF detector' = Garbled THEN lost \cup {"mixed"} ELSE lost
  /\ Goto(t, "saved")
  /\ UNCHANGED <<server, initing, post, commands, pressed, alone>>

\* Slip: the server is told before the config is written.
PostUpdateFirst(t, m) ==
  /\ term[t].at \in {"read", "saved"}
  /\ detector \in Config
  /\ post[m] = NoPost
  /\ Goto(t, "posted")
  /\ post' = [post EXCEPT ![m] = [at |-> "sent", from |-> t, kb |-> term[t].kb,
                                  path |-> term[t].path, copy |-> Fresh]]
  /\ UNCHANGED <<server, detector, initing, commands, pressed, lost, alone>>

\* update_server_keyboard_path reads the file once more.
PostUpdate(t, m) ==
  /\ term[t].at = "saved"
  /\ detector \in Config
  /\ post[m] = NoPost
  /\ Goto(t, "posted")
  /\ post' = [post EXCEPT ![m] = [at |-> "sent", from |-> t, kb |-> term[t].kb,
                                  path |-> term[t].path, copy |-> Fresh]]
  /\ UNCHANGED <<server, detector, initing, commands, pressed, lost, alone>>

\* The process has told the server, or failed to, and kills itself.
AddEnds(t) == IF term[t].todo = {} /\ term[t].op = "add" THEN End(t) ELSE NextProcess(t)

\* It also ends when there is no other device, or each has had an event.
HungEnds(t) ==
  /\ term[t].at = "hung"
  /\ AddEnds(t)
  /\ UNCHANGED <<server, detector, initing, post, commands, pressed, lost, alone>>

Detached(t) == [m \in Posts |-> IF post[m] # NoPost /\ post[m].from = t
                                THEN [post[m] EXCEPT !.from = NoTerminal] ELSE post[m]]

\* After five seconds without an answer: the request may still be served.
Timeout(t) ==
  /\ term[t].at = "posted"
  /\ AddEnds(t)
  /\ post' = Detached(t)
  /\ UNCHANGED <<server, detector, initing, commands, pressed, lost, alone>>

\* No connection.
PostFails(t) ==
  /\ term[t].at = "saved"
  /\ detector \in Config
  /\ AddEnds(t)
  /\ UNCHANGED <<server, detector, initing, post, commands, pressed, lost, alone>>

\* generate_daemon writes the unit files and register.sh; the config stays.
GenerateDaemon(t) ==
  /\ term[t].at = "daemons"
  /\ End(t)
  /\ UNCHANGED <<server, detector, initing, post, commands, pressed, lost, alone>>

-----------------------------------------------------------------------------
(* POST /post/update-keyboard-path                                         *)

\* A config that cannot be loaded, or is null, is an exception nobody handles:
\* the request is never answered.
LoadConfig(m) ==
  /\ post[m].at = "sent"
  /\ post' = [post EXCEPT ![m] =
       IF server \in Config
       THEN [@ EXCEPT !.at = "read", !.copy = WithPath(server, post[m].kb, post[m].path)] ELSE NoPost]
  /\ UNCHANGED <<server, detector, initing, term, commands, pressed, lost, alone>>

\* writeFile empties the file and then writes it.
EmptyConfig(m) ==
  /\ post[m].at = "read"
  /\ server' = Empty
  /\ post' = [post EXCEPT ![m].at = "emptied"]
  /\ UNCHANGED <<detector, initing, term, commands, pressed, lost, alone>>

FillConfig(m) ==
  /\ post[m].at = "emptied"
  /\ server' \in Written(server, post[m].copy)
  /\ post' = [post EXCEPT ![m].at = "written"]
  /\ UNCHANGED <<detector, initing, term, commands, pressed, lost, alone>>

AnswerOK(m) ==
  /\ post[m].at = "written"
  /\ IF post[m].from = NoTerminal THEN UNCHANGED term ELSE AddEnds(post[m].from)
  /\ post' = [post EXCEPT ![m] = NoPost]
  /\ UNCHANGED <<server, detector, initing, commands, pressed, lost, alone>>

-----------------------------------------------------------------------------
(* The network and the users.                                              *)

\* The request, or its answer, is lost.
Lose(m) ==
  /\ post[m].at \in {"sent", "written"}
  /\ post' = [post EXCEPT ![m] = NoPost]
  /\ UNCHANGED <<server, detector, initing, term, commands, pressed, lost, alone>>

\* A command is ended with all its processes; or ^C ends the process of one
\* keyboard, and add_keyboards goes on to the next.
KillCommand(t) ==
  /\ term[t] # Idle
  /\ End(t) \/ (term[t].at \in ForKeyboard /\ AddEnds(t))
  /\ post' = Detached(t)
  /\ lost' = IF term[t].at \in {"opened", "emptied"} THEN lost \cup {"killed"} ELSE lost
  /\ UNCHANGED <<server, detector, initing, commands, pressed, alone>>

KillServer ==
  /\ \E m \in Posts : post[m] # NoPost
  /\ post' = [m \in Posts |-> NoPost]
  /\ UNCHANGED <<server, detector, initing, term, commands, pressed, lost, alone>>

-----------------------------------------------------------------------------
Serve(m) == LoadConfig(m) \/ EmptyConfig(m) \/ FillConfig(m) \/ AnswerOK(m)

\* What a command does by itself once its key is pressed.
Continue(t) == \/ Unreadable(t) \/ ReadConfig(t) \/ OpenConfig(t) \/ WriteConfig(t)
               \/ PostFails(t) \/ HungEnds(t) \/ \E m \in Posts : PostUpdate(t, m)

Fetch(t) == StartSync(t) \/ GetConfig(t) \/ Refused(t) \/ GetGarbled(t)
            \/ OpenFetched(t) \/ WriteFetched(t)

Next ==
  \/ \E force \in BOOLEAN : OpenServer(force)
  \/ WriteServerConfig \/ AbandonInit
  \/ \E t \in Terminals :
       \/ \E K \in {{}, Keyboards} : StartInit(t, K)
       \/ \E k \in Keyboards : StartAdd(t, k) \/ NextKeyboard(t, k)
       \/ \E f \in Paths : Press(t, f)
       \/ StartAddAll(t) \/ NoMoreKeyboards(t) \/ GenerateDaemon(t)
       \/ Fetch(t) \/ Continue(t) \/ Timeout(t) \/ KillCommand(t)
  \/ \E m \in Posts : Serve(m) \/ Lose(m)
  \/ KillServer

Spec == Init /\ [][Next]_vars

-----------------------------------------------------------------------------
\* Every path either side has for a keyboard, or is about to write, is one the
\* user pressed a key of for this keyboard, and no other, however commands and
\* requests overlap (add_keyboard is one process, and the route one request, for
\* each keyboard).
Paired(x) == x \in Config => \A k \in Keyboards : x[k] \in pressed[k] \cup {NoPath}
PathsArePressed == Paired(server) /\ Paired(detector)

\* When the server answers an add beside which nothing else has gone on since it
\* read the config, both copies of the config have its path: the handler writes
\* the config (async_handler.py:57) before it tells the server (63), and the
\* server answers after its write (api.ts:124).  It is so whatever commands and
\* requests before it were killed, lost or left half-done.
AddedOnBothSides ==
  [][\A t \in Terminals, m \in Posts :
       AnswerOK(m) /\ post[m].from = t /\ alone = t =>
         \A x \in {server, detector} :
           x \in Config /\ x[term[t].kb] = term[t].path]_vars

\* The detector loses its config only when a command is killed between its two
\* writes, when the server sends null, or when two commands write at once: never
\* because a request was refused.
ConfigKept ==
  /\ detector = Empty => \/ lost # {}
                         \/ \E t \in Terminals : term[t].at \in {"opened", "emptied"}
  /\ detector = Garbled => "mixed" \in lost
=============================================================================
