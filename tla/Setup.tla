------------------------------- MODULE Setup -------------------------------
(***************************************************************************)
(* Setting 2Keys up on a PC: the out-of-box setup (oobe), with the prompts *)
(* and the static IPv4 address it goes through, and the creation of        *)
(* clients, which relies on what the setup made.  Both share the main      *)
(* config and the registry of add-ons, and either may be killed anywhere.  *)
(*                                                                         *)
(* There is one setup and one creation of a client at a time.  The         *)
(* registry is abstracted to its tables and to the add-ons they list: its  *)
(* calls are those of AddOnsRegistry and SoftwareRegistry.                 *)
(***************************************************************************)
EXTENDS Naturals, Sequences, Functions

CONSTANTS
  Lists,    \* the lists of add-ons a setup may be given: addonInstallList
  Valid,    \* those that are add-ons, and not just npm packages
  Clients,  \* clients and their controllers
  MaxCalls  \* bound on the number of commands

\* No list is the same as an empty one (oobe.ts:126).
ASSUME ListsAssumption == Lists \subseteq Seq(STRING) /\ Lists # {}
AddOns == UNION {Range(list) : list \in Lists}
ASSUME ValidAssumption == Valid \subseteq AddOns
ASSUME ClientsAssumption == \A c \in Clients : c.controller \in STRING
ASSUME BoundAssumption == MaxCalls \in Nat

VARIABLES
  main,    \* the main config; "done" once it says that oobe was run
  db,      \* the directory and the SQLite file of the registry
  tables,  \* the tables in that file
  listed,  \* the add-ons in the table of packages
  client,  \* the config of each client
  adapter, \* the IPv4 address of the network adapter
  asked,   \* has netsh been asked for the static one?
  at,      \* where each command stands
  run,     \* options and local variables of the setup
  who,     \* the client that is created
  did,     \* history: the list of the setup that opened the main config, and
           \* what it has done since
  calls    \* number of commands given

vars == <<main, db, tables, listed, client, adapter, asked, at, run, who, did, calls>>
registry == <<db, tables, listed>>
network == <<adapter, asked>>

-----------------------------------------------------------------------------
Commands == {"oobe", "client"}
Tables == {"packages", "software", "executables"}
Addresses == {"no adapter", "none", "dynamic", "static"}

Stages == {"idle", "load", "ask", "openMain", "fillMain", "validate", "enter", "netsh",
           "check", "registry", "checkDB", "openDB", "packages", "access", "software",
           "executables", "npm", "query", "add", "script", "openDone", "fillDone",
           "initDB", "loadDetector", "generate", "fillClient", "setup"}

\* Questions of a prompt, and a pause that waits for Enter.
Waiting == {"ask", "enter"}

Run == [force : BOOLEAN, setIP : BOOLEAN, interactive : BOOLEAN,
        silent : BOOLEAN,                 \* isSilent of the logger
        original : BOOLEAN,               \* originalSilenceState of the prompt
        list : Lists,                     \* add-ons to install
        next : Nat \ {0},                 \* the place in it of the next one
        ticks : 0 .. 4]                   \* of the interval of checkIP

\* SQLite has tables in a file, and rows in a table.
TypeOK ==
  /\ main \in {"none", "empty", "begun", "done"}
  /\ db \in {"no directory", "absent", "there"}
  /\ tables \subseteq Tables
  /\ listed \subseteq AddOns
  /\ client \in [Clients -> {"none", "empty", "written", "set up"}]
  /\ adapter \in Addresses /\ asked \in BOOLEAN
  /\ at \in [Commands -> Stages]
  /\ run \in Run /\ run.next <= Len(run.list) + 1
  /\ who \in Clients
  /\ did \in [given : Lists, done : SUBSET ({"address"} \cup AddOns)]
  /\ calls \in Nat
  /\ tables # {} => db = "there"
  /\ listed # {} => "packages" \in tables

Init ==
  /\ main = "none"
  /\ db = "no directory" /\ tables = {} /\ listed = {}
  /\ client = [c \in Clients |-> "none"]
  /\ adapter \in Addresses \ {"static"} /\ asked = FALSE
  /\ at = [k \in Commands |-> "idle"]
  /\ \E list \in Lists :
       /\ run = [force |-> FALSE, setIP |-> FALSE, interactive |-> TRUE, silent |-> FALSE,
                 original |-> FALSE, list |-> list, next |-> 1, ticks |-> 0]
       /\ did = [given |-> list, done |-> {}]
  /\ who \in Clients
  /\ calls = 0

Counted == calls < MaxCalls /\ calls' = calls + 1
Goto(k, stage) == at' = [at EXCEPT ![k] = stage]
End(k) == Goto(k, "idle")

Did(what) == [did EXCEPT !.done = @ \cup {what}]

\* The promise of the command is rejected, and its caller reports the error.
Fail(k) == End(k)

-----------------------------------------------------------------------------
(* The main config and the prompts.                                        *)

StartOobe(accepted, force, setIP, interactive, silent, list) ==
  /\ at["oobe"] = "idle"
  /\ Counted
  /\ IF accepted THEN Goto("oobe", "load") ELSE Fail("oobe")
  /\ run' = [force |-> force, setIP |-> setIP, interactive |-> interactive,
             silent |-> silent, original |-> silent, list |-> list, next |-> 1, ticks |-> 0]
  /\ UNCHANGED <<main, registry, client, network, who, did>>

\* What a prompt does before its answer.
Prompting == [run EXCEPT !.original = run.silent, !.silent = FALSE]

\* A config that was truncated cannot be used, and is never replaced. The prompt
\* that says that oobe has been run is not awaited.
LoadMainConfig ==
  /\ at["oobe"] = "load"
  /\ \/ main = "none" /\ Goto("oobe", "openMain") /\ UNCHANGED run
     \/ main = "empty" /\ Fail("oobe") /\ UNCHANGED run
     \/ main = "done" /\ ~run.force /\ End("oobe") /\ run' = Prompting
     \/ /\ main = "begun" \/ (main = "done" /\ run.force)
        /\ Goto("oobe", "ask")
        /\ run' = Prompting
  /\ UNCHANGED <<main, registry, client, network, who, did, calls>>

Restored == [run EXCEPT !.silent = run.original]

\* The answer: a button, or nothing, which is the default one and leaves the
\* logger as it is; any other answer is a new prompt.
AnswerPrompt(answer) ==
  /\ at["oobe"] = "ask"
  /\ IF ~run.interactive THEN Goto("oobe", "openMain") /\ run' = Restored
     ELSE \/ answer = "y" /\ Goto("oobe", "openMain") /\ run' = Restored
          \/ answer = "n" /\ Fail("oobe") /\ run' = Restored
          \/ answer = "" /\ Goto("oobe", "openMain") /\ UNCHANGED run
          \/ answer = "other" /\ run' = Prompting /\ UNCHANGED at
  /\ UNCHANGED <<main, registry, client, network, who, did, calls>>

\* Opening a file to write it empties it.
OpenMain ==
  /\ at["oobe"] = "openMain"
  /\ main' = "empty"
  /\ did' = [given |-> run.list, done |-> {}]
  /\ Goto("oobe", "fillMain")
  /\ UNCHANGED <<registry, client, network, run, who, calls>>

FillMain ==
  /\ at["oobe"] = "fillMain"
  /\ main' = "begun"
  /\ Goto("oobe", IF run.setIP THEN "validate" ELSE "registry")
  /\ did' = IF run.setIP THEN did ELSE Did("address")
  /\ UNCHANGED <<registry, client, network, run, who, calls>>

-----------------------------------------------------------------------------
(* setStaticIPv4Address and checkIP.                                       *)

\* A name or an address that is not well formed, several addresses, or none.
ValidateAddress(refused) ==
  /\ at["oobe"] = "validate"
  /\ IF refused \/ adapter \in {"no adapter", "none"} THEN Fail("oobe")
     ELSE Goto("oobe", IF run.silent \/ ~run.interactive THEN "netsh" ELSE "enter")
  /\ UNCHANGED <<main, registry, client, network, run, who, did, calls>>

PressEnter ==
  /\ at["oobe"] = "enter"
  /\ Goto("oobe", "netsh")
  /\ UNCHANGED <<main, registry, client, network, run, who, did, calls>>

\* The command may fail; else netsh starts, and waits for the consent of the user.
Netsh(fails) ==
  /\ at["oobe"] = "netsh"
  /\ IF fails THEN Fail("oobe") /\ UNCHANGED asked
     ELSE Goto("oobe", "check") /\ asked' = TRUE
  /\ UNCHANGED <<main, registry, client, adapter, run, who, did, calls>>

\* Slip: the interval ends, whatever the address.
TickLast ==
  /\ at["oobe"] = "check"
  /\ run.ticks < 4
  /\ IF adapter \in {"no adapter", "none"}
     THEN Fail("oobe") /\ UNCHANGED <<run, did>>
     ELSE Goto("oobe", "registry") /\ run' = [run EXCEPT !.ticks = 0] /\ UNCHANGED did
  /\ UNCHANGED <<main, registry, client, network, who, calls>>

\* Every 1.5 s. Without an adapter the promise is rejected, and the interval goes
\* on until the timeout, for nobody; without an address the callback throws, and
\* the process ends.
Tick ==
  /\ at["oobe"] = "check"
  /\ run.ticks < 4
  /\ CASE adapter \in {"no adapter", "none"} -> Fail("oobe") /\ UNCHANGED <<run, did>>
       [] adapter = "dynamic" ->
            run' = [run EXCEPT !.ticks = @ + 1] /\ UNCHANGED <<at, did>>
       [] adapter = "static" ->
            /\ Goto("oobe", "registry")
            /\ did' = Did("address")
            /\ run' = [run EXCEPT !.ticks = 0]
  /\ UNCHANGED <<main, registry, client, network, who, calls>>

\* Slip: the interval is cleared, and the promise is not rejected.
TimeoutClearing ==
  /\ at["oobe"] = "check"
  /\ run.ticks \in 1 .. 4
  /\ run' = [run EXCEPT !.ticks = 4]
  /\ UNCHANGED <<main, registry, client, network, at, who, did, calls>>

\* After 7 s, which is after four rounds of the interval, or fewer when the
\* process was late.
Timeout ==
  /\ at["oobe"] = "check"
  /\ run.ticks \in 1 .. 4
  /\ Fail("oobe")
  /\ UNCHANGED <<main, registry, client, network, run, who, did, calls>>

\* The user and Windows change the adapter, and so does netsh.
ChangeAdapter(address) ==
  /\ address # adapter
  /\ address = "static" => asked
  /\ adapter' = address
  /\ UNCHANGED <<main, registry, client, asked, at, run, who, did, calls>>

-----------------------------------------------------------------------------
(* createNewRegistry and createSoftwareRegistry.                           *)

\* mkdirp, and the default package.json.
MakeDirectory ==
  /\ at["oobe"] = "registry"
  /\ db' = IF db = "no directory" THEN "absent" ELSE db
  /\ Goto("oobe", "checkDB")
  /\ UNCHANGED <<main, tables, listed, client, network, run, who, did, calls>>

\* The refusal of a file that is there is not looked at.
CheckDB ==
  /\ at["oobe"] = "checkDB"
  /\ Goto("oobe", IF db = "there" THEN "access" ELSE "openDB")
  /\ UNCHANGED <<main, registry, client, network, run, who, did, calls>>

OpenDB ==
  /\ at["oobe"] = "openDB"
  /\ db' = "there"
  /\ Goto("oobe", "packages")
  /\ UNCHANGED <<main, tables, listed, client, network, run, who, did, calls>>

CreateTable(table, next) ==
  /\ at["oobe"] = table
  /\ tables' = tables \cup {table}
  /\ Goto("oobe", next)
  /\ UNCHANGED <<main, db, listed, client, network, run, who, did, calls>>

\* To the first add-on, if there is one.
FirstOr(stage) == IF run.list = <<>> THEN stage ELSE "npm"

\* createSoftwareRegistry wants the file.
AccessDB ==
  /\ at["oobe"] = "access"
  /\ IF db = "there" THEN Goto("oobe", "software") ELSE Fail("oobe")
  /\ UNCHANGED <<main, registry, client, network, run, who, did, calls>>

-----------------------------------------------------------------------------
(* The add-ons, by AddOnsRegistry.install.                                 *)

AddOn == run.list[run.next]

\* To the next add-on, if there is one.
Installed ==
  /\ run' = [run EXCEPT !.next = @ + 1]
  /\ did' = Did(AddOn)
  /\ Goto("oobe", IF run.next < Len(run.list) THEN "npm" ELSE "openDone")

Npm(fails) ==
  /\ at["oobe"] = "npm"
  /\ IF fails THEN Fail("oobe") ELSE Goto("oobe", "query")
  /\ UNCHANGED <<main, registry, client, network, run, who, did, calls>>

\* Slip: the error of a query is taken for a result without rows.
QueryForgiving ==
  /\ at["oobe"] = "query"
  /\ IF AddOn \in listed THEN Installed ELSE Goto("oobe", "add") /\ UNCHANGED <<run, did>>
  /\ UNCHANGED <<main, registry, client, network, who, calls>>

\* An add-on that is listed is refused, which is not looked at.
QueryRegistry ==
  /\ at["oobe"] = "query"
  /\ IF "packages" \notin tables THEN Fail("oobe") /\ UNCHANGED <<run, did>>
     ELSE IF AddOn \in listed THEN Installed
     ELSE Goto("oobe", "add") /\ UNCHANGED <<run, did>>
  /\ UNCHANGED <<main, registry, client, network, who, calls>>

\* Neither is the refusal of a package that is no add-on.
AddPackage ==
  /\ at["oobe"] = "add"
  /\ IF AddOn \in Valid
     THEN listed' = listed \cup {AddOn} /\ Goto("oobe", "script") /\ UNCHANGED <<run, did>>
     ELSE Installed /\ UNCHANGED listed
  /\ UNCHANGED <<main, db, tables, client, network, who, calls>>

\* The install function of the add-on.
RunScript(fails) ==
  /\ at["oobe"] = "script"
  /\ IF fails THEN Fail("oobe") /\ UNCHANGED <<run, did>> ELSE Installed
  /\ UNCHANGED <<main, registry, client, network, who, calls>>

OpenDone ==
  /\ at["oobe"] = "openDone"
  /\ main' = "empty"
  /\ Goto("oobe", "fillDone")
  /\ UNCHANGED <<registry, client, network, run, who, did, calls>>

FillDone ==
  /\ at["oobe"] = "fillDone"
  /\ main' = "done"
  /\ End("oobe")
  /\ UNCHANGED <<registry, client, network, run, who, did, calls>>

-----------------------------------------------------------------------------
(* newDetector: a new client.                                              *)

\* loadConfig: a file that is empty has no properties.
Readable == main \in {"begun", "done"}

\* Without a main config, or with an empty one, there is no root of the registry.
StartClient(c) ==
  /\ at["client"] = "idle"
  /\ Counted
  /\ who' = c
  /\ IF Readable THEN Goto("client", "initDB") ELSE Fail("client")
  /\ UNCHANGED <<main, registry, client, network, run, did>>

\* Opening the database makes the file, in a directory that is there.
InitDB ==
  /\ at["client"] = "initDB"
  /\ IF db = "no directory" THEN Fail("client") /\ UNCHANGED db
     ELSE Goto("client", "loadDetector") /\ db' = "there"
  /\ UNCHANGED <<main, tables, listed, client, network, run, who, did, calls>>

\* Slip: the controller is looked for when the client is set up.
LoadDetectorLater(fails) ==
  /\ at["client"] = "loadDetector"
  /\ IF fails THEN Fail("client") ELSE Goto("client", "generate")
  /\ UNCHANGED <<main, registry, client, network, run, who, did, calls>>

\* The table may be missing, or the controller in it; its code may not load.
LoadDetector(fails) ==
  /\ at["client"] = "loadDetector"
  /\ IF fails \/ who.controller \notin listed THEN Fail("client")
     ELSE Goto("client", "generate")
  /\ UNCHANGED <<main, registry, client, network, run, who, did, calls>>

\* The controller makes its part of the config, and the file is opened, if
\* there is a directory for it.
GenerateConfig(fails) ==
  /\ at["client"] = "generate"
  /\ IF fails THEN Fail("client") /\ UNCHANGED client
     ELSE Goto("client", "fillClient") /\ client' = [client EXCEPT ![who] = "empty"]
  /\ UNCHANGED <<main, registry, network, run, who, did, calls>>

FillClient ==
  /\ at["client"] = "fillClient"
  /\ client' = [client EXCEPT ![who] = "written"]
  /\ Goto("client", "setup")
  /\ UNCHANGED <<main, registry, network, run, who, did, calls>>

\* The controller reads the config and sets the client up.
SetupClient(fails) ==
  /\ at["client"] = "setup"
  /\ client' = [client EXCEPT ![who] = IF fails THEN @ ELSE "set up"]
  /\ End("client")
  /\ UNCHANGED <<main, registry, network, run, who, did, calls>>

\* The user ends a command, or the PC.
Kill(k) ==
  /\ at[k] # "idle"
  /\ End(k)
  /\ UNCHANGED <<main, registry, client, network, run, who, did, calls>>

-----------------------------------------------------------------------------
CreateTables == \/ CreateTable("packages", "access") \/ CreateTable("software", "executables")
                \/ CreateTable("executables", FirstOr("openDone"))

\* What a command does by itself.
Oobe ==
  \/ LoadMainConfig \/ OpenMain \/ FillMain
  \/ (~run.interactive /\ AnswerPrompt("")) \/ Tick \/ Timeout
  \/ MakeDirectory \/ CheckDB \/ OpenDB \/ CreateTables \/ AccessDB
  \/ QueryRegistry \/ AddPackage \/ OpenDone \/ FillDone
  \/ \E bad \in BOOLEAN : ValidateAddress(bad) \/ Netsh(bad) \/ Npm(bad) \/ RunScript(bad)

Client ==
  \/ InitDB \/ FillClient
  \/ \E fails \in BOOLEAN : LoadDetector(fails) \/ GenerateConfig(fails) \/ SetupClient(fails)

User ==
  \/ \E accepted, force, setIP, interactive, silent \in BOOLEAN, list \in Lists :
       StartOobe(accepted, force, setIP, interactive, silent, list)
  \/ \E c \in Clients : StartClient(c)
  \/ \E answer \in {"y", "n", "", "other"} : AnswerPrompt(answer)
  \/ PressEnter
  \/ \E k \in Commands : Kill(k)

Next == Oobe \/ Client \/ User \/ \E address \in Addresses : ChangeAdapter(address)

Spec == Init /\ [][Next]_vars

\* Node runs its callbacks and timers, and npm, SQLite and the add-ons end.
FairSpec == Spec /\ WF_vars(Oobe) /\ WF_vars(Client)

-----------------------------------------------------------------------------
\* A main config that says that oobe was run comes after all of it, although
\* refusals of the registry are not looked at, setups are killed and run again, and
\* clients open its file meanwhile: the address was set, or was not to be; every
\* add-on of the list has been through its installation; the tables of software are
\* there, and that of packages if there was an add-on to install, whose query needs
\* it (oobe.ts:113-133). With an empty list nothing looks at the table of packages,
\* and it may be missing.
DoneMeansUsable ==
  main = "done" =>
    /\ {"address"} \cup Range(did.given) \subseteq did.done
    /\ {"software", "executables"} \subseteq tables
    /\ did.given # <<>> => "packages" \in tables

\* There is no config of a client, not even an empty one, whose controller the
\* registry does not list.
ClientsHaveControllers == \A c \in Clients : client[c] # "none" => c.controller \in listed

\* No command hangs, whatever becomes of the adapter, but for an answer of its user.
CommandsEnd ==
  \A k \in Commands : []<>(at[k] \in {"idle"} \cup Waiting)
=============================================================================
