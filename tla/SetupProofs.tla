----------------------------- MODULE SetupProofs -----------------------------
(***************************************************************************)
(* Theorems on Setup, for any lists of add-ons to install, the empty one   *)
(* included, any clients and any number of commands.                       *)
(***************************************************************************)
EXTENDS Setup, TLAPS

\* The stages of the setup, by what it is busy with.
Asking == {"load", "ask", "openMain"}
Addressing == {"fillMain", "validate", "enter", "netsh", "check"}
Making == {"registry", "checkDB", "openDB", "packages", "access", "software", "executables"}
Adding == {"npm", "query", "add", "script"}
Ending == {"openDone", "fillDone"}

\* What the setup knows of the registry and of its list at each stage.
Progress ==
  /\ at["oobe"] \in Asking \cup Addressing \cup Making => run.next = 1
  /\ at["oobe"] \in Adding => run.next <= Len(run.list)
  /\ at["oobe"] \in {"packages", "software", "executables"} => db = "there"
  /\ at["oobe"] \in {"add", "script"} => "packages" \in tables
  /\ at["oobe"] \in Ending /\ run.list # <<>> => "packages" \in tables
  /\ at["oobe"] \in {"npm", "query"} /\ run.next # 1 => "packages" \in tables
  /\ at["oobe"] \in {"executables"} \cup Adding \cup Ending => "software" \in tables
  /\ at["oobe"] \in Adding \cup Ending => "executables" \in tables

Steady == TypeOK /\ Progress

Notes == [given : Lists, done : SUBSET ({"address"} \cup AddOns)]

\* The list of a setup, and the place in it.
LEMMA RunList ==
  ASSUME run \in Run
  PROVE  /\ run.list \in Lists /\ run.list \in Seq(STRING) /\ Range(run.list) \subseteq AddOns
         /\ Len(run.list) \in Nat /\ DOMAIN run.list = 1 .. Len(run.list)
         /\ run.next \in Nat \ {0}
  <1>1. run.list \in Lists /\ run.next \in Nat \ {0}
    BY DEF Run
  <1>2. run.list \in Seq(STRING)
    BY <1>1, ListsAssumption
  <1>3. Range(run.list) \subseteq AddOns
    BY <1>1 DEF AddOns
  <1>4. QED
    BY <1>1, <1>2, <1>3

LEMMA AddOnListed ==
  ASSUME Steady, at["oobe"] \in Adding
  PROVE  AddOn \in Range(run.list) /\ AddOn \in AddOns /\ run.next \in 1 .. Len(run.list)
  <1>1. run \in Run /\ run.next <= Len(run.list)
    BY DEF Steady, TypeOK, Progress
  <1>2. run.next \in 1 .. Len(run.list)
    BY <1>1, RunList
  <1>3. AddOn \in Range(run.list)
    BY <1>1, <1>2, RunList DEF AddOn, Range
  <1>4. QED
    BY <1>1, <1>2, <1>3, RunList

LEMMA GotoStage ==
  ASSUME at \in [Commands -> Stages], NEW k \in Commands, NEW s \in Stages, Goto(k, s)
  PROVE  /\ at' \in [Commands -> Stages] /\ at'[k] = s
         /\ \A j \in Commands \ {k} : at'[j] = at[j]
  BY DEF Goto

\* A step that moves one command and leaves run alone.
LEMMA MovedType ==
  ASSUME TypeOK, NEW k \in Commands, NEW s \in Stages, Goto(k, s),
         UNCHANGED <<network, run, did>>,
         main' \in {"none", "empty", "begun", "done"}, calls' \in Nat, who' \in Clients,
         client' \in [Clients -> {"none", "empty", "written", "set up"}],
         db' \in {"no directory", "absent", "there"}, tables' \subseteq Tables,
         listed' \subseteq AddOns,
         tables' # {} => db' = "there", listed' # {} => "packages" \in tables'
  PROVE  TypeOK' /\ at'[k] = s /\ \A j \in Commands \ {k} : at'[j] = at[j]
  BY GotoStage DEF TypeOK, network

\* A step of the client, or of the world, does not concern the setup.
LEMMA ProgressFrame ==
  ASSUME Progress, at'["oobe"] \in {at["oobe"], "idle"}, UNCHANGED <<run, tables>>,
         db = "there" => db' = "there"
  PROVE  Progress'
  BY DEF Progress, Asking, Addressing, Making, Adding, Ending

LEMMA InstalledKept ==
  ASSUME Steady, at["oobe"] \in {"query", "add", "script"}, "packages" \in tables, Installed,
         UNCHANGED <<db, tables>>
  PROVE  /\ Progress' /\ at' \in [Commands -> Stages] /\ did' \in Notes
         /\ run' \in Run /\ run'.list = run.list /\ run'.next = run.next + 1
         /\ run'.next <= Len(run'.list) + 1
  <1>1. AddOn \in AddOns /\ run.next \in 1 .. Len(run.list)
    BY AddOnListed DEF Adding
  <1>a. run \in Run
    BY DEF Steady, TypeOK
  <1> DEFINE n == Len(run.list)
  <1>b. n \in Nat
    BY <1>a, RunList
  <1>2. run' \in Run /\ run'.list = run.list /\ run'.next = run.next + 1
    <2>1. run.next + 1 \in Nat \ {0}
      BY <1>1, <1>b
    <2>2. run' = [run EXCEPT !.next = run.next + 1]
      BY DEF Installed
    <2>3. QED
      BY <1>a, <2>1, <2>2 DEF Run
  <1>3. at' \in [Commands -> Stages]
        /\ at'["oobe"] = IF run.next < n THEN "npm" ELSE "openDone"
    BY DEF Steady, TypeOK, Installed, Goto, Commands, Stages
  <1>4. Progress'
    <2>1. "software" \in tables /\ "executables" \in tables
      BY DEF Steady, Progress, Adding
    <2>2. CASE run.next < n
      <3>1. run'.next <= Len(run'.list)
        BY <1>1, <1>2, <1>b, <2>2
      <3>2. at'["oobe"] = "npm"
        BY <1>3, <2>2
      <3>3. QED
        BY <2>1, <3>1, <3>2 DEF Progress, Asking, Addressing, Making, Adding, Ending
    <2>3. CASE ~(run.next < n)
      <3>1. at'["oobe"] = "openDone"
        BY <1>3, <2>3
      <3>2. QED
        BY <2>1, <3>1 DEF Progress, Asking, Addressing, Making, Adding, Ending
    <2>4. QED
      BY <2>2, <2>3
  <1>5. did' \in Notes
    BY <1>1 DEF Steady, TypeOK, Installed, Did, Notes
  <1>6. run'.next <= Len(run'.list) + 1
    BY <1>1, <1>2, <1>b
  <1>7. QED
    BY <1>2, <1>3, <1>4, <1>5, <1>6

LEMMA SteadyInit == Init => Steady
  <1> SUFFICES ASSUME Init
               PROVE  Steady
    OBVIOUS
  <1>1. PICK list \in Lists :
          /\ run = [force |-> FALSE, setIP |-> FALSE, interactive |-> TRUE, silent |-> FALSE,
                    original |-> FALSE, list |-> list, next |-> 1, ticks |-> 0]
          /\ did = [given |-> list, done |-> {}]
    BY DEF Init
  <1>2. run \in Run /\ run.next = 1 /\ did \in Notes
    BY <1>1 DEF Run, Notes
  <1>5. run.next <= Len(run.list) + 1
    BY <1>2, RunList
  <1>3. at \in [Commands -> Stages] /\ at["oobe"] = "idle"
    BY DEF Init, Commands, Stages
  <1>4. TypeOK
    BY <1>2, <1>3, <1>5 DEF Init, TypeOK, Addresses, Tables, Notes
  <1>6. Progress
    BY <1>3 DEF Progress, Asking, Addressing, Making, Adding, Ending
  <1>7. QED
    BY <1>4, <1>6 DEF Steady

\* The stages before the registry, which know that no add-on is installed yet.
LEMMA EarlyKept ==
  ASSUME Steady, run' \in Run, run'.next <= Len(run'.list) + 1, UNCHANGED <<db, tables, listed, client, who>>,
         main' \in {"none", "empty", "begun", "done"},
         adapter' \in Addresses, asked' \in BOOLEAN, calls' \in Nat,
         did' \in Notes,
         NEW s \in {"idle", "registry"} \cup Asking \cup Addressing,
         s # "idle" => run'.next = 1,
         Goto("oobe", s)
  PROVE  Steady'
  <1>1. s \in Stages /\ "oobe" \in Commands
    BY DEF Stages, Asking, Addressing, Commands
  <1>2. at' \in [Commands -> Stages] /\ at'["oobe"] = s
    BY <1>1, GotoStage DEF Steady, TypeOK
  <1>3. TypeOK'
    BY <1>2 DEF Steady, TypeOK, Notes
  <1>4. Progress'
    BY <1>2 DEF Progress, Asking, Addressing, Making, Adding, Ending
  <1>5. QED
    BY <1>3, <1>4 DEF Steady

LEMMA PromptRuns ==
  ASSUME run \in Run
  PROVE  /\ Prompting \in Run /\ Prompting.next = run.next /\ Prompting.list = run.list
         /\ Restored \in Run /\ Restored.next = run.next /\ Restored.list = run.list
  <1>1. run.silent \in BOOLEAN /\ run.original \in BOOLEAN
    BY DEF Run
  <1>2. QED
    BY <1>1 DEF Prompting, Restored, Run

\* Every step of every command preserves types and progress.
LEMMA SteadyStep == Steady /\ [Next]_vars => Steady'
  <1> SUFFICES ASSUME Steady, [Next]_vars
               PROVE  Steady'
    OBVIOUS
  <1>a. TypeOK /\ Progress /\ run \in Run /\ calls \in Nat /\ at \in [Commands -> Stages]
    BY DEF Steady, TypeOK
  <1> USE DEF Steady
  <1>1. ASSUME \E accepted, force, setIP, interactive, silent \in BOOLEAN, list \in Lists :
                 StartOobe(accepted, force, setIP, interactive, silent, list)
        PROVE  Steady'
    <2>0. PICK accepted, force, setIP, interactive, silent \in BOOLEAN, list \in Lists :
            StartOobe(accepted, force, setIP, interactive, silent, list)
      BY <1>1
    <2> DEFINE r == [force |-> force, setIP |-> setIP, interactive |-> interactive,
                     silent |-> silent, original |-> silent, list |-> list, next |-> 1,
                     ticks |-> 0]
    <2>1. r \in Run /\ r.next = 1 /\ r.list = list
      BY DEF Run
    <2>2. run' = r
      BY <2>0 DEF StartOobe
    <2>7. Len(list) \in Nat
      BY ListsAssumption
    <2>3. run' \in Run /\ run'.next = 1 /\ run'.next <= Len(run'.list) + 1
      BY <2>1, <2>2, <2>7
    <2>4. PICK s \in {"idle", "load"} : Goto("oobe", s)
      BY <2>0 DEF StartOobe, Fail, End
    <2>5. calls' \in Nat /\ UNCHANGED <<main, registry, client, network, who, did>>
      BY <2>0, <1>a DEF StartOobe, Counted
    <2>6. QED
      BY <1>a, <2>3, <2>4, <2>5, EarlyKept DEF TypeOK, registry, network, Asking, Notes
  <1>2. ASSUME \/ LoadMainConfig \/ OpenMain \/ FillMain \/ PressEnter \/ Tick \/ Timeout
               \/ \E bad \in BOOLEAN : ValidateAddress(bad) \/ Netsh(bad)
               \/ \E answer \in {"y", "n", "", "other"} : AnswerPrompt(answer)
        PROVE  Steady'
    <2>1. at["oobe"] \in Asking \cup Addressing
      BY <1>2 DEF LoadMainConfig, OpenMain, FillMain, PressEnter, Tick, Timeout, ValidateAddress,
         Netsh, AnswerPrompt, Asking, Addressing
    <2>2. run.next = 1
      BY <2>1, <1>a DEF Progress
    <2> DEFINE RunStep == \/ run' \in {run, Prompting, Restored} \/ run' = [run EXCEPT !.ticks = 0]
                          \/ (run.ticks < 4 /\ run' = [run EXCEPT !.ticks = run.ticks + 1])
    <2>3. RunStep
      <3>1. CASE LoadMainConfig
        BY <3>1 DEF LoadMainConfig
      <3>2. CASE OpenMain
        BY <3>2 DEF OpenMain
      <3>3. CASE FillMain
        BY <3>3 DEF FillMain
      <3>4. CASE PressEnter
        BY <3>4 DEF PressEnter
      <3>5. CASE Tick
        BY <3>5, <1>a DEF Tick, TypeOK, Addresses
      <3>6. CASE Timeout
        BY <3>6 DEF Timeout
      <3>7. ASSUME NEW bad \in BOOLEAN, ValidateAddress(bad) \/ Netsh(bad)
            PROVE  RunStep
        BY <3>7 DEF ValidateAddress, Netsh
      <3>8. ASSUME NEW answer \in {"y", "n", "", "other"}, AnswerPrompt(answer)
            PROVE  RunStep
        BY <3>8 DEF AnswerPrompt
      <3>9. QED
        BY <1>2, <3>1, <3>2, <3>3, <3>4, <3>5, <3>6, <3>7, <3>8
    <2>4. run.ticks \in 0 .. 4
      BY <1>a DEF Run
    <2>5. run' \in Run /\ run'.next = 1 /\ run'.list = run.list
      <3>1. CASE run' \in {run, Prompting, Restored}
        BY <1>a, <2>2, <3>1, PromptRuns
      <3>2. CASE run' = [run EXCEPT !.ticks = 0]
        BY <1>a, <2>2, <3>2 DEF Run
      <3>3. CASE run.ticks < 4 /\ run' = [run EXCEPT !.ticks = run.ticks + 1]
        <4>1. run.ticks + 1 \in 0 .. 4
          BY <2>4, <3>3
        <4>2. QED
          BY <1>a, <2>2, <3>3, <4>1 DEF Run
      <3>4. QED
        BY <2>3, <3>1, <3>2, <3>3
    <2>6. \E s \in {"idle", "registry"} \cup Asking \cup Addressing : Goto("oobe", s)
      <3> DEFINE Moves == \/ at' = at
                          \/ \E s \in {"idle", "registry"} \cup Asking \cup Addressing : Goto("oobe", s)
      <3>1. Moves
        <4>1. CASE LoadMainConfig
          BY <4>1 DEF LoadMainConfig, Fail, End, Asking, Addressing
        <4>2. CASE OpenMain
          BY <4>2 DEF OpenMain, Fail, End, Asking, Addressing
        <4>3. CASE FillMain
          BY <4>3 DEF FillMain, Fail, End, Asking, Addressing
        <4>4. CASE PressEnter
          BY <4>4 DEF PressEnter, Fail, End, Asking, Addressing
        <4>5. CASE Tick
          BY <4>5, <1>a DEF Tick, TypeOK, Addresses, Fail, End, Asking, Addressing
        <4>6. CASE Timeout
          BY <4>6 DEF Timeout, Fail, End, Asking, Addressing
        <4>7. ASSUME NEW bad \in BOOLEAN, ValidateAddress(bad) \/ Netsh(bad)
              PROVE  Moves
          BY <4>7 DEF ValidateAddress, Netsh, Fail, End, Asking, Addressing
        <4>8. ASSUME NEW answer \in {"y", "n", "", "other"}, AnswerPrompt(answer)
              PROVE  Moves
          BY <4>8 DEF AnswerPrompt, Fail, End, Asking, Addressing
        <4>9. QED
          BY <1>2, <4>1, <4>2, <4>3, <4>4, <4>5, <4>6, <4>7, <4>8
      <3>2. at' = at => Goto("oobe", at["oobe"])
        BY <1>a DEF Goto, Commands
      <3>3. QED
        BY <2>1, <3>1, <3>2
    <2>7. UNCHANGED <<db, tables, listed, client, adapter, who, calls>>
      BY <1>2 DEF LoadMainConfig, OpenMain, FillMain, PressEnter, Tick, Timeout, ValidateAddress,
         Netsh, AnswerPrompt, registry, network
    <2> DEFINE Others == /\ main' \in {main, "empty", "begun"} /\ asked' \in {asked, TRUE}
                         /\ did' \in {did, Did("address"), [given |-> run.list, done |-> {}]}
    <2>8. Others
      <3>1. CASE LoadMainConfig
        BY <3>1 DEF LoadMainConfig, registry, network
      <3>2. CASE OpenMain
        BY <3>2 DEF OpenMain, registry, network
      <3>3. CASE FillMain
        BY <3>3 DEF FillMain, registry, network
      <3>4. CASE PressEnter
        BY <3>4 DEF PressEnter, registry, network
      <3>5. CASE Tick
        BY <3>5, <1>a DEF Tick, TypeOK, Addresses, registry, network
      <3>6. CASE Timeout
        BY <3>6 DEF Timeout, registry, network
      <3>7. ASSUME NEW bad \in BOOLEAN, ValidateAddress(bad) \/ Netsh(bad)
            PROVE  Others
        BY <3>7 DEF ValidateAddress, Netsh, registry, network
      <3>8. ASSUME NEW answer \in {"y", "n", "", "other"}, AnswerPrompt(answer)
            PROVE  Others
        BY <3>8 DEF AnswerPrompt, registry, network
      <3>9. QED
        BY <1>2, <3>1, <3>2, <3>3, <3>4, <3>5, <3>6, <3>7, <3>8
    <2>9. did' \in Notes
      <3>1. did \in Notes /\ run.list \in Lists
        BY <1>a, RunList DEF TypeOK, Notes
      <3>2. Did("address") \in Notes
        BY <3>1 DEF Did, Notes
      <3>3. [given |-> run.list, done |-> {}] \in Notes
        BY <3>1 DEF Notes
      <3>4. QED
        BY <2>8, <3>1, <3>2, <3>3
    <2>10. run'.next <= Len(run'.list) + 1
      BY <1>a, <2>5, RunList
    <2>11. QED
      BY <1>a, <2>5, <2>6, <2>7, <2>8, <2>9, <2>10, EarlyKept DEF TypeOK
  <1> "oobe" \in Commands /\ "client" \in Commands
    BY DEF Commands
  <1>3. ASSUME MakeDirectory
        PROVE  Steady'
    <2>1. Goto("oobe", "checkDB") /\ at["oobe"] = "registry"
      BY <1>3 DEF MakeDirectory
    <2>2. TypeOK' /\ at'["oobe"] = "checkDB"
      BY <1>3, <1>a, <2>1, MovedType, ZenonT(30) DEF MakeDirectory, TypeOK, Stages
    <2>3. run'.next = 1
      BY <1>3, <1>a, <2>1 DEF MakeDirectory, Progress, Making
    <2>4. QED
      BY <2>2, <2>3 DEF Progress, Asking, Addressing, Making, Adding, Ending
  <1>4. ASSUME CheckDB \/ AccessDB \/ OpenDB \/ CreateTable("packages", "access")
        PROVE  Steady'
    <2>1. PICK s \in {"idle", "access", "openDB", "packages", "software"} :
            Goto("oobe", s) /\ (s \in {"packages", "software"} => db' = "there")
      <3>1. CASE CheckDB
        BY <3>1 DEF CheckDB
      <3>2. CASE AccessDB
        BY <3>2 DEF AccessDB, Fail, End, registry
      <3>3. CASE OpenDB
        BY <3>3 DEF OpenDB
      <3>4. CASE CreateTable("packages", "access")
        BY <3>4 DEF CreateTable
      <3>5. QED
        BY <1>4, <3>1, <3>2, <3>3, <3>4
    <2>2. UNCHANGED <<main, listed, client, network, run, who, did, calls>>
          /\ db' \in {db, "there"} /\ tables' \in {tables, tables \cup {"packages"}}
      BY <1>4 DEF CheckDB, AccessDB, OpenDB, CreateTable, registry
    <2>3. at["oobe"] \in Making /\ (tables' # tables => at["oobe"] = "packages")
      BY <1>4 DEF CheckDB, AccessDB, OpenDB, CreateTable, registry, Making
    <2>4. tables' # {} => db' = "there"
      BY <1>a, <2>2, <2>3 DEF TypeOK, Progress
    <2>5. TypeOK' /\ at'["oobe"] = s
      <3>1. s \in Stages
        BY <2>1 DEF Stages
      <3>2. QED
        BY <1>a, <2>1, <2>2, <2>4, <3>1, MovedType DEF TypeOK, Tables
    <2>6. run'.next = 1
      BY <1>a, <2>2, <2>3 DEF Progress
    <2>7. QED
      BY <2>1, <2>5, <2>6 DEF Progress, Asking, Addressing, Making, Adding, Ending
  <1>5. ASSUME \/ CreateTable("software", "executables")
               \/ CreateTable("executables", FirstOr("openDone"))
        PROVE  Steady'
    <2>1. at["oobe"] \in {"software", "executables"}
      BY <1>5 DEF CreateTable
    <2>2. db = "there" /\ run.next = 1
      BY <1>a, <2>1 DEF Progress, Making
    <2>3. UNCHANGED <<main, db, listed, client, network, run, who, did, calls>>
      BY <1>5 DEF CreateTable
    <2>4. CASE CreateTable("software", "executables")
      <3>1. Goto("oobe", "executables") /\ tables' = tables \cup {"software"}
        BY <2>4 DEF CreateTable
      <3>2. TypeOK' /\ at'["oobe"] = "executables"
        BY <1>a, <2>2, <2>3, <3>1, MovedType DEF TypeOK, Stages, Tables
      <3>3. QED
        BY <2>2, <2>3, <3>1, <3>2 DEF Progress, Asking, Addressing, Making, Adding, Ending
    <2>5. CASE CreateTable("executables", FirstOr("openDone"))
      <3> DEFINE s == FirstOr("openDone")
      <3>1. Goto("oobe", s) /\ tables' = tables \cup {"executables"} /\ "software" \in tables
        BY <1>a, <2>5 DEF CreateTable, Progress
      <3>2. s \in Stages
        BY DEF FirstOr, Stages
      <3>3. TypeOK' /\ at'["oobe"] = s
        <4> HIDE DEF s
        <4>1. QED
          BY <1>a, <2>2, <2>3, <3>1, <3>2, MovedType DEF TypeOK, Tables
      <3>4. CASE run.list = <<>>
        <4>1. at'["oobe"] = "openDone" /\ run'.list = <<>>
          BY <2>3, <3>3, <3>4 DEF FirstOr
        <4>2. QED
          BY <2>2, <2>3, <3>1, <3>3, <4>1 DEF Progress, Asking, Addressing, Making, Adding, Ending
      <3>5. CASE run.list # <<>>
        <4>1. run.list \in Seq(STRING)
          BY <1>a, RunList
        <4>2. Len(run.list) \in Nat /\ Len(run.list) # 0
          BY <3>5, <4>1
        <4>3. run'.next = 1 /\ run'.next <= Len(run'.list)
          BY <2>2, <2>3, <4>2
        <4>4. at'["oobe"] = "npm"
          BY <3>3, <3>5 DEF FirstOr
        <4>5. QED
          BY <3>1, <3>3, <4>3, <4>4 DEF Progress, Asking, Addressing, Making, Adding, Ending
      <3>6. QED
        BY <3>4, <3>5
    <2>6. QED
      BY <1>5, <2>4, <2>5
  <1>6. ASSUME NEW fails \in BOOLEAN, Npm(fails)
        PROVE  Steady'
    <2>1. UNCHANGED <<main, registry, client, network, run, who, did, calls>> /\ at["oobe"] = "npm"
      BY <1>6 DEF Npm
    <2>2. PICK s \in {"idle", "query"} : Goto("oobe", s)
      BY <1>6 DEF Npm, Fail, End
    <2>3. TypeOK' /\ at'["oobe"] = s
      <3>1. s \in Stages
        BY DEF Stages
      <3>2. QED
        BY <1>a, <2>1, <2>2, <3>1, MovedType DEF TypeOK, registry
    <2>4. QED
      BY <1>a, <2>1, <2>3 DEF Progress, registry, Asking, Addressing, Making, Adding, Ending
  <1>7. ASSUME QueryRegistry
        PROVE  Steady'
    <2>1. UNCHANGED <<main, registry, client, network, who, calls>> /\ at["oobe"] = "query"
      BY <1>7 DEF QueryRegistry
    <2>2. CASE "packages" \in tables /\ AddOn \in listed
      <3>1. Installed
        BY <1>7, <2>2 DEF QueryRegistry
      <3>2. /\ Progress' /\ at' \in [Commands -> Stages] /\ did' \in Notes
            /\ run' \in Run /\ run'.next <= Len(run'.list) + 1
        BY <2>1, <2>2, <3>1, InstalledKept DEF registry
      <3>3. QED
        BY <1>a, <2>1, <3>2 DEF TypeOK, registry, network, Notes
    <2>3. CASE ~("packages" \in tables /\ AddOn \in listed)
      <3>1. PICK s \in {"idle", "add"} : Goto("oobe", s) /\ (s = "add" => "packages" \in tables)
        BY <1>7, <2>3 DEF QueryRegistry, Fail, End
      <3>2. UNCHANGED <<run, did>>
        BY <1>7, <2>3 DEF QueryRegistry
      <3>3. TypeOK' /\ at'["oobe"] = s
        <4>1. s \in Stages
          BY DEF Stages
        <4>2. QED
          BY <1>a, <2>1, <3>1, <3>2, <4>1, MovedType DEF TypeOK, registry
      <3>4. QED
        BY <1>a, <2>1, <3>1, <3>2, <3>3
           DEF Progress, registry, Asking, Addressing, Making, Adding, Ending
    <2>4. QED
      BY <2>2, <2>3
  <1>8. ASSUME AddPackage
        PROVE  Steady'
    <2>1. UNCHANGED <<main, db, tables, client, network, who, calls>> /\ at["oobe"] = "add"
      BY <1>8 DEF AddPackage
    <2>2. "packages" \in tables
      BY <1>a, <2>1 DEF Progress
    <2>3. CASE AddOn \in Valid
      <3>1. AddOn \in AddOns
        BY <2>1, AddOnListed DEF Adding
      <3>2. listed' = listed \cup {AddOn} /\ Goto("oobe", "script") /\ UNCHANGED <<run, did>>
        BY <1>8, <2>3 DEF AddPackage
      <3>3. TypeOK' /\ at'["oobe"] = "script"
        BY <1>a, <2>1, <2>2, <3>1, <3>2, MovedType DEF TypeOK, Stages
      <3>4. QED
        BY <1>a, <2>1, <2>2, <3>2, <3>3 DEF Progress, Asking, Addressing, Making, Adding, Ending
    <2>4. CASE AddOn \notin Valid
      <3>1. Installed /\ UNCHANGED listed
        BY <1>8, <2>4 DEF AddPackage
      <3>2. /\ Progress' /\ at' \in [Commands -> Stages] /\ did' \in Notes
            /\ run' \in Run /\ run'.next <= Len(run'.list) + 1
        BY <2>1, <2>2, <3>1, InstalledKept
      <3>3. QED
        BY <1>a, <2>1, <3>1, <3>2 DEF TypeOK, network, Notes
    <2>5. QED
      BY <2>3, <2>4
  <1>9. ASSUME NEW fails \in BOOLEAN, RunScript(fails)
        PROVE  Steady'
    <2>1. UNCHANGED <<main, registry, client, network, who, calls>> /\ at["oobe"] = "script"
      BY <1>9 DEF RunScript
    <2>2. "packages" \in tables
      BY <1>a, <2>1 DEF Progress
    <2>3. CASE fails
      <3>1. Goto("oobe", "idle") /\ UNCHANGED <<run, did>>
        BY <1>9, <2>3 DEF RunScript, Fail, End
      <3>2. TypeOK' /\ at'["oobe"] = "idle"
        BY <1>a, <2>1, <3>1, MovedType, ZenonT(30) DEF TypeOK, Stages, registry
      <3>3. QED
        BY <3>2 DEF Progress, Asking, Addressing, Making, Adding, Ending
    <2>4. CASE ~fails
      <3>1. Installed
        BY <1>9, <2>4 DEF RunScript
      <3>2. /\ Progress' /\ at' \in [Commands -> Stages] /\ did' \in Notes
            /\ run' \in Run /\ run'.next <= Len(run'.list) + 1
        BY <2>1, <2>2, <3>1, InstalledKept DEF registry
      <3>3. QED
        BY <1>a, <2>1, <3>2 DEF TypeOK, registry, network, Notes
    <2>5. QED
      BY <2>3, <2>4
  <1>10. ASSUME OpenDone \/ FillDone
         PROVE  Steady'
    <2>1. UNCHANGED <<registry, client, network, run, who, did, calls>> /\ at["oobe"] \in Ending
      BY <1>10 DEF OpenDone, FillDone, Ending
    <2>2. PICK s \in {"idle", "fillDone"} : Goto("oobe", s)
      BY <1>10 DEF OpenDone, FillDone, End
    <2>3. main' \in {"empty", "done"}
      BY <1>10 DEF OpenDone, FillDone
    <2>4. TypeOK' /\ at'["oobe"] = s
      <3>1. s \in Stages
        BY DEF Stages
      <3>2. QED
        BY <1>a, <2>1, <2>2, <2>3, <3>1, MovedType DEF TypeOK, registry
    <2>5. QED
      BY <1>a, <2>1, <2>4 DEF Progress, registry, Asking, Addressing, Making, Adding, Ending
  <1>11. ASSUME NEW c \in Clients, StartClient(c)
         PROVE  Steady'
    <2>1. PICK s \in {"idle", "initDB"} : Goto("client", s)
      BY <1>11 DEF StartClient, Fail, End
    <2>2. UNCHANGED <<main, registry, client, network, run, did>> /\ who' = c /\ calls' \in Nat
      BY <1>11, <1>a DEF StartClient, Counted
    <2>3. TypeOK' /\ at'["oobe"] = at["oobe"]
      <3>1. s \in Stages /\ "oobe" \in Commands \ {"client"}
        BY DEF Stages, Commands
      <3>2. QED
        BY <1>a, <2>1, <2>2, <3>1, MovedType DEF TypeOK, registry
    <2>4. QED
      BY <1>a, <2>2, <2>3, ProgressFrame DEF registry
  <1>12. ASSUME Client
         PROVE  Steady'
    <2>1. UNCHANGED <<main, tables, listed, network, run, who, did, calls>>
          /\ db' \in {db, "there"}
      BY <1>12 DEF Client, InitDB, FillClient, LoadDetector, GenerateConfig, SetupClient, registry
    <2>2. PICK s \in Stages : Goto("client", s)
      BY <1>12 DEF Client, InitDB, FillClient, LoadDetector, GenerateConfig, SetupClient, Fail, End,
         Stages
    <2>3. client' \in [Clients -> {"none", "empty", "written", "set up"}]
      BY <1>12, <1>a DEF Client, InitDB, FillClient, LoadDetector, GenerateConfig, SetupClient, TypeOK
    <2>4. TypeOK' /\ at'["oobe"] = at["oobe"]
      BY <1>a, <2>1, <2>2, <2>3, MovedType, ZenonT(30) DEF TypeOK
    <2>5. QED
      BY <1>a, <2>1, <2>4, ProgressFrame
  <1>13. ASSUME NEW k \in Commands, Kill(k)
         PROVE  Steady'
    <2>1. Goto(k, "idle") /\ UNCHANGED <<main, registry, client, network, run, who, did, calls>>
      BY <1>13 DEF Kill, End
    <2>2. TypeOK' /\ at'[k] = "idle" /\ \A j \in Commands \ {k} : at'[j] = at[j]
      BY <1>a, <2>1, MovedType DEF TypeOK, Stages, registry
    <2>3. at'["oobe"] \in {at["oobe"], "idle"}
      BY <2>2
    <2>4. QED
      BY <1>a, <2>1, <2>2, <2>3, ProgressFrame DEF registry
  <1>14. ASSUME (\E address \in Addresses : ChangeAdapter(address)) \/ UNCHANGED vars
         PROVE  Steady'
    <2>1. UNCHANGED <<main, registry, client, asked, at, run, who, did, calls>>
          /\ adapter' \in Addresses
      BY <1>14, <1>a DEF ChangeAdapter, vars, registry, TypeOK
    <2>2. TypeOK'
      BY <1>a, <2>1 DEF TypeOK, registry
    <2>3. QED
      BY <1>a, <2>1, <2>2, ProgressFrame DEF registry
  <1>15. CASE CreateTables
    BY <1>15, <1>4, <1>5 DEF CreateTables
  <1>16. CASE Oobe
    BY <1>16, <1>2, <1>3, <1>4, <1>6, <1>7, <1>8, <1>9, <1>10, <1>15 DEF Oobe
  <1>17. CASE User
    <2>1. CASE \E accepted, force, setIP, interactive, silent \in BOOLEAN, list \in Lists :
                 StartOobe(accepted, force, setIP, interactive, silent, list)
      BY <1>1, <2>1
    <2>2. CASE PressEnter \/ \E answer \in {"y", "n", "", "other"} : AnswerPrompt(answer)
      BY <1>2, <2>2
    <2>3. CASE (\E c \in Clients : StartClient(c)) \/ \E k \in Commands : Kill(k)
      BY <1>11, <1>13, <2>3
    <2>4. QED
      BY <1>17, <2>1, <2>2, <2>3, Zenon DEF User
  <1>18. QED
    BY <1>12, <1>14, <1>16, <1>17 DEF Next

\* Every variable keeps its type, and the registry has no tables without a file
\* and no rows without a table.
THEOREM TypeCorrect == Spec => []TypeOK
  <1>1. Steady => TypeOK
    BY DEF Steady
  <1>2. QED
    BY <1>1, SteadyInit, SteadyStep, PTL DEF Spec

-----------------------------------------------------------------------------
(* What the setup has done by each stage, so that its last write is true.  *)

Accounted ==
  /\ at["oobe"] \notin {"idle"} \cup Asking => main # "done" /\ did.given = run.list
  /\ at["oobe"] \in Making \cup Adding \cup Ending => "address" \in did.done
  /\ at["oobe"] \in Adding =>
       \A j \in 1 .. Len(run.list) : j < run.next => run.list[j] \in did.done
  /\ at["oobe"] \in Ending => Range(run.list) \subseteq did.done

\* A setup that stops, or has not opened the main config yet, owes nothing.
LEMMA NothingOwed ==
  ASSUME at'["oobe"] \in {"idle"} \cup Asking
  PROVE  Accounted'
  BY DEF Accounted, Asking, Making, Adding, Ending

\* What is done stays done as long as the main config is not opened.
LEMMA UsableFrame ==
  ASSUME DoneMeansUsable, TypeOK', main' = "done" => main = "done", tables \subseteq tables',
         did'.given = did.given, did.done \subseteq did'.done
  PROVE  DoneMeansUsable'
  BY DEF DoneMeansUsable, TypeOK

LEMMA DidMore ==
  ASSUME TypeOK, NEW what, did' = Did(what)
  PROVE  did'.given = did.given /\ did'.done = did.done \cup {what}
  BY DEF TypeOK, Did

LEMMA AccountedFrame ==
  ASSUME Accounted, at'["oobe"] \in {at["oobe"], "idle"}, main' = main, UNCHANGED <<run, did>>
  PROVE  Accounted'
  BY DEF Accounted, Asking, Making, Adding, Ending

\* An add-on that is through its installation is done.
LEMMA InstalledAccounted ==
  ASSUME Steady, Accounted, at["oobe"] \in {"query", "add", "script"}, Installed, main' = main
  PROVE  Accounted' /\ did'.given = did.given /\ did.done \subseteq did'.done
  <1>a. run \in Run /\ TypeOK
    BY DEF Steady, TypeOK
  <1> DEFINE n == Len(run.list)
  <1>b. n \in Nat /\ DOMAIN run.list = 1 .. n
    BY <1>a, RunList
  <1>1. run.next \in 1 .. n
    BY AddOnListed DEF Adding
  <1>2. run'.next = run.next + 1 /\ run'.list = run.list
    <2>1. run' = [run EXCEPT !.next = run.next + 1]
      BY DEF Installed
    <2>2. QED
      BY <1>a, <2>1 DEF Run
  <1>3. did'.given = did.given /\ did'.done = did.done \cup {run.list[run.next]}
    BY <1>a, DidMore DEF Installed, AddOn
  <1>4. at'["oobe"] = IF run.next < n THEN "npm" ELSE "openDone"
    BY DEF Steady, TypeOK, Installed, Goto, Commands
  <1>5. /\ "address" \in did.done /\ main # "done" /\ did.given = run.list
        /\ \A j \in 1 .. n : j < run.next => run.list[j] \in did.done
    BY DEF Accounted, Asking, Adding
  <1> HIDE DEF n
  <1>6. \A j \in 1 .. n : j < run'.next => run.list[j] \in did'.done
    <2> SUFFICES ASSUME NEW j \in 1 .. n, j < run'.next
                 PROVE  run.list[j] \in did'.done
      OBVIOUS
    <2>1. j < run.next \/ j = run.next
      BY <1>1, <1>2, <1>b
    <2>2. QED
      BY <1>3, <1>5, <2>1
  <1>7. ~(run.next < n) => Range(run.list) \subseteq did'.done
    <2> SUFFICES ASSUME ~(run.next < n), NEW x \in Range(run.list)
                 PROVE  x \in did'.done
      OBVIOUS
    <2>1. PICK j \in 1 .. n : x = run.list[j]
      BY <1>b DEF Range
    <2>2. j < run'.next
      BY <1>1, <1>2, <1>b
    <2>3. QED
      BY <1>6, <2>1, <2>2
  <1>8. "address" \in did'.done /\ did'.given = run'.list
    BY <1>2, <1>3, <1>5
  <1>9. QED
    BY <1>2, <1>3, <1>4, <1>5, <1>6, <1>7, <1>8 DEF n, Accounted, Asking, Making, Adding, Ending

LEMMA AccountedStep ==
  Steady /\ Steady' /\ Accounted /\ DoneMeansUsable /\ [Next]_vars => (Accounted /\ DoneMeansUsable)'
  <1> SUFFICES ASSUME Steady, Steady', Accounted, DoneMeansUsable, [Next]_vars
               PROVE  Accounted' /\ DoneMeansUsable'
    OBVIOUS
  <1>a. TypeOK /\ TypeOK' /\ at \in [Commands -> Stages] /\ "oobe" \in Commands
    BY DEF Steady, TypeOK, Commands
  <1>b. \A s : Goto("oobe", s) => at'["oobe"] = s
    BY <1>a DEF Goto
  <1>1. ASSUME \/ LoadMainConfig
               \/ \E answer \in {"y", "n", "", "other"} : AnswerPrompt(answer)
               \/ \E accepted, force, setIP, interactive, silent \in BOOLEAN, list \in Lists :
                    StartOobe(accepted, force, setIP, interactive, silent, list)
        PROVE  Accounted' /\ DoneMeansUsable'
    <2>1. UNCHANGED <<main, tables, did>>
      BY <1>1 DEF LoadMainConfig, AnswerPrompt, StartOobe, registry
    <2> DEFINE Moves == \/ at' = at /\ at["oobe"] \in Asking
                        \/ \E s \in {"idle"} \cup Asking : Goto("oobe", s)
    <2>2. Moves
      <3>1. CASE LoadMainConfig
        BY <3>1, <1>a DEF LoadMainConfig, Fail, End, Asking, TypeOK
      <3>2. ASSUME NEW answer \in {"y", "n", "", "other"}, AnswerPrompt(answer)
            PROVE  Moves
        BY <3>2 DEF AnswerPrompt, Fail, End, Asking
      <3>3. QED
        BY <1>1, <3>1, <3>2 DEF StartOobe, Fail, End, Asking
    <2>3. at'["oobe"] \in {"idle"} \cup Asking
      BY <1>b, <2>2
    <2>4. QED
      BY <1>a, <2>1, <2>3, NothingOwed, UsableFrame
  <1>2. ASSUME OpenMain
        PROVE  Accounted' /\ DoneMeansUsable'
    <2>1. /\ main' = "empty" /\ at'["oobe"] = "fillMain" /\ run' = run
          /\ did' = [given |-> run.list, done |-> {}]
      BY <1>2, <1>b DEF OpenMain
    <2>2. did'.given = run'.list
      BY <2>1
    <2>3. QED
      BY <2>1, <2>2 DEF Accounted, DoneMeansUsable, Asking, Making, Adding, Ending
  <1>3. ASSUME FillMain
        PROVE  Accounted' /\ DoneMeansUsable'
    <2>1. /\ main' = "begun" /\ at'["oobe"] \in {"validate", "registry"} /\ run' = run
          /\ did'.given = did.given /\ at["oobe"] = "fillMain"
          /\ at'["oobe"] = "registry" => "address" \in did'.done
      BY <1>3, <1>a, <1>b, DidMore DEF FillMain
    <2>2. did'.given = run'.list
      BY <2>1 DEF Accounted, Asking
    <2>3. QED
      BY <2>1, <2>2 DEF Accounted, DoneMeansUsable, Asking, Making, Adding, Ending
  <1>4. ASSUME \/ PressEnter \/ Tick \/ Timeout
               \/ \E bad \in BOOLEAN : ValidateAddress(bad) \/ Netsh(bad)
        PROVE  Accounted' /\ DoneMeansUsable'
    <2> DEFINE Later == /\ UNCHANGED <<main, tables>> /\ at["oobe"] \in Addressing
                        /\ run'.list = run.list
                        /\ did'.given = did.given /\ did.done \subseteq did'.done
                        /\ \/ at'["oobe"] \in {"idle"} \cup Addressing
                           \/ at'["oobe"] = "registry" /\ "address" \in did'.done
    <2>1. Later
      <3>1. CASE PressEnter
        BY <3>1, <1>b DEF PressEnter, registry, Addressing
      <3>2. CASE Tick
        <4>1. UNCHANGED <<main, tables>> /\ at["oobe"] = "check" /\ adapter \in Addresses
          BY <3>2, <1>a DEF Tick, TypeOK, registry
        <4>2. CASE adapter \in {"no adapter", "none"}
          BY <3>2, <4>1, <4>2, <1>b DEF Tick, Fail, End, Addressing
        <4>3. CASE adapter = "dynamic"
          <5>1. run' = [run EXCEPT !.ticks = run.ticks + 1] /\ UNCHANGED <<at, did>>
            BY <3>2, <4>3 DEF Tick
          <5>2. run'.list = run.list
            BY <5>1, <1>a DEF TypeOK, Run
          <5>3. QED
            BY <4>1, <5>1, <5>2 DEF Addressing
        <4>4. CASE adapter = "static"
          <5>1. /\ Goto("oobe", "registry") /\ did' = Did("address")
                /\ run' = [run EXCEPT !.ticks = 0]
            BY <3>2, <4>4 DEF Tick
          <5>2. run'.list = run.list
            BY <5>1, <1>a DEF TypeOK, Run
          <5>3. QED
            BY <4>1, <5>1, <5>2, <1>a, <1>b, DidMore DEF Addressing
        <4>5. QED
          BY <4>1, <4>2, <4>3, <4>4 DEF Addresses
      <3>3. CASE Timeout
        BY <3>3, <1>b DEF Timeout, Fail, End, registry, Addressing
      <3>4. ASSUME NEW bad \in BOOLEAN, ValidateAddress(bad) \/ Netsh(bad)
            PROVE  Later
        BY <3>4, <1>b DEF ValidateAddress, Netsh, Fail, End, registry, Addressing
      <3>5. QED
        BY <1>4, <3>1, <3>2, <3>3, <3>4
    <2>2. main # "done" /\ did'.given = run'.list
      BY <2>1 DEF Accounted, Addressing, Asking
    <2>3. Accounted'
      BY <2>1, <2>2 DEF Accounted, Asking, Addressing, Making, Adding, Ending
    <2>4. QED
      BY <1>a, <2>1, <2>3, UsableFrame
  <1>5. ASSUME MakeDirectory \/ CheckDB \/ OpenDB \/ CreateTables \/ AccessDB
        PROVE  Accounted' /\ DoneMeansUsable'
    <2> DEFINE Later == /\ UNCHANGED <<main, did, run>> /\ tables \subseteq tables'
                        /\ at["oobe"] \in Making
                        /\ \/ at'["oobe"] \in {"idle", "npm"} \cup Making
                           \/ at'["oobe"] = "openDone" /\ run.list = <<>>
    <2>1. Later
      <3>1. CASE MakeDirectory \/ CheckDB \/ OpenDB
        BY <3>1, <1>b DEF MakeDirectory, CheckDB, OpenDB, registry, Making
      <3>2. CASE AccessDB
        BY <3>2, <1>b DEF AccessDB, Fail, End, registry, Making
      <3>3. CASE CreateTables
        BY <3>3, <1>b DEF CreateTables, CreateTable, FirstOr, Making
      <3>4. QED
        BY <1>5, <3>1, <3>2, <3>3
    <2>2. main # "done" /\ "address" \in did.done /\ did.given = run.list
      BY <2>1 DEF Accounted, Asking, Making
    <2>3. run'.next = 1 /\ run \in Run
      BY <2>1, <1>a DEF Steady, Progress, TypeOK
    <2>4. \A j \in 1 .. Len(run.list) : ~(j < run'.next)
      BY <2>3, RunList
    <2>7. run.list = <<>> => Range(run.list) = {}
      BY DEF Range
    <2>5. Accounted'
      BY <2>1, <2>2, <2>4, <2>7 DEF Accounted, Asking, Making, Adding, Ending
    <2>6. QED
      BY <1>a, <2>1, <2>5, UsableFrame
  <1>6. ASSUME \/ QueryRegistry \/ AddPackage
               \/ \E fails \in BOOLEAN : Npm(fails) \/ RunScript(fails)
        PROVE  Accounted' /\ DoneMeansUsable'
    <2> DEFINE Moves == /\ UNCHANGED <<main, tables>> /\ at["oobe"] \in Adding
                        /\ \/ at["oobe"] # "npm" /\ Installed
                           \/ UNCHANGED <<run, did>> /\ at'["oobe"] \in {"idle"} \cup Adding
    <2>1. Moves
      <3>1. CASE QueryRegistry
        BY <3>1, <1>b DEF QueryRegistry, Fail, End, registry, Adding
      <3>2. CASE AddPackage
        BY <3>2, <1>b DEF AddPackage, Adding
      <3>3. ASSUME NEW fails \in BOOLEAN, Npm(fails) \/ RunScript(fails)
            PROVE  Moves
        BY <3>3, <1>b DEF Npm, RunScript, Fail, End, registry, Adding
      <3>4. QED
        BY <1>6, <3>1, <3>2, <3>3
    <2>2. CASE at["oobe"] # "npm" /\ Installed
      <3>1. at["oobe"] \in {"query", "add", "script"}
        BY <2>1, <2>2 DEF Adding
      <3>2. Accounted' /\ did'.given = did.given /\ did.done \subseteq did'.done
        BY <2>1, <2>2, <3>1, InstalledAccounted
      <3>3. QED
        BY <1>a, <2>1, <3>2, UsableFrame
    <2>3. CASE UNCHANGED <<run, did>> /\ at'["oobe"] \in {"idle"} \cup Adding
      <3>1. Accounted'
        BY <2>1, <2>3 DEF Accounted, Asking, Making, Adding, Ending
      <3>2. QED
        BY <1>a, <2>1, <2>3, <3>1, UsableFrame
    <2>4. QED
      BY <2>1, <2>2, <2>3
  <1>7. ASSUME OpenDone
        PROVE  Accounted' /\ DoneMeansUsable'
    <2>1. /\ main' = "empty" /\ UNCHANGED <<run, did>>
          /\ at["oobe"] = "openDone" /\ at'["oobe"] = "fillDone"
      BY <1>7, <1>b DEF OpenDone
    <2>2. QED
      BY <2>1 DEF Accounted, DoneMeansUsable, Asking, Making, Adding, Ending
  <1>8. ASSUME FillDone
        PROVE  Accounted' /\ DoneMeansUsable'
    <2>1. UNCHANGED <<registry, did>> /\ at["oobe"] = "fillDone" /\ at'["oobe"] = "idle"
      BY <1>8, <1>b DEF FillDone, End
    <2>2. /\ {"software", "executables"} \subseteq tables
          /\ run.list # <<>> => "packages" \in tables
      BY <2>1 DEF Steady, Progress, Ending
    <2>3. did.given = run.list /\ {"address"} \cup Range(run.list) \subseteq did.done
      BY <2>1 DEF Accounted, Asking, Ending
    <2>4. DoneMeansUsable'
      BY <2>1, <2>2, <2>3 DEF DoneMeansUsable, registry
    <2>5. QED
      BY <2>1, <2>4, NothingOwed
  <1>9. ASSUME \/ Client \/ \E c \in Clients : StartClient(c)
               \/ \E k \in Commands : Kill(k)
               \/ \E address \in Addresses : ChangeAdapter(address)
               \/ UNCHANGED vars
        PROVE  Accounted' /\ DoneMeansUsable'
    <2>1. UNCHANGED <<main, tables, run, did>>
      BY <1>9 DEF Client, InitDB, FillClient, LoadDetector, GenerateConfig, SetupClient, StartClient,
         Kill, ChangeAdapter, vars, registry
    <2>2. at' = at \/ (\E s : Goto("client", s)) \/ Goto("oobe", "idle")
      BY <1>9 DEF Client, InitDB, FillClient, LoadDetector, GenerateConfig, SetupClient, StartClient,
         Kill, ChangeAdapter, vars, Fail, End, Commands
    <2>3. at'["oobe"] \in {at["oobe"], "idle"}
      BY <1>a, <2>2 DEF Goto, Commands
    <2>4. QED
      BY <1>a, <2>1, <2>3, AccountedFrame, UsableFrame
  <1>10. QED
    BY <1>1, <1>2, <1>3, <1>4, <1>5, <1>6, <1>7, <1>8, <1>9 DEF Next, Oobe, User

\* A main config that says that oobe was run comes after its address, the tables of
\* software and every add-on of its list, which may be empty, whatever was refused,
\* killed or run meanwhile; the table of packages is there if the list is not empty.
THEOREM DoneIsUsable == Spec => []DoneMeansUsable
  <1>1. Init => Accounted /\ DoneMeansUsable
    BY DEF Init, Accounted, DoneMeansUsable, Commands, Asking, Making, Adding, Ending
  <1>2. QED
    BY <1>1, SteadyInit, SteadyStep, AccountedStep, PTL DEF Spec

-----------------------------------------------------------------------------
\* A client that is being made has a controller the registry lists.
Controlled ==
  at["client"] \in {"generate", "fillClient", "setup"} => who.controller \in listed

LEMMA ControlledStep ==
  Steady /\ Controlled /\ ClientsHaveControllers /\ [Next]_vars
    => (Controlled /\ ClientsHaveControllers)'
  <1> SUFFICES ASSUME Steady, Controlled, ClientsHaveControllers, [Next]_vars
               PROVE  Controlled' /\ ClientsHaveControllers'
    OBVIOUS
  <1>a. /\ at \in [Commands -> Stages] /\ {"oobe", "client"} = Commands /\ who \in Clients
        /\ client \in [Clients -> {"none", "empty", "written", "set up"}]
    BY DEF Steady, TypeOK, Commands
  <1>b. \A s : Goto("client", s) => at'["client"] = s
    BY <1>a DEF Goto
  <1>c. \A s : Goto("oobe", s) => at'["client"] = at["client"]
    BY <1>a DEF Goto
  <1>d. listed \subseteq listed'
    BY DEF Next, Oobe, Client, User, vars, registry, StartOobe, StartClient, LoadMainConfig,
       AnswerPrompt, OpenMain, FillMain, ValidateAddress, PressEnter, Netsh, Tick, Timeout,
       ChangeAdapter, MakeDirectory, CheckDB, OpenDB, CreateTables, CreateTable, AccessDB, Npm,
       QueryRegistry, AddPackage, RunScript, OpenDone, FillDone, InitDB, LoadDetector,
       GenerateConfig, FillClient, SetupClient, Kill
  <1>1. ASSUME NEW c \in Clients, StartClient(c)
        PROVE  Controlled' /\ ClientsHaveControllers'
    <2>1. client' = client /\ at'["client"] \in {"idle", "initDB"}
      BY <1>1, <1>b DEF StartClient, Fail, End
    <2>2. QED
      BY <1>d, <2>1 DEF Controlled, ClientsHaveControllers
  <1>2. ASSUME InitDB \/ \E fails \in BOOLEAN : LoadDetector(fails)
        PROVE  Controlled' /\ ClientsHaveControllers'
    <2>1. UNCHANGED <<client, who, listed>>
          /\ (at'["client"] \in {"idle", "loadDetector"} \/ who.controller \in listed)
      BY <1>2, <1>b DEF InitDB, LoadDetector, Fail, End, registry
    <2>2. QED
      BY <2>1 DEF Controlled, ClientsHaveControllers
  <1>3. ASSUME FillClient \/ \E fails \in BOOLEAN : GenerateConfig(fails) \/ SetupClient(fails)
        PROVE  Controlled' /\ ClientsHaveControllers'
    <2>1. UNCHANGED <<who, listed>> /\ who.controller \in listed
      BY <1>3 DEF FillClient, GenerateConfig, SetupClient, registry, Controlled
    <2>2. \A c \in Clients \ {who} : client'[c] = client[c]
      BY <1>3, <1>a DEF FillClient, GenerateConfig, SetupClient
    <2>3. QED
      BY <2>1, <2>2 DEF Controlled, ClientsHaveControllers
  <1>4. ASSUME NEW k \in Commands, Kill(k)
        PROVE  Controlled' /\ ClientsHaveControllers'
    <2>1. UNCHANGED <<client, who, listed>> /\ at'["client"] \in {at["client"], "idle"}
      <3>1. UNCHANGED <<client, who, listed>> /\ Goto(k, "idle")
        BY <1>4 DEF Kill, End, registry
      <3>2. CASE k = "client"
        BY <1>b, <3>1, <3>2
      <3>3. CASE k = "oobe"
        BY <1>c, <3>1, <3>3
      <3>4. QED
        BY <1>a, <3>1, <3>2, <3>3
    <2>2. QED
      BY <2>1 DEF Controlled, ClientsHaveControllers
  <1>5. ASSUME \/ Oobe \/ PressEnter \/ UNCHANGED vars
               \/ \E address \in Addresses : ChangeAdapter(address)
               \/ \E answer \in {"y", "n", "", "other"} : AnswerPrompt(answer)
               \/ \E accepted, force, setIP, interactive, silent \in BOOLEAN, list \in Lists :
                    StartOobe(accepted, force, setIP, interactive, silent, list)
        PROVE  Controlled' /\ ClientsHaveControllers'
    <2>1. UNCHANGED <<client, who>>
      BY <1>5 DEF Oobe, vars, StartOobe, LoadMainConfig, AnswerPrompt, OpenMain, FillMain,
         ValidateAddress, PressEnter, Netsh, Tick, Timeout, ChangeAdapter, MakeDirectory, CheckDB,
         OpenDB, CreateTables, CreateTable, AccessDB, Npm, QueryRegistry, AddPackage, RunScript,
         OpenDone, FillDone
    <2> DEFINE Moves == at' = at \/ \E s : Goto("oobe", s)
    <2>2. Moves
      <3>1. CASE Tick
        <4>1. adapter \in Addresses
          BY DEF Steady, TypeOK
        <4>2. QED
          BY <3>1, <4>1 DEF Tick, Addresses, Fail, End
      <3>2. ASSUME NEW bad \in BOOLEAN,
                   ValidateAddress(bad) \/ Netsh(bad) \/ Npm(bad) \/ RunScript(bad)
            PROVE  Moves
        BY <3>2 DEF ValidateAddress, Netsh, Npm, RunScript, Installed, Fail, End
      <3>3. ASSUME NEW answer \in {"y", "n", "", "other"}, AnswerPrompt(answer)
            PROVE  Moves
        BY <3>3 DEF AnswerPrompt, Fail, End
      <3>4. CASE \/ LoadMainConfig \/ OpenMain \/ FillMain \/ Timeout \/ MakeDirectory
                 \/ CheckDB \/ OpenDB
        BY <3>4 DEF LoadMainConfig, OpenMain, FillMain, Timeout, MakeDirectory, CheckDB, OpenDB,
           Fail, End
      <3>5. CASE CreateTables \/ AccessDB \/ QueryRegistry \/ AddPackage \/ OpenDone \/ FillDone
        BY <3>5 DEF CreateTables, CreateTable, AccessDB, QueryRegistry, AddPackage, OpenDone,
           FillDone, Installed, Fail, End
      <3>6. CASE Oobe
        BY <3>1, <3>2, <3>3, <3>4, <3>5, <3>6 DEF Oobe
      <3>7. CASE \/ PressEnter \/ UNCHANGED vars
                 \/ \E address \in Addresses : ChangeAdapter(address)
                 \/ \E accepted, force, setIP, interactive, silent \in BOOLEAN, list \in Lists :
                      StartOobe(accepted, force, setIP, interactive, silent, list)
        BY <3>7 DEF PressEnter, vars, ChangeAdapter, StartOobe, Fail, End
      <3>8. QED
        BY <1>5, <3>3, <3>6, <3>7
    <2>3. at'["client"] = at["client"]
      BY <1>c, <2>2
    <2>4. QED
      BY <1>d, <2>1, <2>3 DEF Controlled, ClientsHaveControllers
  <1>6. QED
    BY <1>1, <1>2, <1>3, <1>4, <1>5 DEF Next, Client, User

\* Every client has a controller that the registry lists, however the setup
\* that installs it is run, killed and run again meanwhile.
THEOREM ControllersListed == Spec => []ClientsHaveControllers
  <1>1. Init => Controlled /\ ClientsHaveControllers
    BY DEF Init, Controlled, ClientsHaveControllers, Commands
  <1>2. QED
    BY <1>1, SteadyInit, SteadyStep, ControlledStep, PTL DEF Spec
=============================================================================
