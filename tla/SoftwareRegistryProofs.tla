----------------------- MODULE SoftwareRegistryProofs -----------------------
(***************************************************************************)
(* Proofs about SoftwareRegistry, for every set of callers, packages and   *)
(* software, any number of calls, and every interleaving of them.          *)
(***************************************************************************)
EXTENDS SoftwareRegistry, TLAPS

-----------------------------------------------------------------------------
(* What the building blocks of the actions do to the control variables. *)

ControlType ==
  /\ at \in [Callers -> Stage]
  /\ outcome \in [Callers -> Outcome]

\* Moving on to a stage keeps the control variables typed.
LEMMA GotoType ==
  ASSUME ControlType, NEW c \in Callers, NEW s \in Stage, Goto(c, s)
  PROVE  ControlType'
BY DEF ControlType, Goto

\* So does ending a call.
LEMMA EndType ==
  ASSUME ControlType, NEW c \in Callers, NEW r \in Outcome, End(c, r)
  PROVE  ControlType'
<1>1. "idle" \in Stage  BY DEF Stage
<1>2. QED  BY <1>1 DEF ControlType, End

\* Beginning a call only counts it.
LEMMA BeginType ==
  ASSUME calls \in Nat, NEW c \in Callers, NEW op, Begin(c, op)
  PROVE  calls' \in Nat
BY DEF Begin

\* Opening the database of an instance keeps `opened` typed.
LEMMA OpenType ==
  ASSUME opened \in [Callers -> BOOLEAN], NEW c \in Callers, Open(c)
  PROVE  opened' \in [Callers -> BOOLEAN]
BY DEF Open

OpName == {"none", "install", "runInstall", "uninstall", "update", "deleteExec", "renameExec"}

\* The arguments of a call that has only begun are typed.
LEMMA BlankCounted ==
  ASSUME calls \in Nat, NEW n \in Names, NEW op \in OpName
  PROVE  Blank(op, n) \in Arg
<1>1. (CHOOSE t \in Types : TRUE) \in Types  BY TypesAssumption
<1>2. << >> \in Seq([name : Execs, path : BOOLEAN])  OBVIOUS
<1>3. QED  BY <1>1, <1>2 DEF Blank, Arg, OpName

LEMMA BlankType ==
  ASSUME TypeOK, NEW n \in Names, NEW op \in OpName
  PROVE  Blank(op, n) \in Arg
BY BlankCounted DEF TypeOK

\* So are those of an update.
UpdateArg(c, n, to, d) ==
  [Blank("update", n) EXCEPT !.to = to, !.setNoAuto = d.setNoAuto, !.noAuto = d.noAuto,
                             !.list = d.list, !.reinstall = d.reinstall,
                             !.alone = Pending(c) = {}]

LEMMA UpdateArgType ==
  ASSUME TypeOK, NEW c \in Callers, NEW n \in Names, NEW to \in Names, NEW d \in Edits
  PROVE  /\ UpdateArg(c, n, to, d) \in Arg
         /\ UpdateArg(c, n, to, d).id = NoId
         /\ UpdateArg(c, n, to, d).op = "update"
         /\ UpdateArg(c, n, to, d).call = calls
         /\ UpdateArg(c, n, to, d).alone = (Pending(c) = {})
<1>1. /\ Blank("update", n) \in Arg
      /\ Blank("update", n).id = NoId
      /\ Blank("update", n).op = "update"
      /\ Blank("update", n).call = calls
  BY BlankType DEF OpName, Blank
<1>2. /\ d.setNoAuto \in BOOLEAN /\ d.noAuto \in BOOLEAN /\ d.reinstall \in BOOLEAN
      /\ d.list \in Seq([name : Execs, path : BOOLEAN])
  BY EditsAssumption
<1>3. (Pending(c) = {}) \in BOOLEAN  OBVIOUS
<1> DEFINE b == Blank("update", n)
<1>4. b \in Arg /\ b.id = NoId /\ b.op = "update" /\ b.call = calls  BY <1>1
<1>5. UpdateArg(c, n, to, d)
        = [b EXCEPT !.to = to, !.setNoAuto = d.setNoAuto, !.noAuto = d.noAuto, !.list = d.list,
                    !.reinstall = d.reinstall, !.alone = (Pending(c) = {})]
  BY DEF UpdateArg
<1> HIDE DEF b
<1>6. UpdateArg(c, n, to, d) \in Arg  BY <1>2, <1>3, <1>4, <1>5 DEF Arg
<1>7. /\ UpdateArg(c, n, to, d).id = NoId /\ UpdateArg(c, n, to, d).op = "update"
      /\ UpdateArg(c, n, to, d).call = calls
  BY <1>4, <1>5 DEF Arg
<1>8. UpdateArg(c, n, to, d).alone = (Pending(c) = {})  BY <1>4, <1>5 DEF Arg
<1>9. QED  BY <1>6, <1>7, <1>8

\* A folder written over holds what a folder may hold, and so does what is left
\* of one.
LEMMA OverType ==
  /\ \A h \in FolderState, s \in FolderState : Over(h, s) \in FolderState
  /\ \A h \in FolderState : Remains(h) \subseteq FolderState
  /\ {"none", "empty", "part", "partial tree"} \cup Complete \subseteq FolderState
BY DEF Over, Remains, FolderState, WithDirs, Complete

LEMMA FolderType ==
  ASSUME TypeOK, NEW dir \in Packages \X Names, NEW s \in FolderState,
         folder' = [folder EXCEPT ![dir] = s]
  PROVE  folder' \in [Packages \X Names -> FolderState]
BY DEF TypeOK

\* What is known of a statement in flight.
LEMMA StatementFacts ==
  ASSUME TypeOK, NEW i \in inflight
  PROVE  i \in Statement /\ i.caller \in Callers /\ i.call \in Nat /\ i.path \in BOOLEAN
         /\ i.row \in Executable
BY DEF TypeOK, Statement

\* A statement that is rejected keeps the control variables typed.
LEMMA RejectType ==
  ASSUME ControlType, NEW i, i.caller \in Callers, Reject(i)
  PROVE  ControlType'
<1>1. "rollback" \in Stage /\ "failed" \in Outcome  BY DEF Stage, Outcome
<1>2. CASE Goto(i.caller, "rollback")  BY <1>1, <1>2, GotoType
<1>3. CASE End(i.caller, "failed")  BY <1>1, <1>3, EndType
<1>4. CASE UNCHANGED <<at, outcome>>  BY <1>4 DEF ControlType
<1>5. QED  BY <1>2, <1>3, <1>4 DEF Reject

\* A removal that fails keeps the folders typed.
LEMMA RemovalFailsType ==
  ASSUME TypeOK, NEW c \in Callers, NEW dir \in Packages \X Names, RemovalFails(c, dir)
  PROVE  folder' \in [Packages \X Names -> FolderState] /\ ControlType'
<1>1. PICK s \in Remains(folder[dir]) : folder' = [folder EXCEPT ![dir] = s]
  BY DEF RemovalFails
<1>2. folder[dir] \in FolderState  BY DEF TypeOK
<1>3. s \in FolderState  BY <1>2, OverType
<1>4. folder' \in [Packages \X Names -> FolderState]  BY <1>1, <1>3 DEF TypeOK
<1>5. ControlType'  BY EndType DEF RemovalFails, TypeOK, ControlType, Outcome
<1>6. QED  BY <1>4, <1>5

\* A row found is a row of the table.
LEMMA LookupRows ==
  \A p, n : /\ Lookup(p, n) \subseteq Rows
            /\ Rows \subseteq Ids
            /\ TypeOK => \A id \in Rows : software[id] \in Row
BY DEF Lookup, Rows, TypeOK

\* The folder of a caller's software is a folder.
LEMMA DirType ==
  ASSUME NEW c \in Callers, NEW n \in Names
  PROVE  Dir(c, n) \in Packages \X Names
BY CallerAssumption DEF Dir

-----------------------------------------------------------------------------
\* The registry starts typed: no rows, no folders, every instance idle.
LEMMA InitType == Init => TypeOK
<1> SUFFICES ASSUME Init PROVE TypeOK  OBVIOUS
<1>1. (CHOOSE n \in Names : TRUE) \in Names  BY NamesAssumption
<1>2. arg \in [Callers -> Arg]
  <2>1. calls \in Nat  BY DEF Init
  <2>2. QED  BY <1>1, <2>1, BlankCounted DEF Init, OpName
<1>3. QED  BY <1>2 DEF Init, TypeOK, Outcome, Stage, FolderState

\* installSoftware keeps the state typed.
LEMMA InstallType ==
  ASSUME TypeOK, NEW c \in Callers, NEW n \in Names, NEW t \in Types,
         NEW na \in BOOLEAN, NEW es \in ExecLists, InstallSoftware(c, n, t, na, es)
  PROVE  TypeOK'
<1>1. /\ PackageOf[c] \in Packages
      /\ es \in Seq(Execs)
      /\ Blank("install", n) \in Arg
      /\ ControlType
  BY CallerAssumption, ListsAssumption, BlankType DEF OpName, TypeOK, ControlType
<1>2. /\ Begin(c, "install")
      /\ Open(c)
      /\ UNCHANGED <<executables, folder>>
  BY DEF InstallSoftware, tables
<1>3. calls' \in Nat /\ opened' \in [Callers -> BOOLEAN]
  BY <1>2, BeginType, OpenType DEF TypeOK
<1>4. CASE Lookup(PackageOf[c], n) # {}
  <2>1. /\ End(c, "refused")
        /\ arg' = [arg EXCEPT ![c] = Blank("install", n)]
        /\ UNCHANGED <<tables, inflight>>
    BY <1>4 DEF InstallSoftware
  <2>2. ControlType'  BY <1>1, <2>1, EndType DEF Outcome
  <2>3. QED  BY <1>1, <1>2, <1>3, <2>1, <2>2 DEF TypeOK, ControlType, tables
<1>5. CASE Lookup(PackageOf[c], n) = {}
  <2>1. Goto(c, "insertExecs")  BY <1>5 DEF InstallSoftware
  <2>2. ControlType'  BY <1>1, <2>1, GotoType DEF Stage
  <2>3. PICK id \in Fresh :
           /\ software' = [software EXCEPT ![id] =
                [name |-> n, owner |-> PackageOf[c], installed |-> FALSE,
                 noAuto |-> na, type |-> t]]
           /\ inflight' = inflight \cup
                {[caller |-> c, call |-> calls, slot |-> i, step |-> "insert", path |-> TRUE,
                  row |-> [name |-> es[i], softwareId |-> id, folder |-> n]] : i \in DOMAIN es}
           /\ arg' = [arg EXCEPT ![c] =
                [Blank("install", n) EXCEPT !.id = id, !.type = t, !.noAuto = na,
                                            !.execs = {es[i] : i \in DOMAIN es}]]
    BY <1>5 DEF InstallSoftware
  <2>4. id \in Ids  BY DEF Fresh
  <2>5. software' \in [Ids -> Row \cup {NoRow}]
    BY <1>1, <2>3, <2>4 DEF Row, TypeOK
  <2>6. \A i \in DOMAIN es : es[i] \in Execs /\ i \in Nat
    BY <1>1
  <2>7. inflight' \subseteq Statement
    <3>1. calls \in Nat /\ inflight \subseteq Statement  BY DEF TypeOK
    <3>2. \A i \in DOMAIN es :
            [caller |-> c, call |-> calls, slot |-> i, step |-> "insert", path |-> TRUE,
             row |-> [name |-> es[i], softwareId |-> id, folder |-> n]] \in Statement
      BY <2>4, <2>6, <3>1 DEF Statement, Executable
    <3>3. QED  BY <2>3, <3>1, <3>2
  <2> DEFINE S == {es[i] : i \in DOMAIN es}
  <2> HIDE DEF S
  <2>8. [Blank("install", n) EXCEPT !.id = id, !.type = t, !.noAuto = na, !.execs = S] \in Arg
    <3>1. S \subseteq Execs  BY <2>6 DEF S
    <3>2. QED  BY <1>1, <2>4, <3>1 DEF Arg
  <2>9. arg' \in [Callers -> Arg]
    BY <2>3, <2>8 DEF TypeOK, S
  <2>10. QED  BY <1>2, <1>3, <2>2, <2>5, <2>7, <2>9 DEF TypeOK, ControlType
<1>6. QED  BY <1>4, <1>5

\* An INSERT keeps the state typed.
LEMMA InsertType ==
  ASSUME TypeOK, NEW i \in inflight, InsertExecutable(i)
  PROVE  TypeOK'
<1>1. i.caller \in Callers /\ i.row \in Executable  BY StatementFacts
<1>2. ControlType'
  <2>1. ControlType  BY DEF TypeOK, ControlType
  <2>2. UNCHANGED <<at, outcome>> \/ Reject(i)  BY DEF InsertExecutable
  <2>3. QED  BY <1>1, <2>1, <2>2, RejectType DEF ControlType
<1>3. executables' \subseteq Executable /\ inflight' \subseteq Statement
  BY <1>1 DEF InsertExecutable, TypeOK
<1>4. UNCHANGED <<software, folder, opened, arg, calls>>  BY DEF InsertExecutable
<1>5. QED  BY <1>2, <1>3, <1>4 DEF TypeOK, ControlType

\* So does the SELECT of an executable, and what follows it.
LEMMA FindExecutableType ==
  ASSUME TypeOK, NEW i \in inflight, FindExecutable(i)
  PROVE  TypeOK'
<1>1. i \in Statement /\ i.caller \in Callers  BY StatementFacts
<1>2. ControlType'
  <2>1. ControlType  BY DEF TypeOK, ControlType
  <2>2. UNCHANGED <<at, outcome>> \/ Reject(i)  BY DEF FindExecutable
  <2>3. QED  BY <1>1, <2>1, <2>2, RejectType DEF ControlType
<1>3. inflight' \subseteq Statement
  <2>1. \A step \in {"insert", "update"} : [i EXCEPT !.step = step] \in Statement
    BY <1>1 DEF Statement
  <2>2. \/ inflight' = inflight \ {i}
        \/ \E step \in {"insert", "update"} :
             inflight' = (inflight \ {i}) \cup {[i EXCEPT !.step = step]}
    BY DEF FindExecutable
  <2>3. inflight \subseteq Statement  BY DEF TypeOK
  <2>4. QED  BY <2>1, <2>2, <2>3
<1>4. UNCHANGED <<software, executables, folder, opened, arg, calls>>  BY DEF FindExecutable, tables
<1>5. QED  BY <1>2, <1>3, <1>4 DEF TypeOK, ControlType

\* And its UPDATE.
LEMMA UpdateExecutableType ==
  ASSUME TypeOK, NEW i \in inflight, UpdateExecutable(i)
  PROVE  TypeOK'
<1>1. i.row \in Executable  BY StatementFacts
<1>2. executables' \subseteq Executable  BY <1>1 DEF UpdateExecutable, TypeOK
<1>3. inflight' \subseteq Statement  BY DEF UpdateExecutable, TypeOK
<1>4. UNCHANGED <<software, folder, opened, at, arg, outcome, calls>>  BY DEF UpdateExecutable
<1>5. QED  BY <1>2, <1>3, <1>4 DEF TypeOK

\* runInstall keeps the state typed.
LEMMA RunInstallType ==
  ASSUME TypeOK, NEW c \in Callers, NEW n \in Names, NEW t \in Types, RunInstall(c, n, t)
  PROVE  TypeOK'
<1>1. Blank("runInstall", n) \in Arg  BY BlankType DEF OpName
<1>2. /\ Begin(c, "runInstall")
      /\ arg' = [arg EXCEPT ![c] = [Blank("runInstall", n) EXCEPT !.type = t]]
      /\ Goto(c, "runInstall")
      /\ UNCHANGED <<software, executables, folder, opened, inflight>>
  BY DEF RunInstall, tables
<1>3. arg' \in [Callers -> Arg]  BY <1>1, <1>2 DEF TypeOK, Arg
<1>4. ControlType'  BY <1>2, GotoType DEF TypeOK, ControlType, Stage
<1>5. calls' \in Nat  BY <1>2, BeginType DEF TypeOK
<1>6. QED  BY <1>2, <1>3, <1>4, <1>5 DEF TypeOK, ControlType

\* uninstallSoftware keeps the state typed.
LEMMA UninstallType ==
  ASSUME TypeOK, NEW c \in Callers, NEW n \in Names, UninstallSoftware(c, n)
  PROVE  TypeOK'
<1>1. Blank("uninstall", n) \in Arg  BY BlankType DEF OpName
<1>2. /\ Begin(c, "uninstall")
      /\ \/ /\ folder' = [folder EXCEPT ![Dir(c, n)] = "none"]
            /\ Goto(c, "deleteExecs")
         \/ RemovalFails(c, Dir(c, n))
      /\ arg' = [arg EXCEPT ![c] = Blank("uninstall", n)]
      /\ UNCHANGED <<software, executables, opened, inflight>>
  BY DEF UninstallSoftware, tables
<1>3. Dir(c, n) \in Packages \X Names  BY DirType
<1>4. folder' \in [Packages \X Names -> FolderState] /\ ControlType'
  <2>1. CASE RemovalFails(c, Dir(c, n))  BY <1>3, <2>1, RemovalFailsType
  <2>2. CASE folder' = [folder EXCEPT ![Dir(c, n)] = "none"] /\ Goto(c, "deleteExecs")
    BY <2>2, GotoType DEF TypeOK, ControlType, Stage, FolderState
  <2>3. QED  BY <1>2, <2>1, <2>2
<1>5. calls' \in Nat  BY <1>2, BeginType DEF TypeOK
<1>6. QED  BY <1>1, <1>2, <1>3, <1>4, <1>5 DEF TypeOK, ControlType

\* updateSoftware keeps the state typed.
LEMMA UpdateType ==
  ASSUME TypeOK, NEW c \in Callers, NEW n \in Names, NEW to \in Names, NEW d \in Edits, UpdateSoftware(c, n, to, d)
  PROVE  TypeOK'
<1> DEFINE a == UpdateArg(c, n, to, d)
<1>1. a \in Arg  BY UpdateArgType
<1>2. \A id \in Ids : [a EXCEPT !.id = id] \in Arg  BY <1>1 DEF Arg
<1>3. Lookup(PackageOf[c], n) \subseteq Ids  BY LookupRows
<1> HIDE DEF a
<1>4. arg' \in [Callers -> Arg]
  <2>1. \/ arg' = [arg EXCEPT ![c] = a]
        \/ \E id \in Lookup(PackageOf[c], n) : arg' = [arg EXCEPT ![c] = [a EXCEPT !.id = id]]
    BY DEF UpdateSoftware, UpdateArg, a
  <2>2. QED  BY <1>1, <1>2, <1>3, <2>1 DEF TypeOK
<1>5. Begin(c, "update") /\ Open(c) /\ UNCHANGED <<software, executables, folder, inflight>>
  BY DEF UpdateSoftware, tables
<1>6. calls' \in Nat /\ opened' \in [Callers -> BOOLEAN]
  BY <1>5, BeginType, OpenType DEF TypeOK
<1>7. ControlType'
  BY GotoType, EndType DEF UpdateSoftware, TypeOK, ControlType, Stage, Outcome
<1>8. QED  BY <1>4, <1>5, <1>6, <1>7 DEF TypeOK, ControlType

\* deleteExecutable and renameExecutable begin by keeping it typed.
LEMMA FindOwnerType ==
  ASSUME TypeOK, NEW c \in Callers, NEW op \in {"deleteExec", "renameExec"}, NEW n \in Names,
         NEW e \in Execs, NEW f \in Execs \cup {NoExec}, FindOwner(c, op, n, e, f)
  PROVE  TypeOK'
<1> DEFINE a == [Blank(op, n) EXCEPT !.exec = e, !.newExec = f]
<1>1. a \in Arg
  <2>1. Blank(op, n) \in Arg  BY BlankType DEF OpName
  <2>3. QED  BY <2>1 DEF Arg
<1>2. \A id \in Ids : [a EXCEPT !.id = id] \in Arg  BY <1>1 DEF Arg
<1>3. Lookup(PackageOf[c], n) \subseteq Ids  BY LookupRows
<1> HIDE DEF a
<1>4. arg' \in [Callers -> Arg]
  <2>1. \/ arg' = [arg EXCEPT ![c] = a]
        \/ \E id \in Lookup(PackageOf[c], n) : arg' = [arg EXCEPT ![c] = [a EXCEPT !.id = id]]
    BY DEF FindOwner, a
  <2>2. QED  BY <1>1, <1>2, <1>3, <2>1 DEF TypeOK
<1>5. Begin(c, op) /\ Open(c) /\ UNCHANGED <<software, executables, folder, inflight>>
  BY DEF FindOwner, tables
<1>6. calls' \in Nat /\ opened' \in [Callers -> BOOLEAN]
  BY <1>5, BeginType, OpenType DEF TypeOK
<1>7. ControlType'
  BY GotoType, EndType DEF FindOwner, TypeOK, ControlType, Stage, Outcome
<1>8. QED  BY <1>4, <1>5, <1>6, <1>7 DEF TypeOK, ControlType

\* ExecutablesInserted keeps the state typed.
LEMMA ExecutablesInsertedType ==
  ASSUME TypeOK, NEW c \in Callers, ExecutablesInserted(c)
  PROVE  TypeOK'
<1>1. ControlType'  BY GotoType, EndType DEF ExecutablesInserted, TypeOK, ControlType, Stage, Outcome
<1>2. UNCHANGED <<software, executables, folder, opened, arg, inflight, calls>>  BY DEF ExecutablesInserted, tables
<1>3. QED  BY <1>1, <1>2 DEF TypeOK, ControlType

\* ExecutablesWritten keeps the state typed.
LEMMA ExecutablesWrittenType ==
  ASSUME TypeOK, NEW c \in Callers, ExecutablesWritten(c)
  PROVE  TypeOK'
<1>1. ControlType'  BY GotoType DEF ExecutablesWritten, TypeOK, ControlType, Stage
<1>2. UNCHANGED <<software, executables, folder, opened, arg, inflight, calls>>  BY DEF ExecutablesWritten, tables
<1>3. QED  BY <1>1, <1>2 DEF TypeOK, ControlType

\* SkipDownload keeps the state typed.
LEMMA SkipDownloadType ==
  ASSUME TypeOK, NEW c \in Callers, SkipDownload(c)
  PROVE  TypeOK'
<1>1. ControlType'  BY GotoType, EndType DEF SkipDownload, TypeOK, ControlType, Stage, Outcome
<1>2. UNCHANGED <<software, executables, folder, opened, arg, inflight, calls>>  BY DEF SkipDownload, tables
<1>3. QED  BY <1>1, <1>2 DEF TypeOK, ControlType

\* FailDownload keeps the state typed.
LEMMA FailDownloadType ==
  ASSUME TypeOK, NEW c \in Callers, FailDownload(c)
  PROVE  TypeOK'
<1>1. ControlType'  BY GotoType, EndType DEF FailDownload, TypeOK, ControlType, Stage, Outcome
<1>2. folder' \in [Packages \X Names -> FolderState]
  BY DEF FailDownload, TypeOK, FolderState
<1>3. UNCHANGED <<software, executables, opened, arg, inflight, calls>>  BY DEF FailDownload, tables
<1>4. QED  BY <1>1, <1>2, <1>3 DEF TypeOK, ControlType

\* RollBack keeps the state typed.
LEMMA RollBackType ==
  ASSUME TypeOK, NEW c \in Callers, RollBack(c)
  PROVE  TypeOK'
<1>1. ControlType'  BY GotoType, EndType DEF RollBack, TypeOK, ControlType, Stage, Outcome
<1>2. software' \in [Ids -> Row \cup {NoRow}]
  BY DEF RollBack, TypeOK
<1>3. UNCHANGED <<executables, folder, opened, arg, inflight, calls>>  BY DEF RollBack, tables
<1>4. QED  BY <1>1, <1>2, <1>3 DEF TypeOK, ControlType

\* DeleteSoftware keeps the state typed.
LEMMA DeleteSoftwareType ==
  ASSUME TypeOK, NEW c \in Callers, DeleteSoftware(c)
  PROVE  TypeOK'
<1>1. ControlType'  BY GotoType, EndType DEF DeleteSoftware, TypeOK, ControlType, Stage, Outcome
<1>2. software' \in [Ids -> Row \cup {NoRow}]
  BY DEF DeleteSoftware, TypeOK
<1>3. UNCHANGED <<executables, folder, opened, arg, inflight, calls>>  BY DEF DeleteSoftware, tables
<1>4. QED  BY <1>1, <1>2, <1>3 DEF TypeOK, ControlType

\* MarkInstalled keeps the state typed.
LEMMA MarkInstalledType ==
  ASSUME TypeOK, NEW c \in Callers, MarkInstalled(c)
  PROVE  TypeOK'
<1>1. ControlType'  BY GotoType, EndType DEF MarkInstalled, TypeOK, ControlType, Stage, Outcome
<1>2. software' \in [Ids -> Row \cup {NoRow}]
  <2>1. \A id \in Rows : [software[id] EXCEPT !.installed = TRUE] \in Row  BY LookupRows DEF Row
  <2>2. UNCHANGED software
        \/ software' = [id \in Ids |-> IF id \in Rows /\ software[id].name = arg[c].to
                                       THEN [software[id] EXCEPT !.installed = TRUE]
                                       ELSE software[id]]
    BY DEF MarkInstalled
  <2>3. QED  BY <2>1, <2>2 DEF TypeOK
<1>3. UNCHANGED <<executables, folder, opened, arg, inflight, calls>>  BY DEF MarkInstalled, tables
<1>4. QED  BY <1>1, <1>2, <1>3 DEF TypeOK, ControlType

\* The SELECTs of an update are statements about the uuid it read.
LEMMA SelectsType ==
  ASSUME TypeOK, NEW c \in Callers, arg[c].id \in Ids
  PROVE  /\ Selects(c) \subseteq Statement
         /\ \A i \in Selects(c) : /\ i.caller = c /\ i.call = arg[c].call /\ i.step = "find"
                                 /\ i.row.softwareId = arg[c].id /\ i.row.folder = arg[c].to
<1> DEFINE a == arg[c]
           x(i) == [caller |-> c, call |-> a.call, slot |-> i, step |-> "find",
                    path |-> a.list[i].path,
                    row |-> [name |-> a.list[i].name, softwareId |-> a.id, folder |-> a.to]]
<1>1. /\ a.call \in Nat /\ a.to \in Names /\ a.id \in Ids
      /\ a.list \in Seq([name : Execs, path : BOOLEAN])
  BY DEF TypeOK, Arg
<1> HIDE DEF a
<1>2. \A i \in DOMAIN a.list : i \in Nat /\ a.list[i] \in [name : Execs, path : BOOLEAN]
  <2> DEFINE D == [name : Execs, path : BOOLEAN]
  <2>1. a.list \in Seq(D)  BY <1>1
  <2> HIDE DEF D
  <2>2. \A i \in DOMAIN a.list : i \in Nat /\ a.list[i] \in D  BY <2>1
  <2>3. QED  BY <2>2 DEF D
<1>3. \A i \in DOMAIN a.list : /\ x(i) \in Statement
                              /\ x(i).caller = c /\ x(i).call = a.call /\ x(i).step = "find"
                              /\ x(i).row.softwareId = a.id /\ x(i).row.folder = a.to
  BY <1>1, <1>2 DEF Statement, Executable
<1>4. Selects(c) = {x(i) : i \in DOMAIN a.list}  BY DEF Selects, a
<1> HIDE DEF x
<1>5. QED  BY <1>3, <1>4 DEF a

\* UpdateRow keeps the state typed.
LEMMA UpdateRowType ==
  ASSUME TypeOK, ArgsRead, NEW c \in Callers, UpdateRow(c)
  PROVE  TypeOK'
<1>1. ControlType'  BY GotoType, EndType DEF UpdateRow, TypeOK, ControlType, Stage, Outcome
<1>2. software' \in [Ids -> Row \cup {NoRow}]
  <2>1. arg[c].to \in Names /\ arg[c].noAuto \in BOOLEAN  BY DEF Arg, TypeOK
  <2>2. arg[c].id \in Rows => arg[c].id \in Ids /\ software[arg[c].id] \in Row  BY LookupRows
  <2>3. QED  BY <2>1, <2>2 DEF UpdateRow, Row, TypeOK
<1>3. inflight' \subseteq Statement
  <2>1. arg[c].id \in Ids  BY DEF ArgsRead, UpdateRow
  <2>2. inflight' \subseteq inflight \cup Selects(c)  BY DEF UpdateRow
  <2>3. QED  BY <2>1, <2>2, SelectsType DEF TypeOK
<1>4. UNCHANGED <<executables, folder, opened, arg, calls>>  BY DEF UpdateRow, tables
<1>5. QED  BY <1>1, <1>2, <1>3, <1>4 DEF TypeOK, ControlType

\* StartDownload keeps the state typed.
LEMMA StartDownloadType ==
  ASSUME TypeOK, NEW c \in Callers, StartDownload(c)
  PROVE  TypeOK'
<1>1. ControlType'  BY GotoType, EndType DEF StartDownload, TypeOK, ControlType, Stage, Outcome
<1>2. folder' \in [Packages \X Names -> FolderState]
  <2>1. Dir(c, arg[c].name) \in Packages \X Names /\ Dir(c, arg[c].to) \in Packages \X Names
    BY DirType DEF TypeOK, Arg
  <2>2. QED  BY <2>1 DEF StartDownload, TypeOK, FolderState
<1>3. UNCHANGED <<software, executables, opened, arg, inflight, calls>>  BY DEF StartDownload, tables
<1>4. QED  BY <1>1, <1>2, <1>3 DEF TypeOK, ControlType

\* WriteDownload keeps the state typed.
LEMMA WriteDownloadType ==
  ASSUME TypeOK, NEW c \in Callers, WriteDownload(c)
  PROVE  TypeOK'
<1>1. ControlType'  BY GotoType, EndType DEF WriteDownload, TypeOK, ControlType, Stage, Outcome
<1>2. folder' \in [Packages \X Names -> FolderState]
  <2>1. Dir(c, arg[c].to) \in Packages \X Names  BY DirType DEF TypeOK, Arg
  <2>2. folder[Dir(c, arg[c].to)] \in FolderState  BY <2>1 DEF TypeOK
  <2>3. \/ UNCHANGED folder
        \/ folder' = [folder EXCEPT ![Dir(c, arg[c].to)] = Over(folder[Dir(c, arg[c].to)], "part")]
    BY DEF WriteDownload
  <2>4. Over(folder[Dir(c, arg[c].to)], "part") \in FolderState  BY <2>2, OverType
  <2>5. QED  BY <2>1, <2>3, <2>4, FolderType DEF TypeOK
<1>3. UNCHANGED <<software, executables, opened, arg, inflight, calls>>  BY DEF WriteDownload, tables
<1>4. QED  BY <1>1, <1>2, <1>3 DEF TypeOK, ControlType

\* FinishDownload keeps the state typed.
LEMMA FinishDownloadType ==
  ASSUME TypeOK, NEW c \in Callers, FinishDownload(c)
  PROVE  TypeOK'
<1>1. ControlType'  BY GotoType, EndType DEF FinishDownload, TypeOK, ControlType, Stage, Outcome
<1>2. folder' \in [Packages \X Names -> FolderState]
  <2>1. Dir(c, arg[c].name) \in Packages \X Names /\ Dir(c, arg[c].to) \in Packages \X Names
    BY DirType DEF TypeOK, Arg
  <2>2. folder[Dir(c, arg[c].to)] \in FolderState /\ folder[Dir(c, arg[c].name)] \in FolderState
    BY <2>1 DEF TypeOK
  <2> DEFINE dir == Dir(c, arg[c].to)
  <2>3. \/ UNCHANGED folder
        \/ folder' = [folder EXCEPT ![dir] = IF folder[dir] = "none" THEN "none" ELSE Over(folder[dir], "flat")]
    BY DEF FinishDownload
  <2>4. Over(folder[dir], "flat") \in FolderState /\ "none" \in FolderState
    BY <2>2, OverType DEF Complete
  <2>5. QED  BY <2>1, <2>3, <2>4, FolderType DEF TypeOK
<1>3. UNCHANGED <<software, executables, opened, arg, inflight, calls>>  BY DEF FinishDownload, tables
<1>4. QED  BY <1>1, <1>2, <1>3 DEF TypeOK, ControlType

\* Extract keeps the state typed.
LEMMA ExtractType ==
  ASSUME TypeOK, NEW c \in Callers, Extract(c)
  PROVE  TypeOK'
<1>1. ControlType'  BY GotoType, EndType DEF Extract, TypeOK, ControlType, Stage, Outcome
<1>2. folder' \in [Packages \X Names -> FolderState]
  <2>1. Dir(c, arg[c].name) \in Packages \X Names /\ Dir(c, arg[c].to) \in Packages \X Names
    BY DirType DEF TypeOK, Arg
  <2>2. folder[Dir(c, arg[c].to)] \in FolderState /\ folder[Dir(c, arg[c].name)] \in FolderState
    BY <2>1 DEF TypeOK
  <2> DEFINE dir == Dir(c, arg[c].to)
  <2>3. UNCHANGED folder \/ \E s \in Complete : folder' = [folder EXCEPT ![dir] = Over(folder[dir], s)]
    BY DEF Extract
  <2>4. \A s \in Complete : Over(folder[dir], s) \in FolderState  BY <2>2, OverType
  <2>5. QED  BY <2>1, <2>3, <2>4, FolderType DEF TypeOK
<1>3. UNCHANGED <<software, executables, opened, arg, inflight, calls>>  BY DEF Extract, tables
<1>4. QED  BY <1>1, <1>2, <1>3 DEF TypeOK, ControlType

\* CopyContents keeps the state typed.
LEMMA CopyContentsType ==
  ASSUME TypeOK, NEW c \in Callers, CopyContents(c)
  PROVE  TypeOK'
<1>1. ControlType'  BY GotoType, EndType DEF CopyContents, TypeOK, ControlType, Stage, Outcome
<1>2. folder' \in [Packages \X Names -> FolderState]
  <2>1. Dir(c, arg[c].name) \in Packages \X Names /\ Dir(c, arg[c].to) \in Packages \X Names
    BY DirType DEF TypeOK, Arg
  <2>2. folder[Dir(c, arg[c].to)] \in FolderState /\ folder[Dir(c, arg[c].name)] \in FolderState
    BY <2>1 DEF TypeOK
  <2> DEFINE dir == Dir(c, arg[c].to)
             src == folder[Dir(c, arg[c].name)]
  <2>3. \/ UNCHANGED folder
        \/ folder' = [folder EXCEPT ![dir] = Over(folder[dir], src)]
        \/ folder' = [folder EXCEPT ![dir] = IF src \in WithDirs THEN "partial tree" ELSE Over(folder[dir], "part")]
    BY DEF CopyContents
  <2>4. /\ Over(folder[dir], src) \in FolderState
        /\ Over(folder[dir], "part") \in FolderState
        /\ "partial tree" \in FolderState
    BY <2>2, OverType
  <2>5. QED  BY <2>1, <2>3, <2>4, FolderType DEF TypeOK
<1>3. UNCHANGED <<software, executables, opened, arg, inflight, calls>>  BY DEF CopyContents, tables
<1>4. QED  BY <1>1, <1>2, <1>3 DEF TypeOK, ControlType

\* RemoveOld keeps the state typed.
LEMMA RemoveOldType ==
  ASSUME TypeOK, NEW c \in Callers, RemoveOld(c)
  PROVE  TypeOK'
<1> DEFINE dir == Dir(c, arg[c].name)
<1>1. dir \in Packages \X Names  BY DirType DEF TypeOK, Arg
<1>2. folder' \in [Packages \X Names -> FolderState] /\ ControlType'
  <2>1. CASE RemovalFails(c, dir)  BY <1>1, <2>1, RemovalFailsType
  <2>2. CASE ~RemovalFails(c, dir)
    <3>1. ControlType'
      BY <2>2, GotoType, EndType DEF RemoveOld, TypeOK, ControlType, Stage, Outcome
    <3>2. UNCHANGED folder \/ folder' = [folder EXCEPT ![dir] = "none"]  BY <2>2 DEF RemoveOld
    <3>3. folder' \in [Packages \X Names -> FolderState]  BY <3>2 DEF TypeOK, FolderState
    <3>4. QED  BY <3>1, <3>3
  <2>3. QED  BY <2>1, <2>2
<1>3. UNCHANGED <<software, executables, opened, arg, inflight, calls>>  BY DEF RemoveOld, tables
<1>4. QED  BY <1>2, <1>3 DEF TypeOK, ControlType

\* RemoveForReinstall keeps the state typed.
LEMMA RemoveForReinstallType ==
  ASSUME TypeOK, NEW c \in Callers, RemoveForReinstall(c)
  PROVE  TypeOK'
<1> DEFINE dir == Dir(c, arg[c].to)
<1>1. dir \in Packages \X Names  BY DirType DEF TypeOK, Arg
<1>2. folder' \in [Packages \X Names -> FolderState] /\ ControlType'
  <2>1. CASE RemovalFails(c, dir)  BY <1>1, <2>1, RemovalFailsType
  <2>2. CASE ~RemovalFails(c, dir)
    <3>1. ControlType'
      BY <2>2, GotoType, EndType DEF RemoveForReinstall, TypeOK, ControlType, Stage, Outcome
    <3>2. UNCHANGED folder \/ folder' = [folder EXCEPT ![dir] = "none"]  BY <2>2 DEF RemoveForReinstall
    <3>3. folder' \in [Packages \X Names -> FolderState]  BY <3>2 DEF TypeOK, FolderState
    <3>4. QED  BY <3>1, <3>3
  <2>3. QED  BY <2>1, <2>2
<1>3. UNCHANGED <<software, executables, opened, arg, inflight, calls>>  BY DEF RemoveForReinstall, tables
<1>4. QED  BY <1>2, <1>3 DEF TypeOK, ControlType

\* DeleteExecutables keeps the state typed.
LEMMA DeleteExecutablesType ==
  ASSUME TypeOK, NEW c \in Callers, DeleteExecutables(c)
  PROVE  TypeOK'
<1>1. ControlType'  BY GotoType, EndType DEF DeleteExecutables, TypeOK, ControlType, Stage, Outcome
<1>2. executables' \subseteq Executable
  BY DEF DeleteExecutables, TypeOK
<1>3. UNCHANGED <<software, folder, opened, arg, inflight, calls>>  BY DEF DeleteExecutables, tables
<1>4. QED  BY <1>1, <1>2, <1>3 DEF TypeOK, ControlType

\* DeleteExecutable keeps the state typed.
LEMMA DeleteExecutableType ==
  ASSUME TypeOK, NEW c \in Callers, DeleteExecutable(c)
  PROVE  TypeOK'
<1>1. ControlType'  BY GotoType, EndType DEF DeleteExecutable, TypeOK, ControlType, Stage, Outcome
<1>2. executables' \subseteq Executable
  BY DEF DeleteExecutable, TypeOK
<1>3. UNCHANGED <<software, folder, opened, arg, inflight, calls>>  BY DEF DeleteExecutable, tables
<1>4. QED  BY <1>1, <1>2, <1>3 DEF TypeOK, ControlType

\* RenameExecutable keeps the state typed.
LEMMA RenameExecutableType ==
  ASSUME TypeOK, ArgsRead, NEW c \in Callers, RenameExecutable(c)
  PROVE  TypeOK'
<1>1. ControlType'  BY GotoType, EndType DEF RenameExecutable, TypeOK, ControlType, Stage, Outcome
<1>2. executables' \subseteq Executable
  <2>1. at[c] = "renameExec" => arg[c].newExec \in Execs  BY DEF ArgsRead
  <2>2. at[c] = "renameExec" => \A x \in executables : [x EXCEPT !.name = arg[c].newExec] \in Executable
    BY <2>1 DEF Executable, TypeOK
  <2>3. QED  BY <2>2 DEF RenameExecutable, TypeOK
<1>3. UNCHANGED <<software, folder, opened, arg, inflight, calls>>  BY DEF RenameExecutable, tables
<1>4. QED  BY <1>1, <1>2, <1>3 DEF TypeOK, ControlType

\* FetchRecord keeps the state typed.
LEMMA FetchRecordType ==
  ASSUME TypeOK, NEW c \in Callers, FetchRecord(c)
  PROVE  TypeOK'
<1>1. ControlType'  BY GotoType, EndType DEF FetchRecord, TypeOK, ControlType, Stage, Outcome
<1>2. arg' \in [Callers -> Arg]
  <2> DEFINE b(id) == [arg[c] EXCEPT !.noAuto = software[id].noAuto]
  <2>1. ASSUME NEW id \in Lookup(PackageOf[c], arg[c].to) PROVE b(id) \in Arg
    <3>1. software[id] \in Row /\ arg[c] \in Arg  BY LookupRows DEF TypeOK
    <3>2. software[id].noAuto \in BOOLEAN  BY <3>1 DEF Row
    <3>3. QED  BY <3>1, <3>2 DEF Arg
  <2>2. \/ UNCHANGED arg
        \/ \E id \in Lookup(PackageOf[c], arg[c].to) : arg' = [arg EXCEPT ![c] = b(id)]
    BY DEF FetchRecord, TypeOK
  <2> HIDE DEF b
  <2>3. QED  BY <2>1, <2>2 DEF TypeOK
<1>3. UNCHANGED <<software, executables, folder, opened, inflight, calls>>  BY DEF FetchRecord, tables
<1>4. QED  BY <1>1, <1>2, <1>3 DEF TypeOK, ControlType

\* Refetch keeps the state typed.
LEMMA RefetchType ==
  ASSUME TypeOK, NEW c \in Callers, Refetch(c)
  PROVE  TypeOK'
<1>1. ControlType'  BY GotoType, EndType DEF Refetch, TypeOK, ControlType, Stage, Outcome
<1>2. arg' \in [Callers -> Arg]
  <2> DEFINE b(id) == [arg[c] EXCEPT !.noAuto = software[id].noAuto, !.type = software[id].type]
  <2>1. ASSUME NEW id \in Lookup(PackageOf[c], arg[c].to) PROVE b(id) \in Arg
    <3>1. software[id] \in Row /\ arg[c] \in Arg  BY LookupRows DEF TypeOK
    <3>2. software[id].noAuto \in BOOLEAN /\ software[id].type \in Types  BY <3>1 DEF Row
    <3>3. QED  BY <3>1, <3>2 DEF Arg
  <2>2. \/ UNCHANGED arg
        \/ \E id \in Lookup(PackageOf[c], arg[c].to) : arg' = [arg EXCEPT ![c] = b(id)]
    BY DEF Refetch, TypeOK
  <2> HIDE DEF b
  <2>3. QED  BY <2>1, <2>2 DEF TypeOK
<1>3. UNCHANGED <<software, executables, folder, opened, inflight, calls>>  BY DEF Refetch, tables
<1>4. QED  BY <1>1, <1>2, <1>3 DEF TypeOK, ControlType

\* A crash keeps the state typed.
LEMMA CrashType ==
  ASSUME TypeOK, NEW c \in Callers, Crash(c)
  PROVE  TypeOK'
<1>1. ControlType'  BY EndType DEF Crash, TypeOK, ControlType, Outcome
<1>2. inflight' \subseteq Statement /\ opened' \in [Callers -> BOOLEAN]  BY DEF Crash, TypeOK
<1>3. UNCHANGED <<software, executables, folder, arg, calls>>  BY DEF Crash, tables
<1>4. QED  BY <1>1, <1>2, <1>3 DEF TypeOK, ControlType

-----------------------------------------------------------------------------
\* Every step keeps the state typed.
LEMMA NextType == TypeOK /\ ArgsRead /\ [Next]_vars => TypeOK'
<1> SUFFICES ASSUME TypeOK, ArgsRead, [Next]_vars PROVE TypeOK'  OBVIOUS
<1>1. CASE UNCHANGED vars
  BY <1>1 DEF TypeOK, vars
<1>2. ASSUME NEW c \in Callers, Call(c)
      PROVE  TypeOK'
  BY <1>2, InstallType, RunInstallType, UninstallType, UpdateType, FindOwnerType DEF Call
<1>3. ASSUME NEW c \in Callers, Continue(c)
      PROVE  TypeOK'
  BY <1>3, InsertType, FindExecutableType, UpdateExecutableType, RollBackType,
     ExecutablesInsertedType, SkipDownloadType, StartDownloadType, WriteDownloadType,
     FinishDownloadType, ExtractType, MarkInstalledType, DeleteExecutablesType,
     DeleteSoftwareType, UpdateRowType, ExecutablesWrittenType, FetchRecordType,
     CopyContentsType, RemoveOldType,
     RemoveForReinstallType, RefetchType, DeleteExecutableType, RenameExecutableType
     DEF Continue, Pending
<1>4. QED
  BY <1>1, <1>2, <1>3, FailDownloadType, CrashType DEF Next

\* Every step keeps what the statements rely on.
LEMMA NextArgsRead == TypeOK /\ ArgsRead /\ [Next]_vars => ArgsRead'
<1> SUFFICES ASSUME TypeOK, ArgsRead, [Next]_vars PROVE ArgsRead'  OBVIOUS
<1> USE DEF ArgsRead
<1>0. at \in [Callers -> Stage] /\ arg \in [Callers -> Arg]  BY DEF TypeOK
<1>1. ASSUME NEW c \in Callers, NEW n \in Names, NEW t \in Types, NEW na \in BOOLEAN,
             NEW es \in ExecLists, InstallSoftware(c, n, t, na, es)
      PROVE  ArgsRead'
  <2>1. CASE End(c, "refused") /\ arg' = [arg EXCEPT ![c] = Blank("install", n)]
    BY <1>0, <2>1 DEF End
  <2>2. ASSUME NEW b, NEW id \in Fresh, b \in Arg, b.id = id,
               Goto(c, "insertExecs"), arg' = [arg EXCEPT ![c] = b]
        PROVE  ArgsRead'
    BY <1>0, <2>2 DEF Goto, Fresh
  <2>3. ASSUME NEW id \in Fresh
        PROVE  LET b == [Blank("install", n) EXCEPT !.id = id, !.type = t, !.noAuto = na,
                                              !.execs = {es[i] : i \in DOMAIN es}]
               IN  b \in Arg /\ b.id = id
    <3> DEFINE S == {es[i] : i \in DOMAIN es}
    <3>1. S \subseteq Execs  BY ListsAssumption
    <3>2. Blank("install", n) \in Arg  BY BlankType DEF OpName
    <3>3. id \in Ids  BY DEF Fresh
    <3> HIDE DEF S
    <3>4. [Blank("install", n) EXCEPT !.id = id, !.type = t, !.noAuto = na, !.execs = S] \in Arg
      BY <3>1, <3>2, <3>3 DEF Arg
    <3>5. [Blank("install", n) EXCEPT !.id = id, !.type = t, !.noAuto = na, !.execs = S].id = id
      BY <3>2 DEF Arg
    <3>6. QED  BY <3>4, <3>5 DEF S
  <2>4. QED
    BY <1>1, <2>1, <2>2, <2>3 DEF InstallSoftware
<1>2. ASSUME NEW i \in inflight, InsertExecutable(i) \/ FindExecutable(i) \/ UpdateExecutable(i)
      PROVE  ArgsRead'
  <2>1. UNCHANGED arg  BY <1>2 DEF InsertExecutable, FindExecutable, UpdateExecutable
  <2>2. UNCHANGED at \/ Reject(i)
    BY <1>2 DEF InsertExecutable, FindExecutable, UpdateExecutable
  <2>3. \A d \in Callers : at'[d] = at[d] \/ at'[d] \in {"idle", "rollback"}
    BY <1>0, <2>2 DEF Reject, Goto, End
  <2>4. QED  BY <2>1, <2>3
<1>3. ASSUME NEW c \in Callers, NEW n \in Names, NEW t \in Types, RunInstall(c, n, t)
      PROVE  ArgsRead'
  BY <1>0, <1>3 DEF RunInstall, Goto
<1>4. ASSUME NEW c \in Callers, NEW n \in Names, UninstallSoftware(c, n)
      PROVE  ArgsRead'
  <2>1. arg' = [arg EXCEPT ![c] = Blank("uninstall", n)]  BY <1>4 DEF UninstallSoftware
  <2>2. Goto(c, "deleteExecs") \/ End(c, "failed")  BY <1>4 DEF UninstallSoftware, RemovalFails
  <2>3. QED  BY <1>0, <2>1, <2>2 DEF Goto, End
<1>5. ASSUME NEW c \in Callers, NEW n \in Names, NEW to \in Names, NEW d \in Edits,
             UpdateSoftware(c, n, to, d)
      PROVE  ArgsRead'
  <2> DEFINE a == UpdateArg(c, n, to, d)
  <2>1. \A id : [a EXCEPT !.id = id].id = id  BY DEF UpdateArg, Blank
  <2> HIDE DEF a
  <2>2. CASE Goto(c, "fetch") /\ arg' = [arg EXCEPT ![c] = a]
    BY <1>0, <2>2 DEF Goto
  <2>3. CASE End(c, "not found") /\ arg' = [arg EXCEPT ![c] = a]
    BY <1>0, <2>3 DEF End
  <2>4. CASE /\ Goto(c, "updateRow")
             /\ \E id \in Lookup(PackageOf[c], n) : arg' = [arg EXCEPT ![c] = [a EXCEPT !.id = id]]
    BY <1>0, <2>1, <2>4, LookupRows DEF Goto
  <2>5. QED  BY <1>5, <2>2, <2>3, <2>4 DEF UpdateSoftware, UpdateArg, a
<1>6. ASSUME NEW c \in Callers, NEW op \in {"deleteExec", "renameExec"}, NEW n \in Names,
             NEW e \in Execs, NEW f \in Execs \cup {NoExec}, op = "renameExec" => f \in Execs, FindOwner(c, op, n, e, f)
      PROVE  ArgsRead'
  <2> DEFINE a == [Blank(op, n) EXCEPT !.exec = e, !.newExec = f]
  <2>1. \A id : [a EXCEPT !.id = id].id = id /\ [a EXCEPT !.id = id].newExec = f  BY DEF Blank
  <2> HIDE DEF a
  <2>2. CASE End(c, "not found") /\ arg' = [arg EXCEPT ![c] = a]
    BY <1>0, <2>2 DEF End
  <2>3. CASE /\ Goto(c, op)
             /\ \E id \in Lookup(PackageOf[c], n) : arg' = [arg EXCEPT ![c] = [a EXCEPT !.id = id]]
    BY <1>0, <1>6, <2>1, <2>3, LookupRows DEF Goto
  <2>4. QED  BY <1>6, <2>2, <2>3 DEF FindOwner, a
<1>7. ASSUME NEW c \in Callers, ExecutablesInserted(c) \/ ExecutablesWritten(c) \/ SkipDownload(c) \/ FailDownload(c) \/ Crash(c) \/ RollBack(c) \/ DeleteSoftware(c)
      PROVE  ArgsRead'
  BY <1>0, <1>7 DEF ExecutablesInserted, ExecutablesWritten, SkipDownload, FailDownload, Crash, RollBack, DeleteSoftware, Goto, End
<1>9. ASSUME NEW c \in Callers,
             \/ StartDownload(c) \/ WriteDownload(c) \/ FinishDownload(c) \/ Extract(c)
             \/ CopyContents(c) \/ RemoveOld(c) \/ RemoveForReinstall(c)
      PROVE  ArgsRead'
  <2>1. UNCHANGED arg
    BY <1>9 DEF StartDownload, WriteDownload, FinishDownload, Extract, CopyContents, RemoveOld, RemoveForReinstall
  <2>2. PICK s \in {"downloading", "writing", "extracting", "markInstalled", "removeOld",
                   "removeForReinstall", "refetch", "idle"} : at' = [at EXCEPT ![c] = s]
    BY <1>9 DEF StartDownload, WriteDownload, FinishDownload, Extract, CopyContents, RemoveOld, RemoveForReinstall, RemovalFails, Goto, End
  <2>3. QED  BY <1>0, <2>1, <2>2
<1>10. ASSUME NEW c \in Callers, MarkInstalled(c) \/ DeleteExecutables(c) \/ DeleteExecutable(c) \/ RenameExecutable(c)
       PROVE  ArgsRead'
  BY <1>0, <1>10 DEF MarkInstalled, DeleteExecutables, DeleteExecutable, RenameExecutable, Goto, End
<1>11. ASSUME NEW c \in Callers, UpdateRow(c)
       PROVE  ArgsRead'
  BY <1>0, <1>11 DEF UpdateRow, Goto, End, Arg
<1>12. ASSUME NEW c \in Callers,
              FetchRecord(c) \/ Refetch(c)
       PROVE  ArgsRead'
  <2>2. CASE FetchRecord(c)
    <3>1. /\ \A d \in Callers \ {c} : at'[d] = at[d] /\ arg'[d] = arg[d]
          /\ at'[c] \in {"idle", "copy", "removeForReinstall"}
      BY <1>0, <2>2 DEF FetchRecord, Goto, End
    <3>2. QED  BY <3>1
  <2>3. CASE Refetch(c)
    <3>1. /\ \A d \in Callers \ {c} : at'[d] = at[d] /\ arg'[d] = arg[d]
          /\ at'[c] \in {"idle", "runInstall"}
      BY <1>0, <2>3 DEF Refetch, Goto, End
    <3>2. QED  BY <3>1
  <2>4. QED  BY <1>12, <2>2, <2>3
<1>15. CASE UNCHANGED vars
  BY <1>15 DEF vars
<1>16. QED
  BY <1>1, <1>2, <1>3, <1>4, <1>5, <1>6, <1>7,  <1>9, <1>10, <1>11, <1>12, <1>15 DEF Next, Call, Continue, Pending

TypeInv == TypeOK /\ ArgsRead

\* The state is typed in every reachable state: a row that is updated, marked or
\* deleted is always a row, whatever other calls did since it was looked up.
THEOREM TypeCorrect == Spec => []TypeOK
<1>1. Init => TypeInv
  BY InitType DEF TypeInv, Init, ArgsRead
<1>2. TypeInv /\ [Next]_vars => TypeInv'
  BY NextType, NextArgsRead DEF TypeInv
<1>3. TypeInv => TypeOK
  BY DEF TypeInv
<1>4. QED
  BY <1>1, <1>2, <1>3, PTL DEF Spec

\* The strengthened type invariant, for the theorems below.
LEMMA TypeInvariance == Spec => []TypeInv
<1>1. Init => TypeInv
  BY InitType DEF TypeInv, Init, ArgsRead
<1>2. TypeInv /\ [Next]_vars => TypeInv'
  BY NextType, NextArgsRead DEF TypeInv
<1>3. QED
  BY <1>1, <1>2, PTL DEF Spec

-----------------------------------------------------------------------------
(* No duplicates.  The UNIQUE constraints are checked one statement at a time; *)
(* what has to be shown is that no other statement can produce a duplicate.    *)

UniqueRows ==
  \A i, j \in Rows : software[i].owner = software[j].owner /\ software[i].name = software[j].name
                       => i = j

UniqueExecutables ==
  \A x, y \in executables : x.softwareId = y.softwareId /\ x.name = y.name => x = y

\* The four things a step may do to the software table.
InsertsRow ==
  \E p \in Packages, n \in Names, id \in Ids \ Rows, r \in Row :
    /\ Lookup(p, n) = {}
    /\ r.owner = p /\ r.name = n
    /\ software' = [software EXCEPT ![id] = r]

DeletesRow ==
  \E p \in Packages, n \in Names :
    software' = [id \in Ids |-> IF id \in Lookup(p, n) THEN NoRow ELSE software[id]]

KeepsNames ==
  /\ Rows' = Rows
  /\ \A id \in Rows : /\ software'[id].owner = software[id].owner
                      /\ software'[id].name = software[id].name

RenamesRow ==
  \E id \in Rows, n \in Names, na \in BOOLEAN :
    /\ Lookup(software[id].owner, n) \ {id} = {}
    /\ software' = [software EXCEPT ![id].name = n, ![id].noAuto = na]

\* No row of the table is the mark of a missing one.
LEMMA RowIsRow == \A r \in Row : r # NoRow
<1>1. SUFFICES ASSUME NoRow \in Row PROVE FALSE  OBVIOUS
<1>2. DOMAIN NoRow = {"name"}  BY DEF NoRow
<1>3. \A r \in Row : "owner" \in DOMAIN r  BY DEF Row
<1>4. QED  BY <1>1, <1>2, <1>3

\* The INSERT of installSoftware, which finds no row of that name and owner,
\* keeps name and owner unique.
LEMMA InsertsRowUnique ==
  ASSUME TypeOK, TypeOK', UniqueRows, InsertsRow
  PROVE  UniqueRows'
<1>1. PICK p \in Packages, n \in Names, id \in Ids \ Rows, r \in Row :
         /\ Lookup(p, n) = {}
         /\ r.owner = p /\ r.name = n
         /\ software' = [software EXCEPT ![id] = r]
  BY DEF InsertsRow
<1>2. Rows' \subseteq Rows \cup {id} /\ software'[id] = r /\ \A k \in Rows : software'[k] = software[k]
  BY <1>1 DEF Rows, TypeOK
<1>3. \A k \in Rows : ~(software[k].owner = p /\ software[k].name = n)
  BY <1>1 DEF Lookup
<1>4. SUFFICES ASSUME NEW i \in Rows', NEW j \in Rows', i # j
               PROVE  ~(software'[i].owner = software'[j].owner /\ software'[i].name = software'[j].name)
  BY DEF UniqueRows
<1>5. CASE i = id  BY <1>1, <1>2, <1>3, <1>4, <1>5
<1>6. CASE j = id  BY <1>1, <1>2, <1>3, <1>4, <1>6
<1>7. CASE i # id /\ j # id  BY <1>2, <1>4, <1>7 DEF UniqueRows
<1>8. QED  BY <1>5, <1>6, <1>7

\* So does any statement that only removes rows or leaves their names alone.
LEMMA KeepsNamesUnique ==
  ASSUME TypeOK, UniqueRows, DeletesRow \/ KeepsNames
  PROVE  UniqueRows'
<1>1. Rows' \subseteq Rows  BY DEF DeletesRow, KeepsNames, Rows
<1>2. \A id \in Rows' : /\ software'[id].owner = software[id].owner
                        /\ software'[id].name = software[id].name
  BY DEF DeletesRow, KeepsNames, Rows
<1>3. QED  BY <1>1, <1>2 DEF UniqueRows

\* So does the UPDATE that renames a row, as UNIQUE finds the new name free.
LEMMA RenamesRowUnique ==
  ASSUME TypeOK, UniqueRows, RenamesRow
  PROVE  UniqueRows'
<1>1. PICK id \in Rows, n \in Names, na \in BOOLEAN :
         /\ Lookup(software[id].owner, n) \ {id} = {}
         /\ software' = [software EXCEPT ![id].name = n, ![id].noAuto = na]
  BY DEF RenamesRow
<1>2. id \in Ids /\ software[id] \in Row  BY LookupRows
<1>3. /\ software'[id].owner = software[id].owner
      /\ software'[id].name = n
      /\ \A k \in Ids \ {id} : software'[k] = software[k]
  BY <1>1, <1>2 DEF TypeOK, Row
<1>4. Rows' \subseteq Rows  BY <1>1, <1>2, <1>3 DEF Rows
<1>5. \A k \in Rows \ {id} : ~(software[k].owner = software[id].owner /\ software[k].name = n)
  BY <1>1 DEF Lookup
<1>6. Rows \subseteq Ids  BY LookupRows
<1>7. QED  BY <1>3, <1>4, <1>5, <1>6 DEF UniqueRows

\* A call begins by an INSERT into the software table, or leaves it alone.
LEMMA CallSoftware ==
  ASSUME TypeOK, NEW d \in Callers, Call(d)
  PROVE  UNCHANGED software \/ InsertsRow
<1>1. ASSUME NEW c \in Callers, NEW n \in Names, NEW t \in Types, NEW na \in BOOLEAN,
             NEW es \in ExecLists, InstallSoftware(c, n, t, na, es)
      PROVE  UNCHANGED software \/ InsertsRow
  <2>1. CASE Lookup(PackageOf[c], n) # {}  BY <1>1, <2>1 DEF InstallSoftware, tables
  <2>2. CASE Lookup(PackageOf[c], n) = {}
    <3>1. PICK id \in Fresh : software' = [software EXCEPT ![id] =
                [name |-> n, owner |-> PackageOf[c], installed |-> FALSE,
                 noAuto |-> na, type |-> t]]
      BY <1>1, <2>2 DEF InstallSoftware
    <3>2. id \in Ids \ Rows /\ PackageOf[c] \in Packages  BY CallerAssumption DEF Fresh
    <3>3. [name |-> n, owner |-> PackageOf[c], installed |-> FALSE, noAuto |-> na, type |-> t] \in Row
      BY <3>2 DEF Row
    <3>4. QED  BY <2>2, <3>1, <3>2, <3>3 DEF InsertsRow
  <2>3. QED  BY <2>1, <2>2
<1>2. QED
  BY <1>1 DEF Call, RunInstall, UninstallSoftware, UpdateSoftware, FindOwner, tables

\* A call goes on by a DELETE of a name, or an UPDATE, in particular not one of
\* a row deleted since its uuid was read.
LEMMA ContinueSoftware ==
  ASSUME TypeOK, NEW d \in Callers, Continue(d)
  PROVE  UNCHANGED software \/ DeletesRow \/ KeepsNames \/ RenamesRow
<1>2. ASSUME NEW c \in Callers, RollBack(c) \/ DeleteSoftware(c)
      PROVE  DeletesRow
  BY <1>2, CallerAssumption DEF RollBack, DeleteSoftware, DeletesRow, TypeOK, Arg
<1>3. ASSUME NEW c \in Callers, MarkInstalled(c)
      PROVE  UNCHANGED software \/ KeepsNames
  <2>1. \A id \in Rows : /\ [software[id] EXCEPT !.installed = TRUE].owner = software[id].owner
                         /\ [software[id] EXCEPT !.installed = TRUE].name = software[id].name
    BY LookupRows DEF Row
  <2>2. \A id \in Rows : [software[id] EXCEPT !.installed = TRUE] # NoRow
    BY LookupRows, RowIsRow DEF Row
  <2>3. CASE opened[c]
    <3>1. software' = [id \in Ids |-> IF id \in Rows /\ software[id].name = arg[c].to
                                      THEN [software[id] EXCEPT !.installed = TRUE]
                                      ELSE software[id]]
      BY <1>3, <2>3 DEF MarkInstalled
    <3>2. QED  BY <2>1, <2>2, <3>1 DEF KeepsNames, Rows
  <2>4. CASE ~opened[c]  BY <1>3, <2>4 DEF MarkInstalled
  <2>5. QED  BY <2>3, <2>4
<1>4. ASSUME NEW c \in Callers, UpdateRow(c)
      PROVE  UNCHANGED software \/ KeepsNames \/ RenamesRow
  <2> DEFINE id == arg[c].id
             na == IF arg[c].setNoAuto THEN arg[c].noAuto ELSE software[id].noAuto
  <2>1. arg[c] \in Arg  BY DEF TypeOK
  <2>2. SUFFICES ASSUME software' # software
                 PROVE  KeepsNames \/ RenamesRow
    OBVIOUS
  <2>3. /\ id \in Rows
        /\ software[id].owner = PackageOf[c]
        /\ arg[c].to # arg[c].name => Lookup(PackageOf[c], arg[c].to) \ {id} = {}
        /\ software' = [software EXCEPT
             ![id].name = IF arg[c].to # arg[c].name THEN arg[c].to ELSE @,
             ![id].noAuto = IF arg[c].setNoAuto THEN arg[c].noAuto ELSE @]
    BY <1>4, <2>2 DEF UpdateRow
  <2>4. software[id] \in Row /\ id \in Ids  BY <2>3, LookupRows
  <2>5. arg[c].to \in Names /\ na \in BOOLEAN  BY <2>1, <2>4 DEF Arg, Row
  <2>6. CASE arg[c].to # arg[c].name
    <3>1. software' = [software EXCEPT ![id].name = arg[c].to, ![id].noAuto = na]
      BY <2>3, <2>4, <2>6 DEF TypeOK, Row
    <3>2. QED  BY <2>3, <2>5, <2>6, <3>1 DEF RenamesRow
  <2>7. CASE arg[c].to = arg[c].name
    <3>1. /\ software'[id].owner = software[id].owner
          /\ software'[id].name = software[id].name
          /\ \A k \in Ids \ {id} : software'[k] = software[k]
      BY <2>3, <2>4, <2>7 DEF TypeOK, Row
    <3>2. software'[id] # NoRow  BY <2>3, <2>4, <2>5, <2>7, RowIsRow DEF TypeOK, Row
    <3>3. QED  BY <2>3, <3>1, <3>2 DEF KeepsNames, Rows
  <2>8. QED  BY <2>6, <2>7
<1>5. QED
  BY <1>2, <1>3, <1>4 DEF Continue, InsertExecutable, FindExecutable, UpdateExecutable,
     ExecutablesInserted, ExecutablesWritten, SkipDownload, StartDownload, WriteDownload,
     FinishDownload, Extract, DeleteExecutables, FetchRecord, CopyContents, RemoveOld,
     RemoveForReinstall, Refetch, DeleteExecutable, RenameExecutable, tables

\* No step of the code does anything else to the software table.
LEMMA SoftwareSteps ==
  ASSUME TypeOK, Next
  PROVE  UNCHANGED software \/ InsertsRow \/ DeletesRow \/ KeepsNames \/ RenamesRow
BY CallSoftware, ContinueSoftware DEF Next, FailDownload, Crash, tables

\* The three things a step may do to the executables table.
InsertsExecutable ==
  \E x \in Executable : /\ ~HasExec(x.softwareId, x.name)
                        /\ executables' = executables \cup {x}

RemovesExecutables == executables' \subseteq executables

\* Rows for one name of one piece of software give way to rows of one other name.
ReplacesExecutable ==
  \E x \in Executable, old \in SUBSET executables :
    /\ \A y \in executables : y.softwareId = x.softwareId /\ y.name = x.name => y \in old
    /\ executables' = (executables \ old) \cup {x}

\* Each of them keeps executable names unique within their software.
LEMMA ExecutablesUnique ==
  ASSUME TypeOK, UniqueExecutables, InsertsExecutable \/ RemovesExecutables \/ ReplacesExecutable
  PROVE  UniqueExecutables'
<1>1. CASE InsertsExecutable
  BY <1>1 DEF InsertsExecutable, UniqueExecutables, HasExec
<1>2. CASE RemovesExecutables
  BY <1>2 DEF RemovesExecutables, UniqueExecutables
<1>3. CASE ReplacesExecutable
  <2>1. PICK x \in Executable, old \in SUBSET executables :
          /\ \A y \in executables : y.softwareId = x.softwareId /\ y.name = x.name => y \in old
          /\ executables' = (executables \ old) \cup {x}
    BY <1>3 DEF ReplacesExecutable
  <2>2. QED  BY <2>1 DEF UniqueExecutables
<1>4. QED  BY <1>1, <1>2, <1>3

\* No step of the code does anything else to the executables table: neither an
\* INSERT that outlives its install nor one decided on a SELECT now stale.
LEMMA ExecutablesSteps ==
  ASSUME TypeInv, UniqueExecutables, Next
  PROVE  InsertsExecutable \/ RemovesExecutables \/ ReplacesExecutable
<1>1. ASSUME NEW i \in inflight, InsertExecutable(i) \/ FindExecutable(i)
      PROVE  InsertsExecutable \/ RemovesExecutables
  <2>1. i.row \in Executable  BY StatementFacts DEF TypeInv
  <2>2. QED
    BY <1>1, <2>1 DEF InsertExecutable, FindExecutable, InsertsExecutable, RemovesExecutables, tables
<1>2. ASSUME NEW c \in Callers, DeleteExecutables(c) \/ DeleteExecutable(c)
      PROVE  RemovesExecutables
  BY <1>2 DEF DeleteExecutables, DeleteExecutable, RemovesExecutables
<1>3. ASSUME NEW i \in inflight, UpdateExecutable(i)
      PROVE  RemovesExecutables \/ ReplacesExecutable
  <2> DEFINE new == i.row
             old == {x \in executables : x.softwareId = new.softwareId /\ x.name = new.name}
  <2>1. new \in Executable  BY StatementFacts DEF TypeInv
  <2>2. executables' = {IF i.path /\ x.softwareId = new.softwareId /\ x.name = new.name
                        THEN new ELSE x : x \in executables}
    BY <1>3 DEF UpdateExecutable
  <2>3. CASE ~i.path \/ old = {}  BY <2>2, <2>3 DEF RemovesExecutables
  <2>4. CASE i.path /\ old # {}
    <3>1. executables' = (executables \ old) \cup {new}  BY <2>2, <2>4
    <3>2. \A y \in executables : y.softwareId = new.softwareId /\ y.name = new.name => y \in old
      OBVIOUS
    <3>3. QED  BY <2>1, <3>1, <3>2 DEF ReplacesExecutable
  <2>5. QED  BY <2>3, <2>4
<1>4. ASSUME NEW c \in Callers, RenameExecutable(c)
      PROVE  RemovesExecutables \/ ReplacesExecutable
  <2> DEFINE id == arg[c].id
             new == arg[c].newExec
             old == {x \in executables : x.softwareId = id /\ x.name = arg[c].exec}
             clash == new # arg[c].exec /\ HasExec(id, new)
  <2>1. at[c] = "renameExec"  BY <1>4 DEF RenameExecutable
  <2>2. new \in Execs  BY <2>1 DEF TypeInv, ArgsRead
  <2>3. CASE old # {} /\ clash
    BY <1>4, <2>3 DEF RenameExecutable, RemovesExecutables
  <2>4. CASE old = {}
    <3>1. executables' = executables  BY <1>4, <2>4 DEF RenameExecutable
    <3>2. QED  BY <3>1 DEF RemovesExecutables
  <2>5. CASE old # {} /\ ~clash
    <3>1. PICK x \in old : TRUE  BY <2>5
    <3>2. old = {x}  BY <3>1 DEF UniqueExecutables
    <3>3. executables' = (executables \ old) \cup {[x EXCEPT !.name = new]}
      BY <1>4, <2>5, <3>2 DEF RenameExecutable
    <3>4. x \in Executable  BY <3>1 DEF TypeInv, TypeOK
    <3>5. /\ [x EXCEPT !.name = new] \in Executable
          /\ [x EXCEPT !.name = new].name = new
          /\ [x EXCEPT !.name = new].softwareId = id
      BY <2>2, <3>1, <3>4 DEF Executable
    <3>6. \A y \in executables : y.softwareId = id /\ y.name = new => y \in old
      BY <2>5 DEF HasExec
    <3>7. QED  BY <3>3, <3>5, <3>6 DEF ReplacesExecutable
  <2>6. QED  BY <2>3, <2>4, <2>5
<1>5. ASSUME NEW c \in Callers, Call(c)
      PROVE  RemovesExecutables
  BY <1>5 DEF Call, InstallSoftware, RunInstall, UninstallSoftware, UpdateSoftware, FindOwner,
     RemovesExecutables, tables
<1>6. ASSUME NEW c \in Callers, Continue(c)
      PROVE  InsertsExecutable \/ RemovesExecutables \/ ReplacesExecutable
  BY <1>1, <1>2, <1>3, <1>4, <1>6 DEF Continue, Pending, RollBack, ExecutablesInserted,
     ExecutablesWritten, SkipDownload, StartDownload, WriteDownload, FinishDownload, Extract,
     MarkInstalled, DeleteSoftware, UpdateRow, FetchRecord, CopyContents, RemoveOld,
     RemoveForReinstall, Refetch, RemovesExecutables, tables
<1>7. QED
  BY <1>5, <1>6 DEF Next, FailDownload, Crash, RemovesExecutables, tables

\* Neither table ever holds duplicates, whatever calls interleave.
THEOREM DuplicatesExcluded == Spec => []NoDuplicates
<1> DEFINE Unique == UniqueRows /\ UniqueExecutables
<1>1. Init => Unique
  BY DEF Init, UniqueRows, UniqueExecutables, Rows
<1>2. TypeInv /\ TypeInv' /\ Unique /\ [Next]_vars => Unique'
  <2> SUFFICES ASSUME TypeInv, TypeInv', UniqueRows, UniqueExecutables, [Next]_vars
               PROVE  UniqueRows' /\ UniqueExecutables'
    OBVIOUS
  <2>1. CASE UNCHANGED vars
    BY <2>1 DEF vars, UniqueRows, UniqueExecutables, Rows
  <2>2. CASE Next
    <3>1. UNCHANGED software => UniqueRows'  BY DEF UniqueRows, Rows
    <3>2. UniqueRows'
      BY <2>2, <3>1, SoftwareSteps, InsertsRowUnique, KeepsNamesUnique, RenamesRowUnique
         DEF TypeInv
    <3>3. UniqueExecutables'
      BY <2>2, ExecutablesSteps, ExecutablesUnique DEF TypeInv
    <3>4. QED  BY <3>2, <3>3
  <2>3. QED  BY <2>1, <2>2
<1>3. Unique => NoDuplicates
  BY DEF UniqueRows, UniqueExecutables, NoDuplicates
<1>4. QED
  BY <1>1, <1>2, <1>3, TypeInvariance, PTL DEF Spec

-----------------------------------------------------------------------------
(* The table refines the catalogue: each kind of step above is one of its   *)
(* steps, or leaves every entry as it is.                                    *)

\* An entry is a package and a name where there is a row.
LEMMA EntryOf ==
  ASSUME TypeOK
  PROVE  \A id \in Ids :
           /\ id \in Rows => entry[id] = <<software[id].owner, software[id].name>>
           /\ id \notin Rows => entry[id] = NoId
           /\ id \in Rows => /\ software[id].owner \in Packages
                             /\ software[id].name \in Names
                             /\ entry[id] # NoId
<1>1. \A id \in Rows : software[id].owner \in Packages /\ software[id].name \in Names
  BY LookupRows DEF Row
<1>2. \A p \in Packages, n \in Names : <<p, n>> # NoId
  BY NoIdAssumption
<1>3. QED  BY <1>1, <1>2 DEF entry

\* A name no row of the package has is free in the catalogue.
LEMMA FreeInCatalogue ==
  ASSUME TypeOK, NEW p \in Packages, NEW n \in Names, Lookup(p, n) = {}
  PROVE  Catalogue!Free(p, n)
<1>1. SUFFICES ASSUME NEW id \in Ids, entry[id] = <<p, n>>
               PROVE  FALSE
  BY DEF Catalogue!Free
<1>2. id \in Rows  BY <1>1, EntryOf, NoIdAssumption
<1>3. software[id].owner = p /\ software[id].name = n  BY <1>1, <1>2, EntryOf
<1>4. QED  BY <1>2, <1>3 DEF Lookup

\* An INSERT registers.
LEMMA InsertRegisters ==
  ASSUME TypeOK, TypeOK', InsertsRow
  PROVE  Catalogue!Next
<1>1. PICK p \in Packages, n \in Names, id \in Ids \ Rows, r \in Row :
         /\ Lookup(p, n) = {}
         /\ r.owner = p /\ r.name = n
         /\ software' = [software EXCEPT ![id] = r]
  BY DEF InsertsRow
<1>2. entry[id] = NoId /\ Catalogue!Free(p, n)  BY <1>1, EntryOf, FreeInCatalogue
<1>3. entry' = [entry EXCEPT ![id] = <<p, n>>]
  BY <1>1, RowIsRow DEF entry, Rows, TypeOK
<1>4. QED  BY <1>2, <1>3 DEF Catalogue!Next, Catalogue!Register

\* A DELETE by owner and name removes one entry, for there is one at the most.
LEMMA DeleteRemoves ==
  ASSUME TypeOK, UniqueRows, DeletesRow
  PROVE  Catalogue!Next \/ UNCHANGED entry
<1>1. PICK p \in Packages, n \in Names :
         software' = [id \in Ids |-> IF id \in Lookup(p, n) THEN NoRow ELSE software[id]]
  BY DEF DeletesRow
<1>2. CASE Lookup(p, n) = {}
  <2>1. Rows' = Rows /\ \A id \in Rows : software'[id] = software[id]  BY <1>1, <1>2 DEF Rows
  <2>2. QED  BY <2>1 DEF entry
<1>3. CASE Lookup(p, n) # {}
  <2>1. PICK id \in Lookup(p, n) : TRUE  BY <1>3
  <2>2. Lookup(p, n) = {id}  BY <2>1 DEF Lookup, UniqueRows
  <2>3. id \in Ids /\ id \in Rows  BY <2>1, LookupRows
  <2>4. /\ software'[id] = NoRow
        /\ \A k \in Ids \ {id} : software'[k] = software[k]
    BY <1>1, <2>2, <2>3
  <2>5. entry' = [entry EXCEPT ![id] = NoId]  BY <2>3, <2>4 DEF entry, Rows
  <2>6. QED  BY <2>3, <2>5, EntryOf DEF Catalogue!Next, Catalogue!Remove
<1>4. QED  BY <1>2, <1>3

\* A statement that leaves rows and their names alone leaves the catalogue alone.
LEMMA KeepsEntries ==
  ASSUME TypeOK, KeepsNames
  PROVE  UNCHANGED entry
BY DEF KeepsNames, entry

\* An UPDATE of the name renames; one that gives the name the row has leaves
\* the catalogue alone.
LEMMA RenameRenames ==
  ASSUME TypeOK, RenamesRow
  PROVE  Catalogue!Next \/ UNCHANGED entry
<1>1. PICK id \in Rows, n \in Names, na \in BOOLEAN :
         /\ Lookup(software[id].owner, n) \ {id} = {}
         /\ software' = [software EXCEPT ![id].name = n, ![id].noAuto = na]
  BY DEF RenamesRow
<1>2. id \in Ids /\ software[id] \in Row  BY LookupRows
<1>3. /\ software'[id].owner = software[id].owner
      /\ software'[id].name = n
      /\ software'[id] \in Row
      /\ \A k \in Ids \ {id} : software'[k] = software[k]
  BY <1>1, <1>2 DEF TypeOK, Row
<1>4. Rows' = Rows  BY <1>2, <1>3, RowIsRow DEF Rows
<1>5. entry' = [entry EXCEPT ![id] = <<software[id].owner, n>>]
  BY <1>2, <1>3, <1>4 DEF entry
<1>6. entry[id] = <<software[id].owner, software[id].name>> /\ entry[id] # NoId
  BY <1>2, EntryOf
<1>7. CASE software[id].name = n
  BY <1>2, <1>5, <1>6, <1>7 DEF entry
<1>8. CASE software[id].name # n
  <2>1. Lookup(software[id].owner, n) = {}  BY <1>1, <1>8 DEF Lookup
  <2>2. Catalogue!Free(software[id].owner, n)  BY <1>2, <2>1, FreeInCatalogue DEF Row
  <2>3. entry[id][1] = software[id].owner  BY <1>6
  <2>4. Catalogue!Rename(id, n)  BY <1>5, <1>6, <2>2, <2>3 DEF Catalogue!Rename
  <2>5. QED  BY <1>2, <2>4 DEF Catalogue!Next
<1>9. QED  BY <1>7, <1>8

\* Whatever the calls do, the table registers, renames and removes software one
\* piece at a time, and a uuid never passes to another package.
THEOREM RefinesCatalogue == Spec => ImplementsCatalogue
<1>1. Init => UniqueRows /\ Catalogue!Init
  BY DEF Init, UniqueRows, Rows, entry, Catalogue!Init
<1>2. TypeInv /\ UniqueRows /\ [Next]_vars => UniqueRows'
  <2> SUFFICES ASSUME TypeInv, UniqueRows, [Next]_vars
               PROVE  UniqueRows'
    OBVIOUS
  <2>1. CASE UNCHANGED software  BY <2>1 DEF UniqueRows, Rows
  <2>2. CASE Next
    <3>1. TypeOK'  BY <2>2, NextType DEF TypeInv
    <3>2. QED
      BY <2>1, <2>2, <3>1, SoftwareSteps, InsertsRowUnique, KeepsNamesUnique, RenamesRowUnique
         DEF TypeInv
  <2>3. QED  BY <2>1, <2>2 DEF vars
<1>3. TypeInv /\ TypeInv' /\ UniqueRows /\ [Next]_vars => [Catalogue!Next]_entry
  <2> SUFFICES ASSUME TypeInv, TypeInv', UniqueRows, [Next]_vars
               PROVE  Catalogue!Next \/ UNCHANGED entry
    OBVIOUS
  <2>1. CASE UNCHANGED software  BY <2>1 DEF entry, Rows
  <2>2. CASE Next
    BY <2>1, <2>2, SoftwareSteps, InsertRegisters, DeleteRemoves, KeepsEntries, RenameRenames
       DEF TypeInv
  <2>3. QED  BY <2>1, <2>2 DEF vars
<1>4. QED
  BY <1>1, <1>2, <1>3, TypeInvariance, PTL DEF Spec, ImplementsCatalogue, Catalogue!Spec

-----------------------------------------------------------------------------
(* Isolation: uuids are never passed from one package to another, so a call  *)
(* that goes on with a uuid it read works on its own package's software.     *)

Owned ==
  /\ \A c \in Callers : arg[c].id \in Rows => software[arg[c].id].owner = PackageOf[c]
  /\ \A i \in inflight :
       i.row.softwareId \in Rows => software[i.row.softwareId].owner = PackageOf[i.caller]

\* A call reads a uuid of its own package, or makes one nothing mentions.
LEMMA CallOwned ==
  ASSUME TypeOK, Owned, NEW c \in Callers, Call(c)
  PROVE  Owned'
<1>1. ASSUME NEW a, a.id \in {NoId} \cup Rows,
             a.id \in Rows => software[a.id].owner = PackageOf[c],
             arg' = [arg EXCEPT ![c] = a], UNCHANGED <<software, inflight>>
      PROVE  Owned'
  BY <1>1 DEF Owned, Rows, TypeOK
<1>2. ASSUME NEW n \in Names, NEW op \in OpName
      PROVE  Blank(op, n) \in Arg /\ Blank(op, n).id = NoId /\ NoId \notin Rows
  BY <1>2, BlankType, NoIdAssumption DEF Blank, Rows
<1>3. ASSUME NEW n \in Names, NEW t \in Types, NEW na \in BOOLEAN, NEW es \in ExecLists,
             InstallSoftware(c, n, t, na, es)
      PROVE  Owned'
  <2>1. CASE Lookup(PackageOf[c], n) # {}
    BY <1>1, <1>2, <1>3, <2>1 DEF InstallSoftware, tables, OpName
  <2>2. CASE Lookup(PackageOf[c], n) = {}
    <3> DEFINE S == {es[i] : i \in DOMAIN es}
    <3> HIDE DEF S
    <3>1. PICK id \in Fresh :
             /\ software' = [software EXCEPT ![id] =
                  [name |-> n, owner |-> PackageOf[c], installed |-> FALSE,
                   noAuto |-> na, type |-> t]]
             /\ inflight' = inflight \cup
                  {[caller |-> c, call |-> calls, slot |-> i, step |-> "insert", path |-> TRUE,
                    row |-> [name |-> es[i], softwareId |-> id, folder |-> n]] : i \in DOMAIN es}
             /\ arg' = [arg EXCEPT ![c] =
                  [Blank("install", n) EXCEPT !.id = id, !.type = t, !.noAuto = na, !.execs = S]]
      BY <1>3, <2>2 DEF InstallSoftware, S
    <3>2. /\ id \in Ids /\ id \notin Rows
          /\ \A i \in inflight : i.row.softwareId # id
          /\ \A d \in Callers : arg[d].id # id
      BY DEF Fresh
    <3>3. /\ software'[id].owner = PackageOf[c]
          /\ \A k \in Ids \ {id} : software'[k] = software[k]
      BY <3>1, <3>2 DEF TypeOK
    <3>4. arg'[c].id = id /\ \A d \in Callers \ {c} : arg'[d] = arg[d]
      <4>1. Blank("install", n) \in Arg  BY <1>2 DEF OpName
      <4>2. QED  BY <3>1, <4>1 DEF TypeOK, Arg
    <3>5. \A d \in Callers : arg'[d].id \in Rows' => software'[arg'[d].id].owner = PackageOf[d]
      BY <3>2, <3>3, <3>4 DEF Owned, Rows
    <3>6. \A i \in inflight' : i \in inflight \/ (i.caller = c /\ i.row.softwareId = id)
      BY <3>1
    <3>7. \A i \in inflight' :
            i.row.softwareId \in Rows' => software'[i.row.softwareId].owner = PackageOf[i.caller]
      BY <3>2, <3>3, <3>6 DEF Owned, Rows
    <3>8. QED  BY <3>5, <3>7 DEF Owned
  <2>3. QED  BY <2>1, <2>2
<1>4. ASSUME NEW n \in Names, NEW t \in Types, RunInstall(c, n, t)
      PROVE  Owned'
  <2>1. [Blank("runInstall", n) EXCEPT !.type = t].id = NoId
    BY <1>2 DEF OpName, Arg
  <2>2. QED  BY <1>1, <1>2, <1>4, <2>1 DEF RunInstall, tables, OpName
<1>5. ASSUME NEW n \in Names, UninstallSoftware(c, n)
      PROVE  Owned'
  BY <1>1, <1>2, <1>5 DEF UninstallSoftware, tables, OpName
<1>6. ASSUME NEW a \in Arg, a.id = NoId, NEW n \in Names, UNCHANGED <<software, inflight>>,
             \/ arg' = [arg EXCEPT ![c] = a]
             \/ \E id \in Lookup(PackageOf[c], n) : arg' = [arg EXCEPT ![c] = [a EXCEPT !.id = id]]
      PROVE  Owned'
  <2>1. CASE arg' = [arg EXCEPT ![c] = a]
    BY <1>1, <1>6, <2>1, NoIdAssumption DEF Rows
  <2>2. ASSUME NEW id \in Lookup(PackageOf[c], n), arg' = [arg EXCEPT ![c] = [a EXCEPT !.id = id]]
        PROVE  Owned'
    <3>1. [a EXCEPT !.id = id].id = id  BY <1>6 DEF Arg
    <3>2. id \in Rows /\ software[id].owner = PackageOf[c]  BY <2>2 DEF Lookup
    <3>3. QED  BY <1>1, <1>6, <2>2, <3>1, <3>2
  <2>3. QED  BY <1>6, <2>1, <2>2
<1>7. ASSUME NEW n \in Names, NEW to \in Names, NEW d \in Edits, UpdateSoftware(c, n, to, d)
      PROVE  Owned'
  <2> DEFINE a == UpdateArg(c, n, to, d)
  <2>1. a \in Arg /\ a.id = NoId  BY UpdateArgType
  <2> HIDE DEF a
  <2>2. \/ arg' = [arg EXCEPT ![c] = a]
        \/ \E id \in Lookup(PackageOf[c], n) : arg' = [arg EXCEPT ![c] = [a EXCEPT !.id = id]]
    BY <1>7 DEF UpdateSoftware, UpdateArg, a
  <2>3. UNCHANGED <<software, inflight>>  BY <1>7 DEF UpdateSoftware, tables
  <2>4. QED  BY <1>6, <2>1, <2>2, <2>3
<1>8. ASSUME NEW op \in {"deleteExec", "renameExec"}, NEW n \in Names, NEW e \in Execs,
             NEW f \in Execs \cup {NoExec}, FindOwner(c, op, n, e, f)
      PROVE  Owned'
  <2> DEFINE a == [Blank(op, n) EXCEPT !.exec = e, !.newExec = f]
  <2>1. a \in Arg /\ a.id = NoId
    <3>1. Blank(op, n) \in Arg /\ Blank(op, n).id = NoId  BY <1>2 DEF OpName
    <3>2. QED  BY <3>1 DEF Arg
  <2> HIDE DEF a
  <2>2. \/ arg' = [arg EXCEPT ![c] = a]
        \/ \E id \in Lookup(PackageOf[c], n) : arg' = [arg EXCEPT ![c] = [a EXCEPT !.id = id]]
    BY <1>8 DEF FindOwner, a
  <2>3. UNCHANGED <<software, inflight>>  BY <1>8 DEF FindOwner, tables
  <2>4. QED  BY <1>6, <2>1, <2>2, <2>3
<1>9. QED
  BY <1>3, <1>4, <1>5, <1>7, <1>8 DEF Call

\* A call that goes on keeps its uuid, sends statements about that uuid only, and
\* no row changes hands.
LEMMA ContinueOwned ==
  ASSUME TypeInv, Owned, NEW c \in Callers, Continue(c) \/ FailDownload(c) \/ Crash(c)
  PROVE  Owned'
<1>0. TypeOK  BY DEF TypeInv
<1>1. \A d \in Callers : arg'[d].id = arg[d].id
  <2>1. ASSUME NEW x, NEW t, \/ arg' = [arg EXCEPT ![c].noAuto = x]
                             \/ arg' = [arg EXCEPT ![c].noAuto = x, ![c].type = t]
        PROVE  \A d \in Callers : arg'[d].id = arg[d].id
    <3>1. arg[c] \in Arg /\ arg \in [Callers -> Arg]  BY <1>0 DEF TypeOK
    <3>2. arg'[c].id = arg[c].id  BY <2>1, <3>1 DEF Arg
    <3>3. \A d \in Callers \ {c} : arg'[d] = arg[d]  BY <2>1, <3>1
    <3>4. QED  BY <3>2, <3>3
  <2>2. FetchRecord(c) \/ Refetch(c) \/ UNCHANGED arg
    BY DEF Continue, FailDownload, Crash, InsertExecutable, FindExecutable, UpdateExecutable, RollBack,
       ExecutablesInserted, ExecutablesWritten, SkipDownload, StartDownload, WriteDownload,
       FinishDownload, Extract, MarkInstalled, DeleteExecutables, DeleteSoftware, UpdateRow,
       CopyContents, RemoveOld, RemoveForReinstall, DeleteExecutable, RenameExecutable
  <2>3. FetchRecord(c) => \A d \in Callers : arg'[d].id = arg[d].id
    BY <2>1 DEF FetchRecord
  <2>4. Refetch(c) => \A d \in Callers : arg'[d].id = arg[d].id
    BY <2>1 DEF Refetch
  <2>5. QED  BY <2>2, <2>3, <2>4
<1>2. \A i \in inflight' :
        \/ \E j \in inflight : i.caller = j.caller /\ i.row = j.row
        \/ i.caller = c /\ i.row.softwareId = arg[c].id
  <2>1. ASSUME NEW j \in Pending(c), FindExecutable(j)
        PROVE  \A i \in inflight' : \E k \in inflight : i.caller = k.caller /\ i.row = k.row
    <3>1. j \in inflight  BY <2>1 DEF FindExecutable
    <3>2. \A step : /\ [j EXCEPT !.step = step].caller = j.caller
                    /\ [j EXCEPT !.step = step].row = j.row
      BY <1>0, <3>1, StatementFacts DEF Statement
    <3>3. \/ inflight' = inflight \ {j}
          \/ \E step : inflight' = (inflight \ {j}) \cup {[j EXCEPT !.step = step]}
      BY <2>1 DEF FindExecutable
    <3>4. QED  BY <3>1, <3>2, <3>3
  <2>2. UpdateRow(c) => \A i \in inflight' : i \in inflight \/ (i.caller = c /\ i.row.softwareId = arg[c].id)
    <3>1. SUFFICES ASSUME UpdateRow(c), NEW i \in inflight', i \notin inflight
                   PROVE  i.caller = c /\ i.row.softwareId = arg[c].id
      OBVIOUS
    <3>2. arg[c].id \in Ids  BY <3>1 DEF UpdateRow, TypeInv, ArgsRead
    <3>3. i \in Selects(c)  BY <3>1 DEF UpdateRow
    <3>4. QED  BY <1>0, <3>2, <3>3, SelectsType
  <2>3. \/ inflight' \subseteq inflight
        \/ UpdateRow(c)
        \/ \E j \in Pending(c) : FindExecutable(j)
    BY DEF Continue, FailDownload, Crash, InsertExecutable, UpdateExecutable, RollBack,
       ExecutablesInserted, ExecutablesWritten, SkipDownload, StartDownload, WriteDownload,
       FinishDownload, Extract, MarkInstalled, DeleteExecutables, DeleteSoftware, FetchRecord,
       CopyContents, RemoveOld, RemoveForReinstall, Refetch, DeleteExecutable, RenameExecutable
  <2>4. QED  BY <2>1, <2>2, <2>3
<1>3. \A id \in Rows' : id \in Rows /\ software'[id].owner = software[id].owner
  <2>1. CASE UNCHANGED software \/ DeletesRow \/ KeepsNames
    BY <2>1 DEF DeletesRow, KeepsNames, Rows
  <2>2. CASE RenamesRow
    <3>1. PICK id \in Rows, n \in Names, na \in BOOLEAN :
             software' = [software EXCEPT ![id].name = n, ![id].noAuto = na]
      BY <2>2 DEF RenamesRow
    <3>2. id \in Ids /\ software[id] \in Row  BY <1>0, LookupRows
    <3>3. /\ software'[id].owner = software[id].owner
          /\ \A k \in Ids \ {id} : software'[k] = software[k]
      BY <1>0, <3>1, <3>2 DEF TypeOK, Row
    <3>4. QED  BY <3>3 DEF Rows
  <2>3. FailDownload(c) \/ Crash(c) => UNCHANGED software
    BY DEF FailDownload, Crash, tables
  <2>4. QED  BY <1>0, <2>1, <2>2, <2>3, ContinueSoftware
<1>4. QED  BY <1>1, <1>2, <1>3 DEF Owned

LEMMA OwnedStep == TypeInv /\ Owned /\ [Next]_vars => Owned'
<1>1. ASSUME UNCHANGED vars, Owned PROVE Owned'  BY <1>1 DEF vars, Owned, Rows
<1>2. QED  BY <1>1, CallOwned, ContinueOwned DEF TypeInv, Next

-----------------------------------------------------------------------------
(* What a step of another package's caller leaves alone. *)

RowsKept(p) ==
  \A id \in Ids :
    \/ /\ id \in Rows /\ id \in Rows'
       /\ software'[id].owner = software[id].owner
       /\ software'[id].name = software[id].name
       /\ software'[id].noAuto = software[id].noAuto
       /\ software[id].installed => software'[id].installed
    \/ id \notin OwnIds(p) /\ id \notin OwnIds(p)'

ExecutablesKept(p) ==
  \A x \in executables \cup executables' :
    x.softwareId \in OwnIds(p) => (x \in executables <=> x \in executables')

FoldersKept(p) == \A n \in Names : folder'[<<p, n>>] = folder[<<p, n>>]

LEMMA KeptIsUnchanged ==
  ASSUME NEW p, RowsKept(p), ExecutablesKept(p), FoldersKept(p)
  PROVE  UNCHANGED <<OwnRows(p), OwnExecutables(p), OwnFolders(p)>>
<1>1. OwnIds(p)' = OwnIds(p)  BY DEF RowsKept, OwnIds, Rows
<1>2. OwnRows(p)' = OwnRows(p)
  <2>1. \A id \in OwnIds(p) : /\ software'[id].name = software[id].name
                              /\ software'[id].noAuto = software[id].noAuto
    BY DEF RowsKept, OwnIds, Rows
  <2>2. QED  BY <1>1, <2>1 DEF OwnRows
<1>3. OwnExecutables(p)' = OwnExecutables(p)
  BY <1>1 DEF OwnExecutables, ExecutablesKept
<1>4. OwnFolders(p)' = OwnFolders(p)
  BY DEF OwnFolders, FoldersKept
<1>5. QED  BY <1>2, <1>3, <1>4

\* The rows of other packages.
LEMMA OthersRows ==
  ASSUME TypeOK, NEW c \in Callers, Call(c) \/ Continue(c) \/ FailDownload(c) \/ Crash(c),
         NEW p \in Packages, p # PackageOf[c]
  PROVE  RowsKept(p)
<1>1. ASSUME UNCHANGED software PROVE RowsKept(p)
  BY <1>1 DEF RowsKept, OwnIds, Rows
<1>2. ASSUME NEW n \in Names, NEW t \in Types, NEW na \in BOOLEAN, NEW es \in ExecLists,
             InstallSoftware(c, n, t, na, es), software' # software
      PROVE  RowsKept(p)
  <2>1. PICK id \in Fresh : software' = [software EXCEPT ![id] =
              [name |-> n, owner |-> PackageOf[c], installed |-> FALSE,
               noAuto |-> na, type |-> t]]
    BY <1>2 DEF InstallSoftware, tables
  <2>2. id \in Ids /\ id \notin Rows  BY DEF Fresh
  <2>3. /\ software'[id].owner = PackageOf[c]
        /\ \A k \in Ids \ {id} : software'[k] = software[k]
    BY <2>1, <2>2 DEF TypeOK
  <2>4. QED  BY <2>2, <2>3 DEF RowsKept, OwnIds, Rows
<1>3. ASSUME RollBack(c) \/ DeleteSoftware(c)
      PROVE  RowsKept(p)
  BY <1>3 DEF RollBack, DeleteSoftware, RowsKept, OwnIds, Rows, Lookup
<1>4. ASSUME MarkInstalled(c), software' # software
      PROVE  RowsKept(p)
  <2>1. software' = [id \in Ids |-> IF id \in Rows /\ software[id].name = arg[c].to
                                    THEN [software[id] EXCEPT !.installed = TRUE]
                                    ELSE software[id]]
    BY <1>4 DEF MarkInstalled
  <2>2. \A id \in Rows : LET r == [software[id] EXCEPT !.installed = TRUE] IN
          /\ r # NoRow /\ r.owner = software[id].owner
          /\ r.name = software[id].name /\ r.noAuto = software[id].noAuto /\ r.installed
    BY LookupRows, RowIsRow DEF Row
  <2>3. QED  BY <2>1, <2>2 DEF RowsKept, OwnIds, Rows
<1>5. ASSUME UpdateRow(c), software' # software
      PROVE  RowsKept(p)
  <2> DEFINE id == arg[c].id
  <2>1. id \in Rows /\ software[id].owner = PackageOf[c]
    BY <1>5 DEF UpdateRow
  <2>2. software[id] \in Row /\ id \in Ids  BY <2>1, LookupRows
  <2>3. /\ software'[id].owner = software[id].owner
        /\ \A k \in Ids \ {id} : software'[k] = software[k]
    BY <1>5, <2>2 DEF UpdateRow, TypeOK, Row
  <2>4. QED  BY <2>1, <2>3 DEF RowsKept, OwnIds, Rows
<1>6. Call(c) => RowsKept(p)
  BY <1>1, <1>2 DEF Call, RunInstall, UninstallSoftware, UpdateSoftware, FindOwner, tables
<1>7. Continue(c) => RowsKept(p)
  BY <1>1, <1>3, <1>4, <1>5 DEF Continue, InsertExecutable, FindExecutable, UpdateExecutable,
     ExecutablesInserted, ExecutablesWritten, SkipDownload, StartDownload, WriteDownload,
     FinishDownload, Extract, DeleteExecutables, FetchRecord, CopyContents, RemoveOld,
     RemoveForReinstall, Refetch, DeleteExecutable, RenameExecutable, tables
<1>8. QED  BY <1>1, <1>6, <1>7 DEF FailDownload, Crash, tables

\* The executables of other packages: a call goes on with a uuid of its own.
LEMMA OthersExecutables ==
  ASSUME TypeOK, Owned, NEW c \in Callers, Call(c) \/ Continue(c) \/ FailDownload(c) \/ Crash(c),
         NEW p \in Packages, p # PackageOf[c]
  PROVE  ExecutablesKept(p)
<1>1. ASSUME UNCHANGED executables PROVE ExecutablesKept(p)
  BY <1>1 DEF ExecutablesKept
<1>2. arg[c].id \notin OwnIds(p)  BY DEF Owned, OwnIds
<1>3. ASSUME NEW i \in Pending(c), InsertExecutable(i) \/ FindExecutable(i) \/ UpdateExecutable(i)
      PROVE  ExecutablesKept(p)
  <2>1. i \in inflight /\ i.caller = c  BY DEF Pending
  <2>2. i.row.softwareId \notin OwnIds(p)  BY <2>1 DEF Owned, OwnIds
  <2>3. CASE InsertExecutable(i)  BY <2>2, <2>3 DEF InsertExecutable, ExecutablesKept
  <2>4. CASE FindExecutable(i)  BY <1>1, <2>4 DEF FindExecutable, tables
  <2>5. CASE UpdateExecutable(i)
    <3>1. executables' = {IF i.path /\ x.softwareId = i.row.softwareId /\ x.name = i.row.name
                          THEN i.row ELSE x : x \in executables}
      BY <2>5 DEF UpdateExecutable
    <3>2. QED  BY <2>2, <3>1 DEF ExecutablesKept
  <2>6. QED  BY <1>3, <2>3, <2>4, <2>5
<1>4. ASSUME DeleteExecutables(c)
      PROVE  ExecutablesKept(p)
  BY <1>4 DEF DeleteExecutables, ExecutablesKept, OwnIds, Lookup
<1>6. ASSUME DeleteExecutable(c)
      PROVE  ExecutablesKept(p)
  BY <1>2, <1>6 DEF DeleteExecutable, ExecutablesKept
<1>7. ASSUME RenameExecutable(c)
      PROVE  ExecutablesKept(p)
  <2> DEFINE old == {x \in executables : x.softwareId = arg[c].id /\ x.name = arg[c].exec}
  <2>1. \A x \in old : [x EXCEPT !.name = arg[c].newExec].softwareId = arg[c].id
    BY DEF TypeOK, Executable
  <2>2. UNCHANGED executables \/
        executables' = (executables \ old) \cup {[x EXCEPT !.name = arg[c].newExec] : x \in old}
    BY <1>7 DEF RenameExecutable
  <2>3. \A x \in executables : x \in old => x.softwareId = arg[c].id
    OBVIOUS
  <2>4. CASE executables' = (executables \ old) \cup {[x EXCEPT !.name = arg[c].newExec] : x \in old}
    <3> SUFFICES ASSUME NEW x \in executables \cup executables', x.softwareId \in OwnIds(p)
                 PROVE  x \in executables <=> x \in executables'
      BY DEF ExecutablesKept
    <3>1. x.softwareId # arg[c].id  BY <1>2
    <3>2. x \notin {[y EXCEPT !.name = arg[c].newExec] : y \in old}  BY <2>1, <3>1
    <3>3. x \notin old  BY <2>3, <3>1
    <3> HIDE DEF old
    <3>4. QED  BY <2>4, <3>2, <3>3
  <2>5. QED  BY <1>1, <2>2, <2>4
<1>8. Call(c) => ExecutablesKept(p)
  BY <1>1 DEF Call, InstallSoftware, RunInstall, UninstallSoftware, UpdateSoftware, FindOwner, tables
<1>9. Continue(c) => ExecutablesKept(p)
  BY <1>1, <1>3, <1>4, <1>6, <1>7 DEF Continue, RollBack, ExecutablesInserted, ExecutablesWritten,
     SkipDownload, StartDownload, WriteDownload, FinishDownload, Extract, MarkInstalled,
     DeleteSoftware, UpdateRow, FetchRecord, CopyContents, RemoveOld, RemoveForReinstall, Refetch, tables
<1>10. QED  BY <1>1, <1>8, <1>9 DEF FailDownload, Crash, tables

\* The folders of other packages.
LEMMA OthersFolders ==
  ASSUME TypeOK, NEW c \in Callers, Call(c) \/ Continue(c) \/ FailDownload(c) \/ Crash(c),
         NEW p \in Packages, p # PackageOf[c]
  PROVE  FoldersKept(p)
<1>1. ASSUME NEW m, NEW s, UNCHANGED folder \/ folder' = [folder EXCEPT ![Dir(c, m)] = s]
      PROVE  FoldersKept(p)
  BY <1>1 DEF FoldersKept, Dir, TypeOK
<1>2. Call(c) => FoldersKept(p)
  BY <1>1 DEF Call, InstallSoftware, RunInstall, UninstallSoftware, UpdateSoftware, FindOwner,
     RemovalFails
<1>3. \/ StartDownload(c) \/ WriteDownload(c) \/ FinishDownload(c) \/ Extract(c)
      \/ CopyContents(c) \/ RemoveOld(c) \/ RemoveForReinstall(c)
      => FoldersKept(p)
  BY <1>1 DEF StartDownload, WriteDownload, FinishDownload, Extract, CopyContents, RemoveOld,
     RemoveForReinstall, RemovalFails
<1>4. Continue(c) => FoldersKept(p)
  BY <1>1, <1>3 DEF Continue, InsertExecutable, FindExecutable, UpdateExecutable, RollBack,
     ExecutablesInserted, ExecutablesWritten, SkipDownload, MarkInstalled, DeleteExecutables,
     DeleteSoftware, UpdateRow, FetchRecord, Refetch, DeleteExecutable, RenameExecutable
<1>5. QED  BY <1>1, <1>2, <1>4 DEF FailDownload, Crash

\* A call begins with arguments of its own, and goes on with them.
LEMMA CallArg ==
  ASSUME TypeOK, NEW c \in Callers, Call(c)
  PROVE  /\ calls' = calls + 1
         /\ \E a : arg' = [arg EXCEPT ![c] = a] /\ a.call = calls /\ a.op # "none"
<1>1. \A op, n : Blank(op, n).op = op /\ Blank(op, n).call = calls  BY DEF Blank
<1>2. ASSUME NEW n \in Names, NEW t \in Types, NEW na \in BOOLEAN, NEW es \in ExecLists,
             InstallSoftware(c, n, t, na, es)
      PROVE  \E a : arg' = [arg EXCEPT ![c] = a] /\ a.call = calls /\ a.op # "none"
  <2>1. ASSUME NEW id, NEW S
        PROVE  LET b == [Blank("install", n) EXCEPT !.id = id, !.type = t, !.noAuto = na, !.execs = S]
               IN b.call = calls /\ b.op = "install"
    BY DEF Blank
  <2>2. \/ arg' = [arg EXCEPT ![c] = Blank("install", n)]
        \/ \E id, S : arg' = [arg EXCEPT ![c] =
             [Blank("install", n) EXCEPT !.id = id, !.type = t, !.noAuto = na, !.execs = S]]
    BY <1>2 DEF InstallSoftware
  <2>3. CASE arg' = [arg EXCEPT ![c] = Blank("install", n)]
    <3>1. Blank("install", n).call = calls /\ Blank("install", n).op # "none"  BY <1>1
    <3>2. QED  BY <2>3, <3>1
  <2>4. ASSUME NEW id, NEW S, arg' = [arg EXCEPT ![c] =
             [Blank("install", n) EXCEPT !.id = id, !.type = t, !.noAuto = na, !.execs = S]]
        PROVE  \E a : arg' = [arg EXCEPT ![c] = a] /\ a.call = calls /\ a.op # "none"
    <3> DEFINE b == [Blank("install", n) EXCEPT !.id = id, !.type = t, !.noAuto = na, !.execs = S]
    <3>1. b.call = calls /\ b.op # "none"  BY <2>1
    <3>2. arg' = [arg EXCEPT ![c] = b]  BY <2>4
    <3> HIDE DEF b
    <3>3. QED  BY <3>1, <3>2
  <2>5. QED  BY <2>2, <2>3, <2>4
<1>3. ASSUME NEW n \in Names, NEW t \in Types, RunInstall(c, n, t)
      PROVE  \E a : arg' = [arg EXCEPT ![c] = a] /\ a.call = calls /\ a.op # "none"
  <2>1. LET b == [Blank("runInstall", n) EXCEPT !.type = t] IN b.call = calls /\ b.op = "runInstall"
    BY DEF Blank
  <2>2. QED  BY <1>3, <2>1 DEF RunInstall
<1>4. ASSUME NEW n \in Names, UninstallSoftware(c, n)
      PROVE  \E a : arg' = [arg EXCEPT ![c] = a] /\ a.call = calls /\ a.op # "none"
  <2>1. arg' = [arg EXCEPT ![c] = Blank("uninstall", n)]  BY <1>4 DEF UninstallSoftware
  <2>2. Blank("uninstall", n).op # "none" /\ Blank("uninstall", n).call = calls  BY <1>1
  <2>3. QED  BY <2>1, <2>2
<1>5. ASSUME NEW n \in Names, NEW to \in Names, NEW d \in Edits, UpdateSoftware(c, n, to, d)
      PROVE  \E a : arg' = [arg EXCEPT ![c] = a] /\ a.call = calls /\ a.op # "none"
  <2> DEFINE u == UpdateArg(c, n, to, d)
  <2>1. u.call = calls /\ u.op = "update" /\ u \in Arg  BY UpdateArgType
  <2>2. \A id : [u EXCEPT !.id = id].call = calls /\ [u EXCEPT !.id = id].op = "update"
    BY <2>1 DEF Arg
  <2> HIDE DEF u
  <2>3. \/ arg' = [arg EXCEPT ![c] = u]
        \/ \E id : arg' = [arg EXCEPT ![c] = [u EXCEPT !.id = id]]
    BY <1>5 DEF UpdateSoftware, UpdateArg, u
  <2>4. QED  BY <2>1, <2>2, <2>3
<1>6. ASSUME NEW op \in {"deleteExec", "renameExec"}, NEW n \in Names, NEW e, NEW f, FindOwner(c, op, n, e, f)
      PROVE  \E a : arg' = [arg EXCEPT ![c] = a] /\ a.call = calls /\ a.op # "none"
  <2> DEFINE b == [Blank(op, n) EXCEPT !.exec = e, !.newExec = f]
  <2>1. /\ b.call = calls /\ b.op = op
        /\ \A id : [b EXCEPT !.id = id].call = calls /\ [b EXCEPT !.id = id].op = op
    BY DEF Blank
  <2>2. \/ arg' = [arg EXCEPT ![c] = b]
        \/ \E id : arg' = [arg EXCEPT ![c] = [b EXCEPT !.id = id]]
    BY <1>6 DEF FindOwner
  <2> HIDE DEF b
  <2>3. CASE arg' = [arg EXCEPT ![c] = b]  BY <2>1, <2>3
  <2>4. ASSUME NEW id, arg' = [arg EXCEPT ![c] = [b EXCEPT !.id = id]]
        PROVE  \E a : arg' = [arg EXCEPT ![c] = a] /\ a.call = calls /\ a.op # "none"
    <3>1. [b EXCEPT !.id = id].call = calls /\ [b EXCEPT !.id = id].op = op  BY <2>1
    <3>2. QED  BY <2>4, <3>1
  <2>5. QED  BY <2>2, <2>3, <2>4
<1>7. \E a : arg' = [arg EXCEPT ![c] = a] /\ a.call = calls /\ a.op # "none"
  BY <1>2, <1>3, <1>4, <1>5, <1>6 DEF Call
<1>8. calls' = calls + 1
  BY DEF Call, InstallSoftware, RunInstall, UninstallSoftware, UpdateSoftware, FindOwner, Begin
<1>9. QED  BY <1>7, <1>8

LEMMA ContinueArg ==
  ASSUME TypeOK, NEW c \in Callers, Continue(c) \/ FailDownload(c) \/ Crash(c)
  PROVE  /\ calls' = calls
         /\ \/ arg' = arg
            \/ /\ at[c] \in {"fetch", "refetch"}
               /\ \E na \in BOOLEAN, t \in Types :
                    arg' = [arg EXCEPT ![c] = [arg[c] EXCEPT !.noAuto = na, !.type = t]]
<1>0. arg \in [Callers -> Arg] /\ arg[c] \in Arg  BY DEF TypeOK
<1>1. ASSUME FetchRecord(c), arg' # arg
      PROVE  \E na \in BOOLEAN, t \in Types :
               arg' = [arg EXCEPT ![c] = [arg[c] EXCEPT !.noAuto = na, !.type = t]]
  <2>1. PICK id \in Rows : arg' = [arg EXCEPT ![c].noAuto = software[id].noAuto]
    BY <1>1, LookupRows DEF FetchRecord
  <2>2. software[id].noAuto \in BOOLEAN  BY LookupRows DEF Row
  <2>3. arg[c].type \in Types  BY <1>0 DEF Arg
  <2>4. arg' = [arg EXCEPT ![c] = [arg[c] EXCEPT !.noAuto = software[id].noAuto, !.type = arg[c].type]]
    BY <1>0, <2>1 DEF Arg
  <2>5. QED  BY <2>2, <2>3, <2>4
<1>2. ASSUME Refetch(c), arg' # arg
      PROVE  \E na \in BOOLEAN, t \in Types :
               arg' = [arg EXCEPT ![c] = [arg[c] EXCEPT !.noAuto = na, !.type = t]]
  <2>1. PICK id \in Rows : arg' = [arg EXCEPT ![c].noAuto = software[id].noAuto,
                                              ![c].type = software[id].type]
    BY <1>2, LookupRows DEF Refetch
  <2>2. software[id].noAuto \in BOOLEAN /\ software[id].type \in Types  BY LookupRows DEF Row
  <2>3. arg' = [arg EXCEPT ![c] = [arg[c] EXCEPT !.noAuto = software[id].noAuto, !.type = software[id].type]]
    BY <1>0, <2>1
  <2>4. QED  BY <2>2, <2>3
<1>3. calls' = calls /\ (arg' = arg \/ FetchRecord(c) \/ Refetch(c))
  BY DEF Continue, FailDownload, Crash, InsertExecutable, FindExecutable, UpdateExecutable, RollBack,
     ExecutablesInserted, ExecutablesWritten, SkipDownload, StartDownload, WriteDownload,
     FinishDownload, Extract, MarkInstalled, DeleteExecutables, DeleteSoftware, UpdateRow,
     FetchRecord, CopyContents, RemoveOld, RemoveForReinstall, Refetch, DeleteExecutable,
     RenameExecutable
<1>4. FetchRecord(c) \/ Refetch(c) => at[c] \in {"fetch", "refetch"}
  BY DEF FetchRecord, Refetch
<1>5. QED  BY <1>1, <1>2, <1>3, <1>4

\* The number of a call is one that was counted.
Counted == \A c \in Callers : arg[c].op # "none" => arg[c].call < calls

LEMMA CountedStep == TypeInv /\ Counted /\ [Next]_vars => Counted'
<1> SUFFICES ASSUME TypeOK, Counted, [Next]_vars PROVE Counted'  BY DEF TypeInv
<1>0. calls \in Nat /\ arg \in [Callers -> Arg]  BY DEF TypeOK
<1>1. CASE UNCHANGED vars  BY <1>1 DEF vars, Counted
<1>2. ASSUME NEW c \in Callers, Call(c) PROVE Counted'
  <2>1. PICK a : arg' = [arg EXCEPT ![c] = a] /\ a.call = calls  BY <1>2, CallArg
  <2>2. calls' = calls + 1  BY <1>2, CallArg
  <2>3. \A k \in Callers : arg[k].call \in Nat  BY <1>0 DEF Arg
  <2>4. \A k \in Callers : arg'[k] = arg[k] \/ arg'[k].call = calls  BY <1>0, <2>1
  <2>5. QED  BY <1>0, <2>2, <2>3, <2>4 DEF Counted
<1>3. ASSUME NEW c \in Callers, Continue(c) \/ FailDownload(c) \/ Crash(c) PROVE Counted'
  <2>1. calls' = calls  BY <1>3, ContinueArg
  <2>2. CASE arg' = arg  BY <2>1, <2>2 DEF Counted
  <2>3. CASE arg' # arg
    <3>1. PICK na \in BOOLEAN, t \in Types :
            arg' = [arg EXCEPT ![c] = [arg[c] EXCEPT !.noAuto = na, !.type = t]]
      BY <1>3, <2>3, ContinueArg
    <3>2. \A k \in Callers : arg'[k].op = arg[k].op /\ arg'[k].call = arg[k].call
      BY <1>0, <3>1 DEF Arg
    <3>3. QED  BY <2>1, <3>2 DEF Counted
  <2>4. QED  BY <2>2, <2>3
<1>4. QED  BY <1>1, <1>2, <1>3 DEF Next

\* A caller whose step changes a table or a folder has moved.
LEMMA ChangingIsMoving ==
  ASSUME TypeOK, Counted, NEW c \in Callers, Call(c) \/ Continue(c) \/ FailDownload(c) \/ Crash(c)
  PROVE  UNCHANGED <<software, executables, folder>> \/ ~Still(PackageOf[c])
<1>1. SUFFICES ASSUME at'[c] = at[c], arg'[c] = arg[c], Pending(c)' = Pending(c)
               PROVE  UNCHANGED <<software, executables, folder>>
  BY DEF Still
<1>2. ~Call(c)
  <2>1. SUFFICES ASSUME Call(c) PROVE FALSE  OBVIOUS
  <2>2. PICK a : arg' = [arg EXCEPT ![c] = a] /\ a.call = calls /\ a.op # "none"
    BY <2>1, CallArg
  <2>3. arg[c].call = calls /\ arg[c].op # "none"  BY <1>1, <2>2 DEF TypeOK
  <2>4. QED  BY <2>3 DEF Counted, TypeOK
<1>3. ASSUME NEW i \in Pending(c)
      PROVE  ~InsertExecutable(i) /\ ~UpdateExecutable(i)
  BY <1>1, <1>3 DEF InsertExecutable, UpdateExecutable, Pending
<1>4. Continue(c) => UNCHANGED <<software, executables, folder>>
  BY <1>1, <1>3 DEF Continue, FindExecutable, RollBack, ExecutablesInserted, ExecutablesWritten,
     SkipDownload, StartDownload, WriteDownload, FinishDownload, Extract, MarkInstalled,
     DeleteExecutables, DeleteSoftware, UpdateRow, FetchRecord, CopyContents, RemoveOld,
     RemoveForReinstall, RemovalFails, Refetch, DeleteExecutable, RenameExecutable, Goto, End,
     tables, TypeOK
<1>5. Crash(c) => UNCHANGED <<software, executables, folder>>  BY DEF Crash, tables
<1>6. ~FailDownload(c)
  <2>1. SUFFICES ASSUME FailDownload(c) PROVE FALSE  OBVIOUS
  <2>2. at[c] \in {"downloading", "writing", "extracting"} /\ at'[c] = "idle"
    BY <2>1 DEF FailDownload, End, TypeOK
  <2>3. QED  BY <1>1, <2>2
<1>7. QED  BY <1>2, <1>4, <1>5, <1>6

\* Only a package's own callers change which software and executables it has,
\* what they are called and what is in its folders.
THEOREM OwnersIsolated == Spec => OwnerIsolation
<1>1. Init => Owned /\ Counted
  BY DEF Init, Owned, Rows, Counted, Blank
<1>2. TypeInv /\ Owned /\ Counted /\ [Next]_vars =>
        [\A p \in Packages : Still(p) =>
           UNCHANGED <<OwnRows(p), OwnExecutables(p), OwnFolders(p)>>]_vars
  <2> SUFFICES ASSUME TypeOK, Owned, Counted, NEW c \in Callers,
                      Call(c) \/ Continue(c) \/ FailDownload(c) \/ Crash(c),
                      NEW p \in Packages, Still(p)
               PROVE  UNCHANGED <<OwnRows(p), OwnExecutables(p), OwnFolders(p)>>
    BY DEF Next, TypeInv
  <2>1. CASE p = PackageOf[c]
    <3>1. UNCHANGED <<software, executables, folder>>  BY <2>1, ChangingIsMoving
    <3>2. QED  BY <3>1 DEF OwnRows, OwnExecutables, OwnFolders, OwnIds, Rows
  <2>2. CASE p # PackageOf[c]
    BY <2>2, OthersRows, OthersExecutables, OthersFolders, KeptIsUnchanged
  <2>3. QED  BY <2>1, <2>2
<1>3. QED
  BY <1>1, <1>2, OwnedStep, CountedStep, TypeInvariance, PTL DEF Spec, OwnerIsolation
=============================================================================
