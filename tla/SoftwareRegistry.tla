-------------------------- MODULE SoftwareRegistry --------------------------
(***************************************************************************)
(* The software registry of an add-on (class SoftwareRegistry of           *)
(* packages/@twokeys/addons): rows of the `software` and `executables`     *)
(* tables, and the folders the software is downloaded to.                  *)
(*                                                                         *)
(* A caller is one SoftwareRegistry instance, opened for one package; each *)
(* runs one call at a time, and every await of a call is a step of its     *)
(* own, so calls of several callers interleave.  A statement sent to       *)
(* SQLite is atomic.  Foreign keys are declared but SQLite does not        *)
(* enforce them unless asked, which the code never does.                   *)
(***************************************************************************)
EXTENDS Naturals, Sequences, FiniteSets

CONSTANTS
  Callers,     \* SoftwareRegistry instances
  Packages,    \* add-ons
  PackageOf,   \* the package each instance was opened for
  Names,       \* names of pieces of software
  Execs,       \* names of executables
  Ids,         \* pool of uuids: bounds the rows that are ever mentioned at once
  NoId,        \* no uuid
  NoExec,      \* no executable
  Operations,  \* the operations callers use
  Types,       \* the download types of the software they install
  ExecLists,   \* the executable lists given to installSoftware
  Edits,       \* what updateSoftware is given besides the two names
  Flaws,       \* what the environment may do: "network", "disk", "crash"
  MaxCalls     \* bound on the number of calls

ASSUME CallerAssumption == PackageOf \in [Callers -> Packages]
ASSUME NoIdAssumption == NoId \notin Ids \cup (Packages \X Names)
ASSUME NoExecAssumption == NoExec \notin Execs
ASSUME NamesAssumption == Names # {}
ASSUME TypesAssumption == Types # {} /\ Types \subseteq {"STANDALONE", "ZIP", "NO_DOWNLOAD"}
ASSUME ListsAssumption == ExecLists \subseteq Seq(Execs)
ASSUME EditsAssumption ==
  Edits \subseteq [setNoAuto : BOOLEAN, noAuto : BOOLEAN, reinstall : BOOLEAN,
                  list : Seq([name : Execs, path : BOOLEAN])]
ASSUME BoundAssumption == MaxCalls \in Nat

VARIABLES
  software,    \* the software table: uuid -> row, or NoRow
  executables, \* the executables table
  folder,      \* what is on disk under software/<package>/<name>
  opened,      \* has this instance opened its database?
  at,          \* where the call of each caller stands
  arg,         \* its arguments and what it has read
  inflight,    \* statements about executables, sent or to follow, not yet executed
  outcome,     \* how the last call of each caller ended
  calls        \* number of calls made

vars == <<software, executables, folder, opened, at, arg, inflight, outcome, calls>>
tables == <<software, executables>>

-----------------------------------------------------------------------------
NoRow == [name |-> "none"]
Row == [name : Names, owner : Packages, installed : BOOLEAN,
        noAuto : BOOLEAN, type : Types]

\* A row of executables; `folder` is the software folder its path was joined to.
Executable == [name : Execs, softwareId : Ids, folder : Names]

\* A folder holds nothing, a part of the software or all of it, with or without
\* directories in it.
FolderState == {"none", "empty", "part", "partial tree", "flat", "tree"}
WithDirs == {"partial tree", "tree"}
Complete == {"flat", "tree"}

\* What a folder holds when files of state s are written over what it held.
Over(held, s) ==
  IF held \notin WithDirs THEN s ELSE IF s = "part" THEN "partial tree" ELSE "tree"

\* What a removal that fails half-way may leave.
Remains(held) ==
  {held, "empty", "part"} \cup (IF held \in WithDirs THEN {"partial tree"} ELSE {})

Stage == {"idle", "insertExecs", "rollback", "runInstall", "downloading", "writing",
          "extracting", "markInstalled", "deleteExecs", "deleteSoftware",
          "updateRow", "writeExecs", "fetch", "copy", "removeOld",
          "removeForReinstall", "refetch", "deleteExec", "renameExec"}

Outcome == {"none", "ok", "refused", "failed", "not found", "no database", "crashed"}

Arg == [op : {"none", "install", "runInstall", "uninstall", "update", "deleteExec", "renameExec"},
        name : Names,               \* the software named in the call
        to : Names,                 \* its name after the call
        id : Ids \cup {NoId},       \* its uuid, once generated or read
        exec : Execs \cup {NoExec},
        newExec : Execs \cup {NoExec},
        execs : SUBSET Execs,       \* executables given to installSoftware
        list : Seq([name : Execs, path : BOOLEAN]),  \* those given to updateSoftware: with a path?
        type : Types,
        noAuto : BOOLEAN,           \* as given, or as read from the row
        setNoAuto : BOOLEAN,        \* does newData carry noAutoInstall?
        reinstall : BOOLEAN,
        call : Nat,                 \* the calls made before it
        alone : BOOLEAN]            \* history: no statement of an earlier call was left

Blank(op, n) == [op |-> op, name |-> n, to |-> n, id |-> NoId, exec |-> NoExec,
                 newExec |-> NoExec, execs |-> {}, list |-> <<>>, type |-> CHOOSE t \in Types : TRUE,
                 noAuto |-> FALSE, setNoAuto |-> FALSE, reinstall |-> FALSE, call |-> calls,
                 alone |-> TRUE]

\* What is to be done next for one executable of a list; `path` when its path is given.
Statement == [caller : Callers, call : Nat, slot : Nat, step : {"find", "insert", "update"},
              path : BOOLEAN, row : Executable]

TypeOK ==
  /\ software \in [Ids -> Row \cup {NoRow}]
  /\ executables \subseteq Executable
  /\ folder \in [Packages \X Names -> FolderState]
  /\ opened \in [Callers -> BOOLEAN]
  /\ at \in [Callers -> Stage]
  /\ arg \in [Callers -> Arg]
  /\ inflight \subseteq Statement
  /\ outcome \in [Callers -> Outcome]
  /\ calls \in Nat

\* A statement about a piece of software, or an executable, has one to work on.
ArgsRead ==
  \A c \in Callers :
    /\ at[c] \in {"insertExecs", "updateRow", "writeExecs", "deleteExec", "renameExec"}
         => arg[c].id \in Ids
    /\ at[c] = "renameExec" => arg[c].newExec \in Execs

Init ==
  /\ software = [id \in Ids |-> NoRow]
  /\ executables = {}
  /\ folder = [d \in Packages \X Names |-> "none"]
  /\ opened = [c \in Callers |-> FALSE]
  /\ calls = 0
  /\ at = [c \in Callers |-> "idle"]
  /\ arg = [c \in Callers |-> Blank("none", CHOOSE n \in Names : TRUE)]
  /\ inflight = {}
  /\ outcome = [c \in Callers |-> "none"]

-----------------------------------------------------------------------------
Rows == {id \in Ids : software[id] # NoRow}

\* SELECT ... WHERE name = ? AND ownerName = ?
Lookup(p, n) == {id \in Rows : software[id].owner = p /\ software[id].name = n}

HasExec(id, e) == \E x \in executables : x.softwareId = id /\ x.name = e

\* uuid.v4(): an identifier nothing mentions.
Fresh == {id \in Ids \ Rows : /\ \A x \in executables : x.softwareId # id
                              /\ \A i \in inflight : i.row.softwareId # id
                              /\ \A c \in Callers : arg[c].id # id}

Dir(c, n) == <<PackageOf[c], n>>
Pending(c) == {i \in inflight : i.caller = c}

\* Is the Promise.all this statement was sent for still waiting?
Awaited(i) == at[i.caller] \in {"insertExecs", "writeExecs"} /\ arg[i.caller].call = i.call

Begin(c, op) ==
  /\ at[c] = "idle"
  /\ op \in Operations
  /\ calls < MaxCalls
  /\ calls' = calls + 1

Goto(c, s) ==
  /\ at' = [at EXCEPT ![c] = s]
  /\ UNCHANGED outcome

End(c, result) ==
  /\ at' = [at EXCEPT ![c] = "idle"]
  /\ outcome' = [outcome EXCEPT ![c] = result]

Open(c) == opened' = [opened EXCEPT ![c] = TRUE]

-----------------------------------------------------------------------------
\* installSoftware: the INSERT into software, which UNIQUE (name, ownerName)
\* refuses when the package already has software of that name; then one INSERT
\* per executable is sent, all at once (Promise.all).
InstallSoftware(c, n, t, na, es) ==
  /\ Begin(c, "install")
  /\ Open(c)
  /\ \/ /\ Lookup(PackageOf[c], n) # {}
        /\ End(c, "refused")
        /\ arg' = [arg EXCEPT ![c] = Blank("install", n)]
        /\ UNCHANGED <<tables, inflight>>
     \/ /\ Lookup(PackageOf[c], n) = {}
        /\ \E id \in Fresh :
             /\ software' = [software EXCEPT ![id] =
                  [name |-> n, owner |-> PackageOf[c], installed |-> FALSE,
                   noAuto |-> na, type |-> t]]
             /\ inflight' = inflight \cup
                  {[caller |-> c, call |-> calls, slot |-> i, step |-> "insert", path |-> TRUE,
                    row |-> [name |-> es[i], softwareId |-> id, folder |-> n]] : i \in DOMAIN es}
             /\ arg' = [arg EXCEPT ![c] =
                  [Blank("install", n) EXCEPT !.id = id, !.type = t, !.noAuto = na,
                                              !.execs = {es[i] : i \in DOMAIN es}]]
        /\ Goto(c, "insertExecs")
        /\ UNCHANGED executables
  /\ UNCHANGED folder

\* The first statement that is rejected rejects Promise.all; the others stay in
\* flight.  installSoftware rolls back, updateSoftware just throws.
Reject(i) ==
  \/ Awaited(i) /\ at[i.caller] = "insertExecs" /\ Goto(i.caller, "rollback")
  \/ Awaited(i) /\ at[i.caller] = "writeExecs" /\ End(i.caller, "failed")
  \/ ~Awaited(i) /\ UNCHANGED <<at, outcome>>

\* SQLite executes one of the INSERTs.  UNIQUE (name, softwareId) rejects a
\* name the software already has.
InsertExecutable(i) ==
  /\ i \in inflight
  /\ i.step = "insert"
  /\ inflight' = inflight \ {i}
  /\ \/ /\ ~HasExec(i.row.softwareId, i.row.name)
        /\ executables' = executables \cup {i.row}
        /\ UNCHANGED <<at, outcome>>
     \/ /\ HasExec(i.row.softwareId, i.row.name)
        /\ Reject(i)
        /\ UNCHANGED executables
  /\ UNCHANGED <<software, folder, opened, arg, calls>>

\* Slip: the DELETE names the package only.
RollBackPackage(c) ==
  /\ at[c] = "rollback"
  /\ software' = [id \in Ids |-> IF id \in Rows /\ software[id].owner = PackageOf[c]
                                 THEN NoRow ELSE software[id]]
  /\ End(c, "failed")
  /\ UNCHANGED <<executables, folder, opened, arg, inflight, calls>>

\* "Roll back changes": only the software row is deleted.
RollBack(c) ==
  /\ at[c] = "rollback"
  /\ software' = [id \in Ids |-> IF id \in Lookup(PackageOf[c], arg[c].name)
                                 THEN NoRow ELSE software[id]]
  /\ End(c, "failed")
  /\ UNCHANGED <<executables, folder, opened, arg, inflight, calls>>

\* Slip: the INSERTs are not awaited.
ExecutablesSent(c) ==
  /\ at[c] = "insertExecs"
  /\ Goto(c, "runInstall")
  /\ UNCHANGED <<tables, folder, opened, arg, inflight, calls>>

ExecutablesInserted(c) ==
  /\ at[c] = "insertExecs"
  /\ \A i \in Pending(c) : ~Awaited(i)
  /\ Goto(c, "runInstall")
  /\ UNCHANGED <<tables, folder, opened, arg, inflight, calls>>

-----------------------------------------------------------------------------
\* runInstall, called by an add-on for software it did not install at once; it
\* does not open the database.
RunInstall(c, n, t) ==
  /\ Begin(c, "runInstall")
  /\ arg' = [arg EXCEPT ![c] = [Blank("runInstall", n) EXCEPT !.type = t]]
  /\ Goto(c, "runInstall")
  /\ UNCHANGED <<tables, folder, opened, inflight>>

SkipDownload(c) ==
  /\ at[c] = "runInstall"
  /\ arg[c].noAuto \/ arg[c].type = "NO_DOWNLOAD"
  /\ End(c, "ok")
  /\ UNCHANGED <<tables, folder, opened, arg, inflight, calls>>

\* mkdirp of the folder, then the request is sent.
StartDownload(c) ==
  /\ at[c] = "runInstall"
  /\ ~arg[c].noAuto /\ arg[c].type # "NO_DOWNLOAD"
  /\ folder' = [folder EXCEPT ![Dir(c, arg[c].to)] = IF @ = "none" THEN "empty" ELSE @]
  /\ Goto(c, "downloading")
  /\ UNCHANGED <<tables, opened, arg, inflight, calls>>

\* The answer comes, and is piped to a file opened in the folder.
WriteDownload(c) ==
  LET dir == Dir(c, arg[c].to)
  IN /\ at[c] = "downloading"
     /\ \/ /\ folder[dir] = "none"
           /\ End(c, "failed")
           /\ UNCHANGED folder
        \/ /\ folder[dir] # "none"
           /\ Goto(c, "writing")
           /\ folder' = [folder EXCEPT ![dir] = Over(@, "part")]
     /\ UNCHANGED <<tables, opened, arg, inflight, calls>>

\* Of a folder removed meanwhile the open file goes on being written, unlinked.
FinishDownload(c) ==
  LET dir == Dir(c, arg[c].to)
  IN /\ at[c] = "writing"
     /\ \/ /\ arg[c].type = "ZIP"
           /\ Goto(c, "extracting")
           /\ UNCHANGED folder
        \/ /\ arg[c].type # "ZIP"
           /\ Goto(c, "markInstalled")
           /\ folder' = [folder EXCEPT ![dir] = IF @ = "none" THEN "none" ELSE Over(@, "flat")]
     /\ UNCHANGED <<tables, opened, arg, inflight, calls>>

\* extract() checks that the zip is there before it unpacks it: files, or
\* directories of files.
Extract(c) ==
  LET dir == Dir(c, arg[c].to)
  IN /\ at[c] = "extracting"
     /\ \/ /\ folder[dir] \in {"none", "empty"}
           /\ End(c, "failed")
           /\ UNCHANGED folder
        \/ /\ folder[dir] \notin {"none", "empty"}
           /\ Goto(c, "markInstalled")
           /\ \E s \in Complete : folder' = [folder EXCEPT ![dir] = Over(@, s)]
     /\ UNCHANGED <<tables, opened, arg, inflight, calls>>

\* The download or the extraction throws: runInstall is returned, not awaited,
\* inside the try of installSoftware, so nothing is undone.
FailDownload(c) ==
  /\ "network" \in Flaws
  /\ at[c] \in {"downloading", "writing", "extracting"}
  /\ End(c, "failed")
  /\ \/ UNCHANGED folder
     \/ /\ at[c] = "extracting" /\ folder[Dir(c, arg[c].to)] # "none"
        /\ folder' = [folder EXCEPT ![Dir(c, arg[c].to)] = "partial tree"]
  /\ UNCHANGED <<tables, opened, arg, inflight, calls>>

\* UPDATE software SET installed = True WHERE name = ?
MarkInstalled(c) ==
  /\ at[c] = "markInstalled"
  /\ IF opened[c]
     THEN /\ software' = [id \in Ids |-> IF id \in Rows /\ software[id].name = arg[c].to
                                         THEN [software[id] EXCEPT !.installed = TRUE]
                                         ELSE software[id]]
          /\ End(c, "ok")
     ELSE /\ End(c, "no database")
          /\ UNCHANGED software
  /\ UNCHANGED <<executables, folder, opened, arg, inflight, calls>>

-----------------------------------------------------------------------------
\* rimraf fails, half-way or at once, and what called it throws.
RemovalFails(c, dir) ==
  /\ "disk" \in Flaws
  /\ folder[dir] # "none"
  /\ \E s \in Remains(folder[dir]) : folder' = [folder EXCEPT ![dir] = s]
  /\ End(c, "failed")

\* Slip: the files are not removed.
UninstallRecordOnly(c, n) ==
  /\ Begin(c, "uninstall")
  /\ arg' = [arg EXCEPT ![c] = Blank("uninstall", n)]
  /\ Goto(c, "deleteExecs")
  /\ UNCHANGED <<tables, folder, opened, inflight>>

\* uninstallSoftware: rimraf of the folder, then two DELETEs, executables first.
\* It does not open the database either.
UninstallSoftware(c, n) ==
  /\ Begin(c, "uninstall")
  /\ arg' = [arg EXCEPT ![c] = Blank("uninstall", n)]
  /\ \/ /\ folder' = [folder EXCEPT ![Dir(c, n)] = "none"]
        /\ Goto(c, "deleteExecs")
     \/ RemovalFails(c, Dir(c, n))
  /\ UNCHANGED <<tables, opened, inflight>>

\* Slips: the sub-select forgets the owner; softwareId is compared with the name.
DeleteExecutablesByName(c) ==
  /\ at[c] = "deleteExecs"
  /\ executables' = {x \in executables : ~(x.softwareId \in Rows
                                            /\ software[x.softwareId].name = arg[c].name)}
  /\ Goto(c, "deleteSoftware")
  /\ UNCHANGED <<software, folder, opened, arg, inflight, calls>>

DeleteExecutablesOfNone(c) ==
  /\ at[c] = "deleteExecs"
  /\ executables' = {x \in executables : x.softwareId # arg[c].name}
  /\ Goto(c, "deleteSoftware")
  /\ UNCHANGED <<software, folder, opened, arg, inflight, calls>>

DeleteExecutables(c) ==
  /\ at[c] = "deleteExecs"
  /\ IF opened[c]
     THEN /\ executables' = {x \in executables :
                               x.softwareId \notin Lookup(PackageOf[c], arg[c].name)}
          /\ Goto(c, "deleteSoftware")
     ELSE /\ End(c, "no database")
          /\ UNCHANGED executables
  /\ UNCHANGED <<software, folder, opened, arg, inflight, calls>>

\* Slip: the DELETE forgets the owner.
DeleteSoftwareByName(c) ==
  /\ at[c] = "deleteSoftware"
  /\ software' = [id \in Ids |-> IF id \in Rows /\ software[id].name = arg[c].name
                                 THEN NoRow ELSE software[id]]
  /\ End(c, "ok")
  /\ UNCHANGED <<executables, folder, opened, arg, inflight, calls>>

DeleteSoftware(c) ==
  /\ at[c] = "deleteSoftware"
  /\ software' = [id \in Ids |-> IF id \in Lookup(PackageOf[c], arg[c].name)
                                 THEN NoRow ELSE software[id]]
  /\ End(c, "ok")
  /\ UNCHANGED <<executables, folder, opened, arg, inflight, calls>>

-----------------------------------------------------------------------------
\* updateSoftware(name, newData, reinstall): newData may carry a new name, the
\* noAutoInstall flag and executables, each with or without a path.
\* updateSoftwareRecord first reads the uuid; an empty newData skips it.
UpdateSoftware(c, n, to, d) ==
  LET a == [Blank("update", n) EXCEPT !.to = to, !.setNoAuto = d.setNoAuto, !.noAuto = d.noAuto,
                                      !.list = d.list, !.reinstall = d.reinstall,
                                      !.alone = Pending(c) = {}]
      empty == to = n /\ ~d.setNoAuto /\ d.list = <<>>
  IN /\ Begin(c, "update")
     /\ Open(c)
     /\ \/ /\ empty
           /\ arg' = [arg EXCEPT ![c] = a]
           /\ Goto(c, "fetch")
        \/ /\ ~empty
           /\ Lookup(PackageOf[c], n) = {}
           /\ arg' = [arg EXCEPT ![c] = a]
           /\ End(c, "not found")
        \/ /\ ~empty
           /\ \E id \in Lookup(PackageOf[c], n) : arg' = [arg EXCEPT ![c] = [a EXCEPT !.id = id]]
           /\ Goto(c, "updateRow")
     /\ UNCHANGED <<tables, folder, inflight>>

\* Slip: the paths are joined to the folder of the old name.
SelectsOldPath(c) ==
  LET a == arg[c]
  IN {[caller |-> c, call |-> a.call, slot |-> i, step |-> "find", path |-> a.list[i].path,
       row |-> [name |-> a.list[i].name, softwareId |-> a.id, folder |-> a.name]] : i \in DOMAIN a.list}

\* For each executable of an update, a SELECT of its row is sent, all at once
\* (Promise.all); a path is joined to the folder of the new name.
Selects(c) ==
  LET a == arg[c]
  IN {[caller |-> c, call |-> a.call, slot |-> i, step |-> "find", path |-> a.list[i].path,
       row |-> [name |-> a.list[i].name, softwareId |-> a.id, folder |-> a.to]] : i \in DOMAIN a.list}

\* Slips: no UNIQUE constraint; an upsert of a row deleted meanwhile.
UpdateRowUnconstrained(c) ==
  LET id == arg[c].id
  IN /\ at[c] = "updateRow"
     /\ id \in Rows
     /\ software' = [software EXCEPT ![id].name = arg[c].to]
     /\ inflight' = inflight \cup Selects(c)
     /\ Goto(c, "writeExecs")
     /\ UNCHANGED <<executables, folder, opened, arg, calls>>

UpsertRow(c) ==
  /\ at[c] = "updateRow"
  /\ software' = [software EXCEPT ![arg[c].id].name = arg[c].to]
  /\ inflight' = inflight \cup Selects(c)
  /\ Goto(c, "writeExecs")
  /\ UNCHANGED <<executables, folder, opened, arg, calls>>

\* UPDATE software SET ... WHERE id = ? AND ownerName = ?: UNIQUE refuses a name
\* the package already uses; a row deleted meanwhile is simply not matched.
UpdateRow(c) ==
  LET id == arg[c].id
      matched == id \in Rows /\ software[id].owner = PackageOf[c]
      renamed == arg[c].to # arg[c].name
      clash == renamed /\ Lookup(PackageOf[c], arg[c].to) \ {id} # {}
  IN /\ at[c] = "updateRow"
     /\ \/ /\ matched /\ clash
           /\ End(c, "refused")
           /\ UNCHANGED <<software, inflight>>
        \/ /\ matched /\ ~clash
           /\ software' = [software EXCEPT
                ![id].name = IF renamed THEN arg[c].to ELSE @,
                ![id].noAuto = IF arg[c].setNoAuto THEN arg[c].noAuto ELSE @]
           /\ inflight' = inflight \cup Selects(c)
           /\ Goto(c, "writeExecs")
        \/ /\ ~matched
           /\ inflight' = inflight \cup Selects(c)
           /\ Goto(c, "writeExecs")
           /\ UNCHANGED software
     /\ UNCHANGED <<executables, folder, opened, arg, calls>>

\* The SELECT finds the row or not: an UPDATE or an INSERT follows, and an
\* executable to insert must have a path.
FindExecutable(i) ==
  LET found == HasExec(i.row.softwareId, i.row.name)
      Follow(step) == /\ inflight' = (inflight \ {i}) \cup {[i EXCEPT !.step = step]}
                      /\ UNCHANGED <<at, outcome>>
  IN /\ i \in inflight
     /\ i.step = "find"
     /\ \/ found /\ Follow("update")
        \/ ~found /\ i.path /\ Follow("insert")
        \/ ~found /\ ~i.path /\ Reject(i) /\ inflight' = inflight \ {i}
     /\ UNCHANGED <<tables, folder, opened, arg, calls>>

\* The UPDATE of an executable sets its path only when one is given; of a row
\* deleted meanwhile it changes nothing.
UpdateExecutable(i) ==
  /\ i \in inflight
  /\ i.step = "update"
  /\ inflight' = inflight \ {i}
  /\ executables' = {IF i.path /\ x.softwareId = i.row.softwareId /\ x.name = i.row.name
                       THEN i.row ELSE x : x \in executables}
  /\ UNCHANGED <<software, folder, opened, at, arg, outcome, calls>>

ExecutablesWritten(c) ==
  /\ at[c] = "writeExecs"
  /\ \A i \in Pending(c) : ~Awaited(i)
  /\ Goto(c, "fetch")
  /\ UNCHANGED <<tables, folder, opened, arg, inflight, calls>>

\* getSoftware of the (new) name: what it reads decides about the reinstall.
FetchRecord(c) ==
  LET found == Lookup(PackageOf[c], arg[c].to)
  IN /\ at[c] = "fetch"
     /\ \/ /\ found = {}
           /\ End(c, "not found")
           /\ UNCHANGED arg
        \/ /\ \E id \in found : arg' = [arg EXCEPT ![c].noAuto = software[id].noAuto]
           /\ \/ arg[c].to # arg[c].name /\ Goto(c, "copy")
              \/ arg[c].to = arg[c].name /\ arg[c].reinstall /\ Goto(c, "removeForReinstall")
              \/ arg[c].to = arg[c].name /\ ~arg[c].reinstall /\ End(c, "ok")
     /\ UNCHANGED <<tables, folder, opened, inflight, calls>>

\* copyContents: it lists the source, makes the directories found in it under
\* the destination, then copies the files.  Nothing makes the destination itself
\* when the source holds no directory; of an empty source nothing is copied.
CopyContents(c) ==
  LET dir == Dir(c, arg[c].to)
      src == folder[Dir(c, arg[c].name)]
      possible == src \in WithDirs \/ (src \in {"part", "flat"} /\ folder[dir] # "none")
  IN /\ at[c] = "copy"
     /\ \/ /\ possible
           /\ folder' = [folder EXCEPT ![dir] = Over(@, src)]
           /\ Goto(c, "removeOld")
        \/ /\ src = "empty"
           /\ Goto(c, "removeOld")
           /\ UNCHANGED folder
        \/ /\ ~possible /\ src # "empty"
           /\ End(c, "not found")
           /\ UNCHANGED folder
        \/ /\ possible /\ "disk" \in Flaws
           /\ folder' = [folder EXCEPT ![dir] = IF src \in WithDirs THEN "partial tree"
                                                 ELSE Over(@, "part")]
           /\ End(c, "failed")
     /\ UNCHANGED <<tables, opened, arg, inflight, calls>>

RemoveOld(c) ==
  LET dir == Dir(c, arg[c].name)
  IN /\ at[c] = "removeOld"
     /\ \/ /\ folder' = [folder EXCEPT ![dir] = "none"]
           /\ \/ arg[c].reinstall /\ Goto(c, "removeForReinstall")
              \/ ~arg[c].reinstall /\ End(c, "ok")
        \/ RemovalFails(c, dir)
     /\ UNCHANGED <<tables, opened, arg, inflight, calls>>

RemoveForReinstall(c) ==
  LET dir == Dir(c, arg[c].to)
  IN /\ at[c] = "removeForReinstall"
     /\ \/ /\ arg[c].noAuto
           /\ End(c, "ok")
           /\ UNCHANGED folder
        \/ /\ ~arg[c].noAuto
           /\ folder' = [folder EXCEPT ![dir] = "none"]
           /\ Goto(c, "refetch")
        \/ ~arg[c].noAuto /\ RemovalFails(c, dir)
     /\ UNCHANGED <<tables, opened, arg, inflight, calls>>

\* runInstall of what getSoftware returns now.
Refetch(c) ==
  LET found == Lookup(PackageOf[c], arg[c].to)
  IN /\ at[c] = "refetch"
     /\ \/ /\ found = {}
           /\ End(c, "not found")
           /\ UNCHANGED arg
        \/ /\ \E id \in found : arg' = [arg EXCEPT ![c].noAuto = software[id].noAuto,
                                                   ![c].type = software[id].type]
           /\ Goto(c, "runInstall")
     /\ UNCHANGED <<tables, folder, opened, inflight, calls>>

-----------------------------------------------------------------------------
\* deleteExecutable and renameExecutable both read the uuid of the software first.
FindOwner(c, op, n, e, f) ==
  LET found == Lookup(PackageOf[c], n)
      a == [Blank(op, n) EXCEPT !.exec = e, !.newExec = f]
  IN /\ Begin(c, op)
     /\ Open(c)
     /\ \/ /\ found = {}
           /\ arg' = [arg EXCEPT ![c] = a]
           /\ End(c, "not found")
        \/ /\ \E id \in found : arg' = [arg EXCEPT ![c] = [a EXCEPT !.id = id]]
           /\ Goto(c, op)
     /\ UNCHANGED <<tables, folder, inflight>>

DeleteExecutable(c) ==
  /\ at[c] = "deleteExec"
  /\ executables' = {x \in executables : ~(x.softwareId = arg[c].id /\ x.name = arg[c].exec)}
  /\ End(c, "ok")
  /\ UNCHANGED <<software, folder, opened, arg, inflight, calls>>

RenameExecutable(c) ==
  LET id == arg[c].id
      old == {x \in executables : x.softwareId = id /\ x.name = arg[c].exec}
      clash == arg[c].newExec # arg[c].exec /\ HasExec(id, arg[c].newExec)
  IN /\ at[c] = "renameExec"
     /\ \/ /\ old # {} /\ clash
           /\ End(c, "refused")
           /\ UNCHANGED executables
        \/ /\ old = {} \/ ~clash
           /\ executables' = (executables \ old) \cup
                               {[x EXCEPT !.name = arg[c].newExec] : x \in old}
           /\ End(c, "ok")
     /\ UNCHANGED <<software, folder, opened, arg, inflight, calls>>

\* The process of a caller dies: its unsent statements die with it.
Crash(c) ==
  /\ "crash" \in Flaws
  /\ at[c] # "idle"
  /\ End(c, "crashed")
  /\ inflight' = inflight \ Pending(c)
  /\ opened' = [opened EXCEPT ![c] = FALSE]
  /\ UNCHANGED <<tables, folder, arg, calls>>

-----------------------------------------------------------------------------
Call(c) ==
  \/ \E n \in Names, t \in Types, na \in BOOLEAN, es \in ExecLists : InstallSoftware(c, n, t, na, es)
  \/ \E n \in Names, t \in Types : RunInstall(c, n, t)
  \/ \E n \in Names : UninstallSoftware(c, n)
  \/ \E n, to \in Names, d \in Edits : UpdateSoftware(c, n, to, d)
  \/ \E n \in Names, e \in Execs : FindOwner(c, "deleteExec", n, e, NoExec)
  \/ \E n \in Names, e, f \in Execs : FindOwner(c, "renameExec", n, e, f)

Continue(c) ==
  \/ \E i \in Pending(c) : InsertExecutable(i) \/ FindExecutable(i) \/ UpdateExecutable(i)
  \/ RollBack(c)
  \/ ExecutablesInserted(c)
  \/ SkipDownload(c)
  \/ StartDownload(c)
  \/ WriteDownload(c)
  \/ FinishDownload(c)
  \/ Extract(c)
  \/ MarkInstalled(c)
  \/ DeleteExecutables(c)
  \/ DeleteSoftware(c)
  \/ UpdateRow(c)
  \/ ExecutablesWritten(c)
  \/ FetchRecord(c)
  \/ CopyContents(c)
  \/ RemoveOld(c)
  \/ RemoveForReinstall(c)
  \/ Refetch(c)
  \/ DeleteExecutable(c)
  \/ RenameExecutable(c)

Next == \E c \in Callers : Call(c) \/ Continue(c) \/ FailDownload(c) \/ Crash(c)

Spec == Init /\ [][Next]_vars

-----------------------------------------------------------------------------
\* No package has two pieces of software of one name, and no software two
\* executables of one name, however installs and renames race: UNIQUE in
\* constants.ts, checked by SQLite and nowhere in software.ts.
NoDuplicates ==
  /\ \A i, j \in Rows : software[i].owner = software[j].owner /\ software[i].name = software[j].name
                       => i = j
  /\ \A x, y \in executables : x.softwareId = y.softwareId /\ x.name = y.name => x = y

\* Executables never outlive their software: installSoftware inserts them last,
\* uninstallSoftware deletes them first, so a crash between two statements
\* leaves none behind.
NoOrphanExecutables == \A x \in executables : x.softwareId \in Rows

\* What installSoftware inserted stays there while the install is under way:
\* its row, and each executable either in the table or still being inserted.
InstallKept ==
  \A c \in Callers :
    at[c] # "idle" /\ arg[c].op = "install" =>
      /\ arg[c].id \in Lookup(PackageOf[c], arg[c].name)
      /\ at[c] # "rollback" =>
           \A e \in arg[c].execs :
             \/ HasExec(arg[c].id, e)
             \/ \E i \in Pending(c) : i.row.name = e /\ i.row.softwareId = arg[c].id

\* When installSoftware has resolved, all it promises is there: the row, all the
\* executables and, for software that is downloaded, the complete files and the
\* installed flag.
ReportedInstall ==
  \A c \in Callers :
    LET a == arg[c] IN
    at[c] = "idle" /\ a.op = "install" /\ outcome[c] = "ok" =>
      /\ a.id \in Lookup(PackageOf[c], a.name)
      /\ \A e \in a.execs : HasExec(a.id, e)
      /\ a.noAuto \/ a.type = "NO_DOWNLOAD" \/
           (software[a.id].installed /\ folder[Dir(c, a.name)] \in Complete)

\* When uninstallSoftware has resolved, neither the row nor the files are left.
UninstallLeavesNothing ==
  \A c \in Callers :
    at[c] = "idle" /\ arg[c].op = "uninstall" /\ outcome[c] = "ok" =>
      /\ Lookup(PackageOf[c], arg[c].name) = {}
      /\ folder[Dir(c, arg[c].name)] = "none"

\* When updateSoftware has resolved, every executable given to it with a path is
\* registered with that path in the folder of the new name, whichever of its
\* statements was inserted, updated or clashed ("if a new name for the software
\* is set, we handle using the right path ourselves").  One given without a path
\* keeps the row, and the path, it had.  An earlier call that threw may have left
\* statements that write over these: an update that met them is not judged.
UpdatedPath ==
  \A c \in Callers :
    LET a == arg[c] IN
    at[c] = "idle" /\ a.op = "update" /\ outcome[c] = "ok" /\ a.alone =>
      \A i \in DOMAIN a.list :
        a.list[i].path =>
          [name |-> a.list[i].name, softwareId |-> a.id, folder |-> a.to] \in executables

\* No caller of package p moves.
Still(p) == \A c \in Callers : PackageOf[c] = p => UNCHANGED <<at[c], arg[c], Pending(c)>>

OwnIds(p) == {id \in Rows : software[id].owner = p}
OwnExecutables(p) == {x \in executables : x.softwareId \in OwnIds(p)}
OwnFolders(p) == [n \in Names |-> folder[<<p, n>>]]
OwnRows(p) == [id \in OwnIds(p) |-> <<software[id].name, software[id].noAuto>>]

\* Only the package's own instances change which software and executables it
\* has, what they are called and what is in its folders.
OwnerIsolation ==
  [][\A p \in Packages : Still(p) =>
       UNCHANGED <<OwnRows(p), OwnExecutables(p), OwnFolders(p)>>]_vars

\* The same of the installed flag: "the ownerName field used to limit software
\* to only that used by an add-on" (software.ts:86).
OwnerLimitsInstalled ==
  [][\A p \in Packages : Still(p) =>
       UNCHANGED [id \in OwnIds(p) |-> software[id].installed]]_vars

\* The software table as the catalogue sees it.
entry == [id \in Ids |-> IF id \in Rows THEN <<software[id].owner, software[id].name>> ELSE NoId]
Catalogue == INSTANCE SoftwareCatalogue WITH NoEntry <- NoId

\* Whatever the calls do, the table only registers, renames and removes software
\* one at a time, and a uuid never passes to another package.
ImplementsCatalogue == Catalogue!Spec
=============================================================================
