--------------------------- MODULE AddOnsRegistry ---------------------------
(***************************************************************************)
(* The registry of add-ons (class AddOnsRegistry of                        *)
(* packages/@twokeys/addons): the dependencies listed in package.json, the *)
(* code npm puts in node_modules, and the `packages` table that indexes    *)
(* it.  Callers are the processes, or the promises of one process, that    *)
(* use one registry: setup, the CLI and the server.  Every await of a call *)
(* is a step; an SQL statement is atomic.                                  *)
(*                                                                         *)
(* npm is external: a command changes node_modules, then package.json.     *)
(***************************************************************************)
EXTENDS Naturals, FiniteSets

CONSTANTS
  Callers,    \* users of the registry
  Packages,   \* npm packages
  Versions,   \* their versions, positive numbers
  Published,  \* what each version of each package contains
  Operations, \* the operations callers use
  Options,    \* the options given to install
  Flaws,      \* what may go wrong: "npm", "script", "crash"
  MaxCalls    \* bound on the number of calls

(* "plain" has no 2Keys metadata, "entryless" has it with types but no     *)
(* entry points at all, "undescribed" has no description in its            *)
(* package.json, "add-on" is complete.                                     *)
Kinds == {"plain", "entryless", "undescribed", "add-on"}

ASSUME PackagesAssumption == Packages # {}
ASSUME VersionsAssumption == Versions \subseteq Nat \ {0}
ASSUME PublishedAssumption == Published \in [Packages -> [Versions -> Kinds]]
ASSUME OptionsAssumption == Options \subseteq [force : BOOLEAN, link : BOOLEAN]
ASSUME BoundAssumption == MaxCalls \in Nat

VARIABLES
  db,      \* the registry's directory and SQLite file
  deps,    \* dependencies in the registry's package.json
  module,  \* version in node_modules, None when absent
  row,     \* version recorded in the packages table, None without a row
  at,      \* where the call of each caller stands
  arg,     \* its arguments and what it has read
  outcome, \* how the last call of each caller ended
  calls    \* number of calls made

vars == <<db, deps, module, row, at, arg, outcome, calls>>
disk == <<deps, module>>

-----------------------------------------------------------------------------
None == 0
MaybeVersion == Versions \cup {None}

Stage == {"idle", "checkDB", "openDB", "createTable", "npm", "npmSave", "query",
          "replace", "readPackageJSON", "write", "reread", "load", "runInstalls",
          "deleteRow", "readDeps", "nextDep", "import"}

Outcome == {"none", "added", "done", "already in registry", "DB exists", "invalid",
            "failed", "vanished", "crashed"}

Arg == [op : {"none", "create", "install", "uninstall", "update", "reindex", "loadAll"},
        pkg : Packages,
        version : MaybeVersion,    \* version asked of npm
        force : BOOLEAN,
        update : BOOLEAN,
        link : BOOLEAN,            \* `npm link` in place of `npm install`
        document : MaybeVersion,   \* package.json read by addPackageToDB
        todo : SUBSET Packages]    \* dependencies to reindex, add-ons to import

Blank(op) == [op |-> op, pkg |-> CHOOSE p \in Packages : TRUE, version |-> None,
              force |-> FALSE, update |-> FALSE, link |-> FALSE, document |-> None,
              todo |-> {}]

TypeOK ==
  /\ db \in {"no directory", "absent", "empty", "ready"}
  /\ deps \subseteq Packages
  /\ module \in [Packages -> MaybeVersion]
  /\ row \in [Packages -> MaybeVersion]
  /\ at \in [Callers -> Stage]
  /\ arg \in [Callers -> Arg]
  /\ outcome \in [Callers -> Outcome]
  /\ calls \in Nat
  /\ db # "ready" => \A p \in Packages : row[p] = None

Init ==
  /\ db = "no directory"
  /\ deps = {}
  /\ module = [p \in Packages |-> None]
  /\ row = [p \in Packages |-> None]
  /\ at = [c \in Callers |-> "idle"]
  /\ arg = [c \in Callers |-> Blank("none")]
  /\ outcome = [c \in Callers |-> "none"]
  /\ calls = 0

-----------------------------------------------------------------------------
\* validatePackageJSON: a valid type, and an entry point for each.
Valid(p, v) == v \in Versions /\ Published[p][v] \notin {"plain", "entryless"}

\* It throws on types without `entry`; so does reading a missing package.
Throws(p, v) == v \in Versions => Published[p][v] = "entryless"

\* parsePackageFromDB also wants a version and a description.
Readable(p) == row[p] # None => Published[p][row[p]] = "add-on"

Registered == {p \in Packages : row[p] # None}

\* initDB: opening the database makes the file, without any table.
Opened == IF db = "absent" THEN "empty" ELSE db

Begin(c, op) ==
  /\ at[c] = "idle"
  /\ op \in Operations
  /\ calls < MaxCalls
  /\ calls' = calls + 1

Goto(c, s) ==
  /\ at' = [at EXCEPT ![c] = s]
  /\ UNCHANGED outcome

End(c, result) ==
  /\ at' = [at EXCEPT ![c] = "idle"]
  /\ outcome' = [outcome EXCEPT ![c] = result]

-----------------------------------------------------------------------------
\* createNewRegistry makes the directory and writes the default package.json
\* before it looks whether the registry exists.
CreateNewRegistry(c) ==
  /\ Begin(c, "create")
  /\ db' = IF db = "no directory" THEN "absent" ELSE db
  /\ deps' = {}
  /\ arg' = [arg EXCEPT ![c] = Blank("create")]
  /\ Goto(c, "checkDB")
  /\ UNCHANGED <<module, row>>

CheckDB(c) ==
  /\ at[c] = "checkDB"
  /\ IF db = "absent" THEN Goto(c, "openDB") ELSE End(c, "DB exists")
  /\ UNCHANGED <<db, disk, row, arg, calls>>

OpenDB(c) ==
  /\ at[c] = "openDB"
  /\ db' = Opened
  /\ Goto(c, "createTable")
  /\ UNCHANGED <<disk, row, arg, calls>>

\* CREATE TABLE IF NOT EXISTS
CreateTable(c) ==
  /\ at[c] = "createTable"
  /\ db' = "ready"
  /\ End(c, "done")
  /\ UNCHANGED <<disk, row, arg, calls>>

-----------------------------------------------------------------------------
\* npm runs in the directory of the registry: chdir throws without one.
GotoNpm(c) == IF db = "no directory" THEN End(c, "failed") ELSE Goto(c, "npm")

Install(c, p, v, o) ==
  /\ Begin(c, "install")
  /\ arg' = [arg EXCEPT ![c] = [Blank("install") EXCEPT
                !.pkg = p, !.version = v, !.force = o.force, !.link = o.link]]
  /\ GotoNpm(c)
  /\ UNCHANGED <<db, disk, row>>

\* update: npm install, then addPackageToDB with force and update.
Update(c, p, v) ==
  /\ Begin(c, "update")
  /\ arg' = [arg EXCEPT ![c] = [Blank("update") EXCEPT
                !.pkg = p, !.version = v, !.force = TRUE, !.update = TRUE]]
  /\ GotoNpm(c)
  /\ UNCHANGED <<db, disk, row>>

\* uninstall throws for a package that is not in node_modules.
Uninstall(c, p) ==
  /\ Begin(c, "uninstall")
  /\ arg' = [arg EXCEPT ![c] = [Blank("uninstall") EXCEPT !.pkg = p]]
  /\ IF module[p] = None THEN End(c, "failed") ELSE Goto(c, "npm")
  /\ UNCHANGED <<db, disk, row>>

RunNpm(c) ==
  /\ at[c] = "npm"
  /\ module' = [module EXCEPT ![arg[c].pkg] = arg[c].version]
  /\ Goto(c, "npmSave")
  /\ UNCHANGED <<db, deps, row, arg, calls>>

\* `npm link` does not save the package as a dependency.
SaveDependencies(c) ==
  /\ at[c] = "npmSave"
  /\ deps' = CASE arg[c].op = "uninstall" -> deps \ {arg[c].pkg}
               [] arg[c].link             -> deps
               [] OTHER                   -> deps \cup {arg[c].pkg}
  /\ Goto(c, IF arg[c].op = "uninstall" THEN "deleteRow" ELSE "query")
  /\ UNCHANGED <<db, module, row, arg, calls>>

NpmFails(c) ==
  /\ "npm" \in Flaws
  /\ at[c] = "npm"
  /\ End(c, "failed")
  /\ UNCHANGED <<db, disk, row, arg, calls>>

\* removePackageFromDB, the end of uninstall.
DeleteRow(c) ==
  /\ at[c] = "deleteRow"
  /\ db' = Opened
  /\ row' = [row EXCEPT ![arg[c].pkg] = None]
  /\ End(c, IF db = "ready" THEN "done" ELSE "failed")
  /\ UNCHANGED <<disk, arg, calls>>

-----------------------------------------------------------------------------
(* addPackageToDB, called by install, by update, and by reindex for each   *)
(* dependency.                                                             *)

\* It returns status false: reindex goes on with the next dependency.
NotAdded(c, why) ==
  IF arg[c].op = "reindex" THEN Goto(c, "nextDep") ELSE End(c, why)

\* It returns status true: install goes on, update returns it.
Added(c) ==
  CASE arg[c].op = "install" -> Goto(c, "reread")
    [] arg[c].op = "update"  -> End(c, "added")
    [] OTHER                 -> Goto(c, "nextDep")

\* Slip: the row is replaced, not updated, when an update is asked.
QueryRegistryReplacing(c) ==
  LET p == arg[c].pkg IN
  /\ at[c] = "query"
  /\ CASE db # "ready"                      -> End(c, "failed")
       [] db = "ready" /\ ~Readable(p)      -> NotAdded(c, "invalid")
       [] Readable(p) /\ row[p] # None /\ ~arg[c].force -> NotAdded(c, "already in registry")
       [] Readable(p) /\ row[p] # None /\ arg[c].force  -> Goto(c, "replace")
       [] OTHER                             -> Goto(c, "readPackageJSON")
  /\ db' = Opened
  /\ UNCHANGED <<disk, row, arg, calls>>

\* Slip: a package that is already registered counts as added.
QueryRegistryLenient(c) ==
  LET p == arg[c].pkg IN
  /\ at[c] = "query"
  /\ \/ db # "ready" /\ End(c, "failed")
     \/ db = "ready" /\ ~Readable(p) /\ NotAdded(c, "invalid")
     \/ /\ p \in Registered /\ Readable(p)
        /\ IF ~arg[c].force THEN Added(c)
           ELSE Goto(c, IF arg[c].update THEN "readPackageJSON" ELSE "replace")
     \/ db = "ready" /\ p \notin Registered /\ Goto(c, "readPackageJSON")
  /\ db' = Opened
  /\ UNCHANGED <<disk, row, arg, calls>>

\* Slip: the error of the SELECT is swallowed.
QueryRegistryCaught(c) ==
  LET p == arg[c].pkg IN
  /\ at[c] = "query"
  /\ IF p \in Registered /\ ~arg[c].force
     THEN NotAdded(c, "already in registry")
     ELSE Goto(c, IF p \in Registered /\ ~arg[c].update THEN "replace" ELSE "readPackageJSON")
  /\ db' = Opened
  /\ UNCHANGED <<disk, row, arg, calls>>

\* Without the table the SELECT throws; a row that does not parse is an error
\* whatever the options.
QueryRegistry(c) ==
  LET p == arg[c].pkg IN
  /\ at[c] = "query"
  /\ \/ db # "ready" /\ End(c, "failed")
     \/ db = "ready" /\ ~Readable(p) /\ NotAdded(c, "invalid")
     \/ /\ p \in Registered /\ Readable(p)
        /\ IF ~arg[c].force THEN NotAdded(c, "already in registry")
           ELSE Goto(c, IF arg[c].update THEN "readPackageJSON" ELSE "replace")
     \/ db = "ready" /\ p \notin Registered /\ Goto(c, "readPackageJSON")
  /\ db' = Opened
  /\ UNCHANGED <<disk, row, arg, calls>>

\* The old row goes before the new package.json is even read.
ReplaceRow(c) ==
  /\ at[c] = "replace"
  /\ row' = [row EXCEPT ![arg[c].pkg] = None]
  /\ Goto(c, "readPackageJSON")
  /\ UNCHANGED <<db, disk, arg, calls>>

\* Slip: package.json is not validated.
ReadAnyPackageJSON(c) ==
  LET p == arg[c].pkg IN
  /\ at[c] = "readPackageJSON"
  /\ IF module[p] = None
     THEN /\ End(c, "failed")
          /\ UNCHANGED arg
     ELSE /\ arg' = [arg EXCEPT ![c].document = module[p]]
          /\ Goto(c, "write")
  /\ UNCHANGED <<db, disk, row, calls>>

\* What throws here ends reindex as well.
ReadPackageJSON(c) ==
  LET p == arg[c].pkg IN
  /\ at[c] = "readPackageJSON"
  /\ \/ /\ Throws(p, module[p])
        /\ End(c, "failed")
        /\ UNCHANGED arg
     \/ /\ ~Throws(p, module[p]) /\ ~Valid(p, module[p])
        /\ NotAdded(c, "invalid")
        /\ UNCHANGED arg
     \/ /\ Valid(p, module[p])
        /\ arg' = [arg EXCEPT ![c].document = module[p]]
        /\ Goto(c, "write")
  /\ UNCHANGED <<db, disk, row, calls>>

\* UPDATE changes the row there is, if any.  INSERT throws on UNIQUE(name).
WriteRow(c) ==
  LET p == arg[c].pkg IN
  /\ at[c] = "write"
  /\ \/ /\ arg[c].update
        /\ row' = [row EXCEPT ![p] = IF p \in Registered THEN arg[c].document ELSE None]
        /\ Added(c)
     \/ /\ ~arg[c].update /\ p \notin Registered
        /\ row' = [row EXCEPT ![p] = arg[c].document]
        /\ Added(c)
     \/ /\ ~arg[c].update /\ p \in Registered
        /\ End(c, "failed")
        /\ UNCHANGED row
  /\ UNCHANGED <<db, disk, arg, calls>>

-----------------------------------------------------------------------------
\* install reads back what it has added.
ReadBack(c) ==
  LET p == arg[c].pkg IN
  /\ at[c] = "reread"
  /\ CASE p \notin Registered -> End(c, "vanished")
       [] ~Readable(p)        -> End(c, "invalid")
       [] OTHER               -> Goto(c, "load")
  /\ UNCHANGED <<db, disk, row, arg, calls>>

\* load(): another SELECT, then the entry point is imported.
LoadScripts(c) ==
  LET p == arg[c].pkg IN
  /\ at[c] = "load"
  /\ IF p \in Registered /\ Readable(p) /\ module[p] # None
     THEN Goto(c, "runInstalls")
     ELSE End(c, "failed")
  /\ UNCHANGED <<db, disk, row, arg, calls>>

\* The install() functions of the add-on.
RunInstalls(c) ==
  /\ at[c] = "runInstalls"
  /\ End(c, "added")
  /\ UNCHANGED <<db, disk, row, arg, calls>>

ScriptFails(c) ==
  /\ "script" \in Flaws
  /\ at[c] \in {"load", "runInstalls"}
  /\ End(c, "failed")
  /\ UNCHANGED <<db, disk, row, arg, calls>>

-----------------------------------------------------------------------------
\* Slip: the table is not emptied.
ReindexOver(c) ==
  /\ Begin(c, "reindex")
  /\ arg' = [arg EXCEPT ![c] = Blank("reindex")]
  /\ IF db = "ready" THEN Goto(c, "readDeps") ELSE End(c, "failed")
  /\ db' = Opened
  /\ UNCHANGED <<disk, row>>

\* reindex: DELETE FROM packages, then every dependency of package.json.
Reindex(c) ==
  /\ Begin(c, "reindex")
  /\ arg' = [arg EXCEPT ![c] = Blank("reindex")]
  /\ row' = [p \in Packages |-> None]
  /\ IF db = "ready" THEN Goto(c, "readDeps") ELSE End(c, "failed")
  /\ db' = Opened
  /\ UNCHANGED disk

ReadDependencies(c) ==
  /\ at[c] = "readDeps"
  /\ arg' = [arg EXCEPT ![c].todo = deps]
  /\ Goto(c, "nextDep")
  /\ UNCHANGED <<db, disk, row, calls>>

\* Slip: the dependency stays on the list.
NextDependencyKept(c) ==
  /\ at[c] = "nextDep"
  /\ \/ /\ arg[c].todo = {}
        /\ End(c, "done")
        /\ UNCHANGED arg
     \/ \E p \in arg[c].todo :
          /\ arg' = [arg EXCEPT ![c].pkg = p]
          /\ Goto(c, "query")
  /\ UNCHANGED <<db, disk, row, calls>>

NextDependency(c) ==
  /\ at[c] = "nextDep"
  /\ \/ /\ arg[c].todo = {}
        /\ End(c, "done")
        /\ UNCHANGED arg
     \/ \E p \in arg[c].todo :
          /\ arg' = [arg EXCEPT ![c].pkg = p, ![c].todo = @ \ {p}]
          /\ Goto(c, "query")
  /\ UNCHANGED <<db, disk, row, calls>>

-----------------------------------------------------------------------------
\* loadAllOfType: one row that does not parse and nothing is loaded.
LoadAllOfType(c) ==
  /\ Begin(c, "loadAll")
  /\ arg' = [arg EXCEPT ![c] = [Blank("loadAll") EXCEPT !.todo = Registered]]
  /\ IF db = "ready" /\ \A p \in Registered : Readable(p)
     THEN Goto(c, "import")
     ELSE End(c, "failed")
  /\ db' = Opened
  /\ UNCHANGED <<disk, row>>

Import(c) ==
  /\ at[c] = "import"
  /\ \/ /\ arg[c].todo = {}
        /\ End(c, "done")
        /\ UNCHANGED arg
     \/ \E p \in arg[c].todo :
          IF module[p] = None
          THEN /\ End(c, "failed")
               /\ UNCHANGED arg
          ELSE /\ arg' = [arg EXCEPT ![c].todo = @ \ {p}]
               /\ UNCHANGED <<at, outcome>>
  /\ UNCHANGED <<db, disk, row, calls>>

\* The process dies; what is on disk and in the database stays.
Crash(c) ==
  /\ "crash" \in Flaws
  /\ at[c] # "idle"
  /\ End(c, "crashed")
  /\ UNCHANGED <<db, disk, row, arg, calls>>

-----------------------------------------------------------------------------
Call(c) ==
  \/ CreateNewRegistry(c)
  \/ \E p \in Packages, v \in Versions, o \in Options : Install(c, p, v, o)
  \/ \E p \in Packages, v \in Versions : Update(c, p, v)
  \/ \E p \in Packages : Uninstall(c, p)
  \/ Reindex(c)
  \/ LoadAllOfType(c)

Continue(c) ==
  \/ CheckDB(c) \/ OpenDB(c) \/ CreateTable(c)
  \/ RunNpm(c) \/ SaveDependencies(c) \/ NpmFails(c) \/ DeleteRow(c)
  \/ QueryRegistry(c) \/ ReplaceRow(c) \/ ReadPackageJSON(c) \/ WriteRow(c)
  \/ ReadBack(c) \/ LoadScripts(c) \/ RunInstalls(c) \/ ScriptFails(c)
  \/ ReadDependencies(c) \/ NextDependency(c) \/ Import(c)

Next == \E c \in Callers : Call(c) \/ Continue(c) \/ Crash(c)

Spec == Init /\ [][Next]_vars

\* A call that awaits something is resumed: npm and SQLite answer.
FairSpec == Spec /\ \A c \in Callers : WF_vars(Continue(c))

-----------------------------------------------------------------------------
\* How the last call of c ended, when it was a call of op.
Ended(c, op, result) == at[c] = "idle" /\ arg[c].op = op /\ outcome[c] = result

\* Whatever runs at the same time, and wherever it stops, the table never
\* lists a package whose package.json does not pass validatePackageJSON.
OnlyAddOnsRegistered == \A p \in Registered : Valid(p, row[p])

\* An install that reports status true, alone on the registry, leaves the
\* version it was asked for in node_modules, in the table and, unless it was
\* linked, in package.json, and the row can be read back.
ReportedInstall ==
  \A c \in Callers : Ended(c, "install", "added") =>
    LET p == arg[c].pkg IN
    /\ module[p] = arg[c].version /\ row[p] = arg[c].version
    /\ Readable(p)
    /\ ~arg[c].link => p \in deps

\* After any crashes, a reindex that ends rebuilds the table: the valid
\* packages among the dependencies, at the version that is installed.
ReindexRebuilds ==
  \A c \in Callers : Ended(c, "reindex", "done") =>
    /\ Registered = {p \in deps : Valid(p, module[p])}
    /\ \A p \in Registered : row[p] = module[p]

\* A package leaves the table through an uninstall, a forced install or a
\* reindex; an update never takes it out, even for the time of a step, so a
\* server that loads add-ons meanwhile still finds it.
OnlyRemovalsUnregister ==
  [][\A p \in Packages : p \in Registered /\ row'[p] = None =>
       \E c \in Callers : \/ at[c] = "idle" /\ at'[c] = "readDeps"
                          \/ /\ at[c] \in {"replace", "deleteRow"}
                             /\ arg[c].pkg = p
                             /\ arg[c].op \in {"install", "uninstall"}]_vars

\* Every call ends, reindex and loadAllOfType included.
CallsEnd == \A c \in Callers : at[c] # "idle" ~> at[c] = "idle"
=============================================================================
