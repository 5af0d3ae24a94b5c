------------------------ MODULE SoftwareReportsProofs ------------------------
(***************************************************************************)
(* What a call of SoftwareRegistry reports is true, for any number of      *)
(* packages, calls, failures and crashes, provided each package has one    *)
(* caller: calls of other packages cannot make it false.                   *)
(***************************************************************************)
EXTENDS SoftwareRegistryProofs

OwnCallers == \A c, d \in Callers : PackageOf[c] = PackageOf[d] => c = d

\* A step of a caller.
StepOf(c) == Call(c) \/ Continue(c) \/ FailDownload(c) \/ Crash(c)

\* It leaves the calls of the others where they are.
LEMMA OthersControl ==
  ASSUME TypeOK, NEW c \in Callers, NEW d \in Callers \ {c}, StepOf(d)
  PROVE  /\ at'[c] = at[c] /\ arg'[c] = arg[c]
         /\ outcome'[c] = outcome[c] /\ opened'[c] = opened[c]
         /\ Pending(c)' = Pending(c)
<1> DEFINE Moves == \/ \E s : Goto(d, s)
                    \/ \E r : End(d, r)
                    \/ UNCHANGED <<at, outcome>>
<1>1. arg'[c] = arg[c]
  <2>1. arg \in [Callers -> Arg]  BY DEF TypeOK
  <2>2. arg' = arg \/ \E a : arg' = [arg EXCEPT ![d] = a]
    BY CallArg, ContinueArg DEF StepOf
  <2>3. QED  BY <2>1, <2>2
<1>2. ASSUME NEW i \in Pending(d), InsertExecutable(i) \/ FindExecutable(i) \/ UpdateExecutable(i)
      PROVE  Moves /\ opened' = opened /\ Pending(c)' = Pending(c)
  <2>1. i \in inflight /\ i.caller = d /\ i \in Statement  BY StatementFacts DEF Pending
  <2>2. Reject(i) => Moves  BY <2>1 DEF Reject
  <2>3. Moves /\ opened' = opened
    BY <1>2, <2>2 DEF InsertExecutable, FindExecutable, UpdateExecutable
  <2>4. \A s : [i EXCEPT !.step = s].caller = d  BY <2>1 DEF Statement
  <2>5. \/ inflight' = inflight \ {i}
        \/ \E s : inflight' = (inflight \ {i}) \cup {[i EXCEPT !.step = s]}
    BY <1>2 DEF InsertExecutable, FindExecutable, UpdateExecutable
  <2>6. QED  BY <2>1, <2>3, <2>4, <2>5 DEF Pending
<1>3. Call(d) => Moves /\ (opened' = opened \/ Open(d))
  <2>1. ASSUME NEW n \in Names, NEW t \in Types, NEW na \in BOOLEAN, NEW es \in ExecLists,
               InstallSoftware(d, n, t, na, es)
        PROVE  Moves /\ Open(d)
    BY <2>1 DEF InstallSoftware
  <2>2. ASSUME NEW n \in Names, NEW to \in Names, NEW e \in Edits, UpdateSoftware(d, n, to, e)
        PROVE  Moves /\ Open(d)
    BY <2>2 DEF UpdateSoftware
  <2>3. ASSUME NEW n \in Names, NEW t \in Types, RunInstall(d, n, t)
        PROVE  Moves /\ opened' = opened
    BY <2>3 DEF RunInstall
  <2>4. ASSUME NEW op, NEW n, NEW e, NEW f, FindOwner(d, op, n, e, f)
        PROVE  Moves /\ Open(d)
    BY <2>4 DEF FindOwner
  <2>5. (\E n \in Names : UninstallSoftware(d, n)) => Moves /\ opened' = opened
    BY DEF UninstallSoftware, RemovalFails
  <2> HIDE DEF Moves
  <2>6. QED  BY <2>1, <2>2, <2>3, <2>4, <2>5 DEF Call
<1>4. Call(d) => Pending(c)' = Pending(c)
  <2>1. ASSUME NEW n \in Names, NEW t \in Types, NEW na \in BOOLEAN, NEW es \in ExecLists,
               InstallSoftware(d, n, t, na, es)
        PROVE  Pending(c)' = Pending(c)
    <3>1. CASE UNCHANGED inflight  BY <3>1 DEF Pending
    <3>2. CASE inflight' # inflight
      <4>1. PICK id \in Fresh :
               inflight' = inflight \cup
                 {[caller |-> d, call |-> calls, slot |-> i, step |-> "insert", path |-> TRUE,
                   row |-> [name |-> es[i], softwareId |-> id, folder |-> n]] : i \in DOMAIN es}
        BY <2>1, <3>2 DEF InstallSoftware, tables
      <4>2. QED  BY <4>1 DEF Pending
    <3>3. QED  BY <3>1, <3>2
  <2>2. QED
    BY <2>1 DEF Call, RunInstall, UninstallSoftware, UpdateSoftware, FindOwner, Pending
<1>5. UpdateRow(d) => Pending(c)' = Pending(c)
  <2>1. \A x \in Selects(d) : x.caller = d  BY DEF Selects
  <2>2. UpdateRow(d) => UNCHANGED inflight \/ inflight' = inflight \cup Selects(d)
    BY DEF UpdateRow
  <2>3. QED  BY <2>1, <2>2 DEF Pending
<1>6. Continue(d) => Moves /\ opened' = opened
  BY <1>2 DEF Continue, RollBack, ExecutablesInserted, ExecutablesWritten, SkipDownload, StartDownload,
     WriteDownload, FinishDownload, Extract, MarkInstalled, DeleteExecutables, DeleteSoftware,
     UpdateRow, FetchRecord, CopyContents, RemoveOld, RemoveForReinstall, RemovalFails, Refetch,
     DeleteExecutable, RenameExecutable
<1>7. Continue(d) => Pending(c)' = Pending(c)
  BY <1>2, <1>5 DEF Continue, RollBack, ExecutablesInserted, ExecutablesWritten, SkipDownload,
     StartDownload, WriteDownload, FinishDownload, Extract, MarkInstalled, DeleteExecutables,
     DeleteSoftware, FetchRecord, CopyContents, RemoveOld, RemoveForReinstall, Refetch,
     DeleteExecutable, RenameExecutable, Pending
<1>8. FailDownload(d) \/ Crash(d) =>
         Moves /\ opened'[c] = opened[c] /\ Pending(c)' = Pending(c)
  BY DEF FailDownload, Crash, Pending, TypeOK
<1>9. Moves => at'[c] = at[c] /\ outcome'[c] = outcome[c]
  BY DEF Goto, End, TypeOK
<1>10. Open(d) => opened'[c] = opened[c]  BY DEF Open, TypeOK
<1> HIDE DEF Moves
<1>11. QED  BY <1>1, <1>3, <1>4, <1>6, <1>7, <1>8, <1>9, <1>10 DEF StepOf

\* A call that goes on stays the call it is.
Same(c) ==
  /\ arg'[c].op = arg[c].op /\ arg'[c].name = arg[c].name /\ arg'[c].to = arg[c].to
  /\ arg'[c].id = arg[c].id /\ arg'[c].list = arg[c].list /\ arg'[c].call = arg[c].call
  /\ arg'[c].alone = arg[c].alone

LEMMA SameCall ==
  ASSUME TypeOK, NEW c \in Callers, Continue(c) \/ FailDownload(c) \/ Crash(c)
  PROVE  /\ Same(c)
         /\ at[c] \notin {"fetch", "refetch"} => arg'[c] = arg[c]
<1>1. ASSUME NEW x, NEW t, arg' = [arg EXCEPT ![c] = [arg[c] EXCEPT !.noAuto = x, !.type = t]]
      PROVE  Same(c)
  <2>1. arg \in [Callers -> Arg] /\ arg[c] \in Arg  BY DEF TypeOK
  <2>2. arg'[c] = [arg[c] EXCEPT !.noAuto = x, !.type = t]  BY <1>1, <2>1
  <2>3. QED  BY <2>1, <2>2 DEF Same, Arg
<1>2. UNCHANGED arg => Same(c)  BY DEF Same
<1>3. QED  BY <1>1, <1>2, ContinueArg

\* SQLite executes a statement about an executable.
Executes(i) == InsertExecutable(i) \/ FindExecutable(i) \/ UpdateExecutable(i)

\* It touches neither the software nor the folders, takes no executable away, and
\* moves a caller only when it is rejected.
LEMMA StatementSteps ==
  ASSUME TypeOK, NEW c \in Callers, NEW i \in Pending(c), Executes(i)
  PROVE  /\ UNCHANGED <<software, folder, opened, arg, calls>>
         /\ ~Awaited(i) => UNCHANGED <<at, outcome>>
         /\ \A id, e : HasExec(id, e) => HasExec(id, e)'
<1>1. i \in inflight /\ i.caller = c /\ i.row \in Executable  BY StatementFacts DEF Pending
<1>2. UNCHANGED <<software, folder, opened, arg, calls>>
  BY DEF Executes, InsertExecutable, FindExecutable, UpdateExecutable, tables
<1>3. ~Awaited(i) => UNCHANGED <<at, outcome>>
  BY DEF Executes, InsertExecutable, FindExecutable, UpdateExecutable, Reject
<1>4. ASSUME NEW id, NEW e, HasExec(id, e)
      PROVE  HasExec(id, e)'
  <2>1. PICK x \in executables : x.softwareId = id /\ x.name = e  BY <1>4 DEF HasExec
  <2>2. CASE executables \subseteq executables'  BY <2>1, <2>2 DEF HasExec
  <2>3. CASE UpdateExecutable(i)
    <3> DEFINE y == IF i.path /\ x.softwareId = i.row.softwareId /\ x.name = i.row.name
                      THEN i.row ELSE x
    <3>1. y \in executables'  BY <2>3 DEF UpdateExecutable
    <3>2. y.softwareId = id /\ y.name = e  BY <2>1
    <3> HIDE DEF y
    <3>3. QED  BY <3>1, <3>2 DEF HasExec
  <2>4. QED  BY <2>2, <2>3 DEF Executes, InsertExecutable, FindExecutable, tables
<1>5. QED  BY <1>2, <1>3, <1>4

\* Where a rejected statement takes its caller.
LEMMA StatementMoves ==
  ASSUME TypeOK, NEW c \in Callers, NEW i \in Pending(c), Executes(i)
  PROVE  \/ UNCHANGED <<at, outcome>>
         \/ at[c] = "insertExecs" /\ at'[c] = "rollback"
         \/ at[c] = "writeExecs" /\ at'[c] = "idle" /\ outcome'[c] = "failed"
<1>1. i.caller = c  BY DEF Pending
<1>2. UNCHANGED <<at, outcome>> \/ Reject(i)
  BY DEF Executes, InsertExecutable, FindExecutable, UpdateExecutable
<1>3. QED  BY <1>1, <1>2 DEF Reject, Goto, End, TypeOK

\* What the steps of others leave a caller alone in its package.
LEMMA OthersLeave ==
  ASSUME OwnCallers, TypeOK, Owned, NEW c \in Callers, NEW d \in Callers \ {c}, StepOf(d)
  PROVE  RowsKept(PackageOf[c]) /\ ExecutablesKept(PackageOf[c]) /\ FoldersKept(PackageOf[c])
<1>1. PackageOf[c] \in Packages /\ PackageOf[c] # PackageOf[d]
  BY CallerAssumption DEF OwnCallers
<1>2. QED  BY <1>1, OthersRows, OthersExecutables, OthersFolders DEF StepOf

\* So they leave it its rows, its executables and its folders.
LEMMA KeptForCaller ==
  ASSUME NEW p, RowsKept(p), ExecutablesKept(p), FoldersKept(p), NEW n \in Names
  PROVE  /\ Lookup(p, n)' = Lookup(p, n)
         /\ \A id \in Lookup(p, n) : software[id].installed => software'[id].installed
         /\ \A id \in Lookup(p, n) : \A e : HasExec(id, e)' <=> HasExec(id, e)
         /\ folder'[<<p, n>>] = folder[<<p, n>>]
<1>1. Lookup(p, n)' = Lookup(p, n)  BY DEF RowsKept, Lookup, OwnIds, Rows
<1>2. Lookup(p, n) \subseteq OwnIds(p)  BY DEF Lookup, OwnIds
<1>3. \A id \in Lookup(p, n) : software[id].installed => software'[id].installed
  BY <1>2 DEF RowsKept, OwnIds, Rows
<1>4. \A id \in Lookup(p, n) : \A e : HasExec(id, e)' <=> HasExec(id, e)
  BY <1>2 DEF ExecutablesKept, HasExec
<1>5. QED  BY <1>1, <1>3, <1>4 DEF FoldersKept

\* What an update has read when it begins.
Updating(c) ==
  /\ arg'[c].op = "update" /\ UNCHANGED <<software, executables, inflight>>
  /\ arg'[c].call = calls /\ arg'[c].alone = (Pending(c) = {})
  /\ \E d \in Edits : arg'[c].list = d.list
  /\ \/ at'[c] = "fetch" /\ arg'[c].list = << >>
     \/ at'[c] = "idle" /\ outcome'[c] = "not found"
     \/ at'[c] = "updateRow" /\ arg'[c].id \in OwnIds(PackageOf[c])

\* A call that sends nothing and works on no executable.
Other(c) == /\ arg'[c].op \notin {"install", "uninstall", "update"} /\ UNCHANGED inflight
            /\ at'[c] \in {"idle", "runInstall", "deleteExec", "renameExec"}

\* The call that begins is the one its name says.
LEMMA CallsNamed ==
  ASSUME TypeOK, NEW c \in Callers, Call(c)
  PROVE  \/ /\ arg'[c].op = "install" /\ at'[c] \notin {"deleteExecs", "deleteSoftware"}
            /\ \E n \in Names, t \in Types, na \in BOOLEAN, es \in ExecLists :
                 InstallSoftware(c, n, t, na, es)
         \/ \E n \in Names : UninstallSoftware(c, n) /\ arg'[c].op = "uninstall" /\ arg'[c].name = n
         \/ Updating(c)
         \/ Other(c)
<1>1. \A n \in Names, op \in OpName : Blank(op, n) \in Arg /\ Blank(op, n).op = op /\ Blank(op, n).name = n
  BY BlankType DEF Blank
<1>2. ASSUME NEW n \in Names, UninstallSoftware(c, n)
      PROVE  arg'[c].op = "uninstall" /\ arg'[c].name = n
  <2>1. arg'[c] = Blank("uninstall", n)  BY <1>2 DEF UninstallSoftware, TypeOK
  <2>2. QED  BY <1>1, <2>1 DEF OpName
<1>3. ASSUME NEW n \in Names, NEW t \in Types, NEW na \in BOOLEAN, NEW es \in ExecLists,
             InstallSoftware(c, n, t, na, es)
      PROVE  arg'[c].op = "install" /\ at'[c] \notin {"deleteExecs", "deleteSoftware"}
  <2> DEFINE S == {es[i] : i \in DOMAIN es}
  <2> HIDE DEF S
  <2>1. at'[c] \in {"idle", "insertExecs"}  BY <1>3 DEF InstallSoftware, Goto, End, TypeOK
  <2>2. \/ arg' = [arg EXCEPT ![c] = Blank("install", n)]
        \/ \E id \in Fresh : arg' = [arg EXCEPT ![c] =
             [Blank("install", n) EXCEPT !.id = id, !.type = t, !.noAuto = na, !.execs = S]]
    BY <1>3 DEF InstallSoftware, S
  <2>3. arg'[c].op = "install"
    <3>1. Blank("install", n) \in Arg /\ Blank("install", n).op = "install"  BY <1>1 DEF OpName
    <3>2. ASSUME NEW id
          PROVE  [Blank("install", n) EXCEPT !.id = id, !.type = t, !.noAuto = na, !.execs = S].op
                   = "install"
      BY <3>1 DEF Arg
    <3>3. DOMAIN arg = Callers  BY DEF TypeOK
    <3>4. QED  BY <2>2, <3>1, <3>2, <3>3
  <2>4. QED  BY <2>1, <2>3
<1>4. ASSUME NEW n \in Names, NEW t \in Types, RunInstall(c, n, t)
      PROVE  Other(c)
  <2>1. Blank("runInstall", n) \in Arg /\ Blank("runInstall", n).op = "runInstall"  BY <1>1 DEF OpName
  <2>2. at'[c] = "runInstall" /\ arg'[c].op = "runInstall" /\ UNCHANGED inflight
    BY <1>4, <2>1 DEF RunInstall, Goto, TypeOK, Arg
  <2>3. QED  BY <2>2 DEF Other
<1>5. ASSUME NEW op, op # "uninstall", NEW a \in Arg, a.op = op,
             \/ arg' = [arg EXCEPT ![c] = a]
             \/ \E id \in Ids : arg' = [arg EXCEPT ![c] = [a EXCEPT !.id = id]]
      PROVE  arg'[c].op = op
  BY <1>5 DEF TypeOK, Arg
<1>6. ASSUME NEW n \in Names, NEW to \in Names, NEW d \in Edits, UpdateSoftware(c, n, to, d)
      PROVE  Updating(c)
  <2> DEFINE a == UpdateArg(c, n, to, d)
  <2>1. /\ a \in Arg /\ a.op = "update" /\ a.call = calls /\ a.alone = (Pending(c) = {})
        /\ a.list = d.list
    <3>1. Blank("update", n) \in Arg  BY BlankType DEF OpName
    <3>2. a.list = d.list  BY <3>1 DEF UpdateArg, Arg
    <3>3. QED  BY <3>2, UpdateArgType
  <2>2. ASSUME NEW id
        PROVE  /\ [a EXCEPT !.id = id].op = "update" /\ [a EXCEPT !.id = id].call = calls
               /\ [a EXCEPT !.id = id].alone = (Pending(c) = {})
               /\ [a EXCEPT !.id = id].list = d.list /\ [a EXCEPT !.id = id].id = id
    BY <2>1 DEF Arg
  <2>3. UNCHANGED <<software, executables, inflight>>  BY <1>6 DEF UpdateSoftware, tables
  <2>4. \/ arg' = [arg EXCEPT ![c] = a] /\ d.list = << >> /\ Goto(c, "fetch")
        \/ arg' = [arg EXCEPT ![c] = a] /\ End(c, "not found")
        \/ \E id \in Lookup(PackageOf[c], n) :
             arg' = [arg EXCEPT ![c] = [a EXCEPT !.id = id]] /\ Goto(c, "updateRow")
    BY <1>6 DEF UpdateSoftware, UpdateArg
  <2> HIDE DEF a
  <2>5. CASE arg' = [arg EXCEPT ![c] = a] /\ d.list = << >> /\ Goto(c, "fetch")
    <3>1. arg'[c] = a /\ at'[c] = "fetch"  BY <2>5 DEF Goto, TypeOK
    <3>2. QED  BY <2>1, <2>3, <2>5, <3>1 DEF Updating
  <2>6. CASE arg' = [arg EXCEPT ![c] = a] /\ End(c, "not found")
    <3>1. arg'[c] = a /\ at'[c] = "idle" /\ outcome'[c] = "not found"  BY <2>6 DEF End, TypeOK
    <3>2. QED  BY <2>1, <2>3, <3>1 DEF Updating
  <2>7. ASSUME NEW id \in Lookup(PackageOf[c], n), arg' = [arg EXCEPT ![c] = [a EXCEPT !.id = id]],
               Goto(c, "updateRow")
        PROVE  Updating(c)
    <3>1. arg'[c] = [a EXCEPT !.id = id] /\ at'[c] = "updateRow"  BY <2>7 DEF Goto, TypeOK
    <3>2. id \in OwnIds(PackageOf[c])  BY DEF Lookup, OwnIds
    <3>3. QED  BY <2>2, <2>3, <3>1, <3>2 DEF Updating
  <2>8. QED  BY <2>4, <2>5, <2>6, <2>7
<1>7. ASSUME NEW op \in {"deleteExec", "renameExec"}, NEW n \in Names, NEW e \in Execs,
             NEW f \in Execs \cup {NoExec}, FindOwner(c, op, n, e, f)
      PROVE  Other(c)
  <2> DEFINE a == [Blank(op, n) EXCEPT !.exec = e, !.newExec = f]
  <2>1. a \in Arg /\ a.op = op
    <3>1. Blank(op, n) \in Arg /\ Blank(op, n).op = op  BY <1>1 DEF OpName
    <3>2. QED  BY <3>1 DEF Arg
  <2> HIDE DEF a
  <2>2. \/ arg' = [arg EXCEPT ![c] = a]
        \/ \E id \in Ids : arg' = [arg EXCEPT ![c] = [a EXCEPT !.id = id]]
    BY <1>7, LookupRows DEF FindOwner, a
  <2>3. at'[c] \in {"idle", op} /\ UNCHANGED inflight  BY <1>7 DEF FindOwner, Goto, End, TypeOK
  <2>4. QED  BY <1>5, <2>1, <2>2, <2>3 DEF Other
<1>8. QED  BY <1>2, <1>3, <1>4, <1>6, <1>7 DEF Call

-----------------------------------------------------------------------------
(* uninstallSoftware.                                                      *)

Uninstalled(c) ==
  /\ at[c] \in {"deleteExecs", "deleteSoftware"} =>
       arg[c].op = "uninstall" /\ folder[Dir(c, arg[c].name)] = "none"
  /\ arg[c].op = "uninstall" => at[c] \in {"idle", "deleteExecs", "deleteSoftware"}
  /\ at[c] = "idle" /\ arg[c].op = "uninstall" /\ outcome[c] = "ok" =>
       Lookup(PackageOf[c], arg[c].name) = {} /\ folder[Dir(c, arg[c].name)] = "none"

LEMMA UninstalledOthers ==
  ASSUME OwnCallers, TypeOK, Owned, NEW c \in Callers, NEW d \in Callers \ {c}, StepOf(d),
         Uninstalled(c)
  PROVE  Uninstalled(c)'
<1>1. arg[c].name \in Names  BY DEF TypeOK, Arg
<1>2. /\ at'[c] = at[c] /\ arg'[c] = arg[c] /\ outcome'[c] = outcome[c]
  BY OthersControl
<1>3. /\ Lookup(PackageOf[c], arg[c].name)' = Lookup(PackageOf[c], arg[c].name)
      /\ folder'[<<PackageOf[c], arg[c].name>>] = folder[<<PackageOf[c], arg[c].name>>]
  <2> DEFINE p == PackageOf[c]
             n == arg[c].name
  <2>1. RowsKept(p) /\ ExecutablesKept(p) /\ FoldersKept(p)  BY OthersLeave
  <2> HIDE DEF n, p
  <2>2. \A id \in Ids : id \in OwnIds(p)' /\ software'[id].name = n <=> id \in OwnIds(p) /\ software[id].name = n
    BY <2>1 DEF RowsKept, OwnIds, Rows
  <2>3. {id \in Rows' : software'[id].owner = p /\ software'[id].name = n}
          = {id \in Rows : software[id].owner = p /\ software[id].name = n}
    BY <2>2 DEF OwnIds, Rows
  <2>4. folder'[<<p, n>>] = folder[<<p, n>>]  BY <1>1, <2>1 DEF FoldersKept, n
  <2>5. QED  BY <1>2, <2>3, <2>4 DEF Lookup, n, p
<1>4. QED  BY <1>2, <1>3 DEF Uninstalled, Dir

\* A call begins.
LEMMA UninstalledCall ==
  ASSUME TypeOK, NEW c \in Callers, Call(c)
  PROVE  Uninstalled(c)'
<1>1. ASSUME NEW n \in Names, UninstallSoftware(c, n), arg'[c].op = "uninstall", arg'[c].name = n
      PROVE  Uninstalled(c)'
  <2>1. Dir(c, n) \in Packages \X Names  BY DirType
  <2>2. \/ at'[c] = "deleteExecs" /\ folder'[Dir(c, n)] = "none"
        \/ at'[c] = "idle" /\ outcome'[c] = "failed"
    BY <1>1, <2>1 DEF UninstallSoftware, RemovalFails, Goto, End, TypeOK
  <2>3. QED  BY <1>1, <2>2 DEF Uninstalled, Dir
<1>2. CASE arg'[c].op # "uninstall" /\ at'[c] \notin {"deleteExecs", "deleteSoftware"}
  BY <1>2 DEF Uninstalled
<1>3. QED  BY <1>1, <1>2, CallsNamed DEF Updating, Other

\* It goes on: the files are gone before the rows, and stay so.
LEMMA UninstalledContinue ==
  ASSUME TypeOK, NEW c \in Callers, Uninstalled(c), Continue(c) \/ FailDownload(c) \/ Crash(c)
  PROVE  Uninstalled(c)'
<1>1. arg'[c].op = arg[c].op /\ arg'[c].name = arg[c].name  BY SameCall DEF Same
<1>2. CASE arg[c].op # "uninstall"
  <2>1. at[c] \notin {"deleteExecs", "deleteSoftware"}  BY <1>2 DEF Uninstalled
  <2>2. at'[c] \notin {"deleteExecs", "deleteSoftware"}
    BY <2>1, StatementMoves DEF Executes, Continue, FailDownload, Crash, RollBack,
     ExecutablesInserted, ExecutablesWritten, SkipDownload, StartDownload, WriteDownload,
     FinishDownload, Extract, MarkInstalled, DeleteExecutables, DeleteSoftware, UpdateRow,
     FetchRecord, CopyContents, RemoveOld, RemoveForReinstall, RemovalFails, Refetch,
     DeleteExecutable, RenameExecutable, Goto, End, TypeOK
  <2>3. QED  BY <1>1, <1>2, <2>2 DEF Uninstalled
<1>3. CASE arg[c].op = "uninstall"
  <2>1. at[c] \in {"idle", "deleteExecs", "deleteSoftware"}  BY <1>3 DEF Uninstalled
  <2>2. \/ \E i \in Pending(c) : Executes(i)
        \/ DeleteExecutables(c) \/ DeleteSoftware(c) \/ Crash(c)
    BY <2>1 DEF Executes, Continue, FailDownload, RollBack, ExecutablesInserted, ExecutablesWritten,
     SkipDownload, StartDownload, WriteDownload, FinishDownload, Extract, MarkInstalled, UpdateRow,
     FetchRecord, CopyContents, RemoveOld, RemoveForReinstall, Refetch, DeleteExecutable,
     RenameExecutable
  <2>3. ASSUME NEW i \in Pending(c), Executes(i)
        PROVE  Uninstalled(c)'
    <3>1. ~Awaited(i)  BY <2>1 DEF Awaited, Pending
    <3>2. UNCHANGED <<at, outcome, arg, software, folder>>  BY <2>3, <3>1, StatementSteps
    <3>3. QED  BY <3>2 DEF Uninstalled, Lookup, Rows
  <2>4. CASE DeleteExecutables(c)
    <3>1. /\ at'[c] = "deleteSoftware" \/ (at'[c] = "idle" /\ outcome'[c] = "no database")
          /\ UNCHANGED <<folder, arg>> /\ at[c] = "deleteExecs"
      BY <2>4 DEF DeleteExecutables, Goto, End, TypeOK
    <3>2. QED  BY <1>3, <3>1 DEF Uninstalled
  <2>5. CASE DeleteSoftware(c)
    <3>1. /\ at'[c] = "idle" /\ UNCHANGED <<folder, arg>> /\ at[c] = "deleteSoftware"
          /\ software' = [id \in Ids |-> IF id \in Lookup(PackageOf[c], arg[c].name)
                                         THEN NoRow ELSE software[id]]
      BY <2>5 DEF DeleteSoftware, End, TypeOK
    <3>2. Lookup(PackageOf[c], arg[c].name)' = {}  BY <3>1 DEF Lookup, Rows
    <3>3. QED  BY <1>3, <3>1, <3>2 DEF Uninstalled
  <2>6. CASE Crash(c)
    <3>1. at'[c] = "idle" /\ outcome'[c] = "crashed"  BY <2>6 DEF Crash, End, TypeOK
    <3>2. QED  BY <1>1, <3>1 DEF Uninstalled
  <2>7. QED  BY <2>2, <2>3, <2>4, <2>5, <2>6
<1>4. QED  BY <1>2, <1>3

\* When an uninstall reports success, its software is nowhere.
THEOREM UninstallsReported ==
  ASSUME OwnCallers
  PROVE  Spec => []UninstallLeavesNothing
<1> DEFINE I == Owned /\ \A c \in Callers : Uninstalled(c)
<1>1. Init => I
  <2> SUFFICES ASSUME Init, NEW c \in Callers PROVE Uninstalled(c)
    BY DEF Init, Owned, Rows
  <2>1. (CHOOSE n \in Names : TRUE) \in Names  BY NamesAssumption
  <2>2. arg[c].op # "uninstall" /\ at[c] = "idle"  BY <2>1 DEF Init, Blank
  <2>3. QED  BY <2>2 DEF Uninstalled
<1>2. TypeInv /\ I /\ [Next]_vars => I'
  <2> SUFFICES ASSUME TypeInv, Owned, \A c \in Callers : Uninstalled(c), [Next]_vars, NEW c \in Callers
               PROVE  Uninstalled(c)'
    BY OwnedStep
  <2>1. TypeOK  BY DEF TypeInv
  <2>2. CASE UNCHANGED vars  BY <2>2 DEF vars, Uninstalled, Lookup, Rows
  <2>3. ASSUME NEW d \in Callers, StepOf(d)
        PROVE  Uninstalled(c)'
    <3>1. CASE d = c  BY <2>1, <2>3, <3>1, UninstalledCall, UninstalledContinue DEF StepOf
    <3>2. CASE d # c  BY <2>1, <2>3, <3>2, UninstalledOthers
    <3>3. QED  BY <3>1, <3>2
  <2>4. QED  BY <2>2, <2>3 DEF Next, StepOf
<1>3. I => UninstallLeavesNothing
  BY DEF Uninstalled, UninstallLeavesNothing
<1>4. QED
  BY <1>1, <1>2, <1>3, TypeInvariance, PTL DEF Spec

-----------------------------------------------------------------------------
(* installSoftware.                                                        *)

InstallStage == {"insertExecs", "rollback", "runInstall", "downloading", "writing", "extracting",
                 "markInstalled"}

\* An INSERT the install waits for.
Coming(c, e) == \E i \in Pending(c) : /\ i.step = "insert" /\ i.call = arg[c].call
                                      /\ i.row.name = e /\ i.row.softwareId = arg[c].id
Present(c) == \A e \in arg[c].execs : HasExec(arg[c].id, e)

\* What each stage of an install has done so far.
Underway(c) ==
  /\ at[c] \in InstallStage
  /\ arg[c].to = arg[c].name /\ opened[c]
  /\ arg[c].id \in Lookup(PackageOf[c], arg[c].name)
  /\ at[c] = "insertExecs" => \A e \in arg[c].execs : HasExec(arg[c].id, e) \/ Coming(c, e)
  /\ at[c] \notin {"insertExecs", "rollback"} => Present(c)
  /\ at[c] \in {"downloading", "writing"} => folder[Dir(c, arg[c].name)] # "none"
  /\ at[c] = "markInstalled" => folder[Dir(c, arg[c].name)] \in Complete

Delivered(c) ==
  /\ arg[c].id \in Lookup(PackageOf[c], arg[c].name)
  /\ Present(c)
  /\ arg[c].noAuto \/ arg[c].type = "NO_DOWNLOAD" \/
       (software[arg[c].id].installed /\ folder[Dir(c, arg[c].name)] \in Complete)

Installed(c) ==
  arg[c].op = "install" =>
    /\ at[c] # "idle" => Underway(c)
    /\ at[c] = "idle" /\ outcome[c] = "ok" => Delivered(c)

LEMMA InstalledOthers ==
  ASSUME OwnCallers, TypeOK, Owned, NEW c \in Callers, NEW d \in Callers \ {c}, StepOf(d),
         Installed(c)
  PROVE  Installed(c)'
<1> DEFINE p == PackageOf[c]
<1>1. /\ at'[c] = at[c] /\ arg'[c] = arg[c] /\ outcome'[c] = outcome[c] /\ opened'[c] = opened[c]
      /\ Pending(c)' = Pending(c)
  BY OthersControl
<1>2. PICK n \in Names : n = arg[c].name  BY DEF TypeOK, Arg
<1>3. PICK id : id = arg[c].id  OBVIOUS
<1>4. RowsKept(p) /\ ExecutablesKept(p) /\ FoldersKept(p)  BY OthersLeave
<1>5. /\ Lookup(p, n)' = Lookup(p, n)
      /\ \A i \in Lookup(p, n) : software[i].installed => software'[i].installed
      /\ \A i \in Lookup(p, n) : \A e : HasExec(i, e)' <=> HasExec(i, e)
      /\ folder'[<<p, n>>] = folder[<<p, n>>]
  BY <1>4, KeptForCaller
<1>6. ASSUME id \in Lookup(p, n), Present(c)
      PROVE  Present(c)'
  <2>1. \A e \in arg[c].execs : HasExec(id, e)  BY <1>3, <1>6 DEF Present
  <2>2. \A e \in arg[c].execs : HasExec(id, e)'  BY <1>5, <1>6, <2>1
  <2>3. arg'[c].id = id /\ arg'[c].execs = arg[c].execs  BY <1>1, <1>3
  <2>4. QED  BY <2>2, <2>3 DEF Present, HasExec
<1>7. CASE Underway(c) /\ arg[c].op = "install" /\ at[c] # "idle"
  <2>1. id \in Lookup(p, n) /\ id \in Lookup(p, n)'  BY <1>2, <1>3, <1>5, <1>7 DEF Underway
  <2>2. ASSUME NEW e, HasExec(id, e) \/ Coming(c, e)
        PROVE  HasExec(id, e)' \/ Coming(c, e)'
    BY <1>1, <1>5, <2>1, <2>2 DEF Coming
  <2>3. arg'[c].id \in Lookup(PackageOf[c], arg[c].name)'
    BY <1>1, <1>2, <1>3, <2>1 DEF Lookup, Rows
  <2>4. at'[c] = "insertExecs" =>
          \A e \in arg'[c].execs : (\E x \in executables' : x.softwareId = arg'[c].id /\ x.name = e)
                                   \/ Coming(c, e)'
    BY <1>1, <1>3, <1>7, <2>2 DEF Underway, HasExec
  <2>5. at'[c] \notin {"insertExecs", "rollback"} => Present(c)'
    BY <1>1, <1>6, <1>7, <2>1 DEF Underway
  <2>6. folder'[Dir(c, arg'[c].name)] = folder[Dir(c, arg[c].name)]
    BY <1>1, <1>2, <1>5 DEF Dir
  <2>7. Underway(c)'
    BY <1>1, <1>7, <2>3, <2>4, <2>5, <2>6 DEF Underway, HasExec
  <2>8. QED  BY <1>1, <1>7, <2>7 DEF Installed
<1>8. CASE Delivered(c) /\ arg[c].op = "install" /\ at[c] = "idle"
  <2>1. id \in Lookup(p, n) /\ id \in Lookup(p, n)'  BY <1>2, <1>3, <1>5, <1>8 DEF Delivered
  <2>2. Present(c)'  BY <1>6, <1>8, <2>1 DEF Delivered
  <2>3. software[id].installed => software'[id].installed  BY <1>5, <2>1
  <2>4. folder'[Dir(c, arg'[c].name)] = folder[Dir(c, arg[c].name)]
    BY <1>1, <1>2, <1>5 DEF Dir
  <2>5. Delivered(c)'
    BY <1>1, <1>2, <1>3, <1>8, <2>1, <2>2, <2>3, <2>4 DEF Delivered, Lookup, Rows, Dir
  <2>6. QED  BY <1>1, <1>8, <2>5 DEF Installed
<1>9. CASE at[c] = "idle" /\ outcome[c] # "ok"  BY <1>1, <1>9 DEF Installed
<1>10. CASE arg[c].op # "install"  BY <1>1, <1>10 DEF Installed
<1>11. QED  BY <1>7, <1>8, <1>9, <1>10 DEF Installed

\* The INSERT of the row, with those of its executables on their way.
LEMMA InstalledCall ==
  ASSUME TypeOK, NEW c \in Callers, Call(c)
  PROVE  Installed(c)'
<1>1. ASSUME NEW n \in Names, NEW t \in Types, NEW na \in BOOLEAN, NEW es \in ExecLists,
             InstallSoftware(c, n, t, na, es)
      PROVE  Installed(c)'
  <2> DEFINE S == {es[i] : i \in DOMAIN es}
             Sent(id) == {[caller |-> c, call |-> calls, slot |-> i, step |-> "insert", path |-> TRUE,
                           row |-> [name |-> es[i], softwareId |-> id, folder |-> n]] : i \in DOMAIN es}
  <2>1. CASE End(c, "refused")
    <3>1. at'[c] = "idle" /\ outcome'[c] = "refused"  BY <2>1 DEF End, TypeOK
    <3>2. QED  BY <3>1 DEF Installed
  <2>2. CASE Lookup(PackageOf[c], n) = {} /\ Goto(c, "insertExecs")
    <3>1. PICK id \in Fresh :
            /\ software' = [software EXCEPT ![id] =
                 [name |-> n, owner |-> PackageOf[c], installed |-> FALSE,
                  noAuto |-> na, type |-> t]]
            /\ inflight' = inflight \cup Sent(id)
            /\ arg' = [arg EXCEPT ![c] =
                 [Blank("install", n) EXCEPT !.id = id, !.type = t, !.noAuto = na, !.execs = S]]
      BY <1>1, <2>2 DEF InstallSoftware
    <3>2. ASSUME NEW e \in S
          PROVE  \E i \in Sent(id) : /\ i.caller = c /\ i.step = "insert" /\ i.call = calls
                                     /\ i.row.name = e /\ i.row.softwareId = id
      <4>1. PICK k \in DOMAIN es : e = es[k]  OBVIOUS
      <4> DEFINE x == [caller |-> c, call |-> calls, slot |-> k, step |-> "insert", path |-> TRUE,
                       row |-> [name |-> es[k], softwareId |-> id, folder |-> n]]
      <4>2. x \in Sent(id)  OBVIOUS
      <4>3. x.caller = c /\ x.step = "insert" /\ x.call = calls /\ x.row.name = e /\ x.row.softwareId = id
        BY <4>1
      <4> HIDE DEF x, Sent
      <4>4. QED  BY <4>2, <4>3
    <3> HIDE DEF S, Sent
    <3>3. id \in Ids  BY DEF Fresh
    <3>4. /\ arg'[c].id = id /\ arg'[c].name = n /\ arg'[c].to = n /\ arg'[c].execs = S
          /\ arg'[c].call = calls
      <4>1. /\ Blank("install", n) \in Arg /\ Blank("install", n).name = n /\ Blank("install", n).to = n
            /\ Blank("install", n).call = calls
        BY BlankType DEF OpName, Blank
      <4>2. QED  BY <3>1, <4>1 DEF TypeOK, Arg
    <3>5. id \in Lookup(PackageOf[c], n)'
      BY <3>1, <3>3 DEF Lookup, Rows, NoRow, TypeOK
    <3>6. at'[c] = "insertExecs" /\ opened'[c]
      BY <1>1, <2>2 DEF InstallSoftware, Goto, Open, TypeOK
    <3>7. \A e \in arg'[c].execs : Coming(c, e)'
      BY <3>1, <3>2, <3>4 DEF Coming, Pending
    <3>8. Underway(c)'
      BY <3>4, <3>5, <3>6, <3>7 DEF Underway, InstallStage, Lookup, Rows
    <3>9. QED  BY <3>6, <3>8 DEF Installed
  <2>3. QED  BY <1>1, <2>1, <2>2 DEF InstallSoftware
<1>2. CASE arg'[c].op # "install"  BY <1>2 DEF Installed
<1>3. QED  BY <1>1, <1>2, CallsNamed DEF Updating, Other

\* What is written over a folder.
LEMMA OverFacts ==
  \A h : /\ Over(h, "part") # "none" /\ Over(h, "flat") \in Complete
         /\ \A s \in Complete : Over(h, s) \in Complete
BY DEF Over, Complete, WithDirs

\* Its rows stay, and what is there stays there.
LEMMA InstalledContinue ==
  ASSUME TypeOK, NEW c \in Callers, Installed(c), Continue(c) \/ FailDownload(c) \/ Crash(c)
  PROVE  Installed(c)'
<1>1. arg'[c].op = arg[c].op  BY SameCall DEF Same
<1>2. CASE arg[c].op # "install"  BY <1>1, <1>2 DEF Installed
<1>3. CASE arg[c].op = "install" /\ at[c] = "idle"
  <2>1. PICK i \in Pending(c) : Executes(i)
    BY <1>3 DEF Executes, Continue, FailDownload, Crash, RollBack, ExecutablesInserted,
     ExecutablesWritten, SkipDownload, StartDownload, WriteDownload, FinishDownload, Extract,
     MarkInstalled, DeleteExecutables, DeleteSoftware, UpdateRow, FetchRecord, CopyContents,
     RemoveOld, RemoveForReinstall, Refetch, DeleteExecutable, RenameExecutable
  <2>2. ~Awaited(i)  BY <1>3 DEF Awaited, Pending
  <2>3. UNCHANGED <<at, outcome, arg, software, folder>> /\ \A id, e : HasExec(id, e) => HasExec(id, e)'
    BY <2>1, <2>2, StatementSteps
  <2>4. Present(c) => Present(c)'  BY <2>3 DEF Present, HasExec
  <2>5. QED  BY <1>3, <2>3, <2>4 DEF Installed, Delivered, Lookup, Rows
<1>4. CASE arg[c].op = "install" /\ at[c] # "idle"
  <2>1. Underway(c)  BY <1>4 DEF Installed
  <2>2. arg'[c] = arg[c]  BY <2>1, SameCall DEF Underway, InstallStage
  <2>3. PICK n \in Names : n = arg[c].name  BY DEF TypeOK, Arg
  <2>4. Dir(c, n) \in Packages \X Names  BY DirType
  <2>5. \/ \E i \in Pending(c) : Executes(i)
        \/ RollBack(c) \/ ExecutablesInserted(c) \/ SkipDownload(c) \/ StartDownload(c)
        \/ WriteDownload(c) \/ FinishDownload(c) \/ Extract(c) \/ MarkInstalled(c)
        \/ FailDownload(c) \/ Crash(c)
    BY <2>1 DEF Executes, Underway, InstallStage, Continue, ExecutablesWritten, DeleteExecutables,
     DeleteSoftware, UpdateRow, FetchRecord, CopyContents, RemoveOld, RemoveForReinstall,
     Refetch, DeleteExecutable, RenameExecutable
  <2>6. ASSUME at'[c] = "idle", outcome'[c] # "ok"
        PROVE  Installed(c)'
    BY <2>6 DEF Installed
  <2>7. CASE RollBack(c) \/ FailDownload(c) \/ Crash(c)
    BY <2>6, <2>7 DEF RollBack, FailDownload, Crash, End, TypeOK
  <2>8. ASSUME NEW i \in Pending(c), Executes(i)
        PROVE  Installed(c)'
    <3>1. /\ UNCHANGED <<software, folder, opened, arg>> /\ inflight \ {i} \subseteq inflight'
          /\ \A id, e : HasExec(id, e) => HasExec(id, e)'
          /\ i \in inflight /\ i.caller = c
      BY <2>8, StatementSteps DEF Pending, Executes, InsertExecutable, FindExecutable, UpdateExecutable
    <3>2. at'[c] = at[c] \/ (at[c] = "insertExecs" /\ at'[c] = "rollback")
      BY <2>1, <2>8, StatementMoves DEF Underway, InstallStage
    <3>3. Lookup(PackageOf[c], arg[c].name)' = Lookup(PackageOf[c], arg[c].name)
      BY <3>1 DEF Lookup, Rows
    <3>4. Present(c) => Present(c)'  BY <3>1 DEF Present, HasExec
    <3>5. ASSUME NEW e \in arg[c].execs, HasExec(arg[c].id, e) \/ Coming(c, e),
                 at'[c] = "insertExecs", at[c] = "insertExecs"
          PROVE  HasExec(arg[c].id, e)' \/ Coming(c, e)'
      <4>1. CASE HasExec(arg[c].id, e)  BY <3>1, <4>1 DEF HasExec
      <4>2. ASSUME NEW j \in Pending(c), j.step = "insert", j.call = arg[c].call,
                   j.row.name = e, j.row.softwareId = arg[c].id
            PROVE  HasExec(arg[c].id, e)' \/ Coming(c, e)'
        <5>1. CASE j # i
          <6>1. j \in Pending(c)'  BY <3>1, <5>1 DEF Pending
          <6>2. QED  BY <3>1, <4>2, <6>1 DEF Coming
        <5>2. CASE j = i
          <6>1. Awaited(i)  BY <3>1, <3>5, <4>2, <5>2 DEF Awaited
          <6>2. InsertExecutable(i)
            BY <2>8, <4>2, <5>2 DEF Executes, FindExecutable, UpdateExecutable
          <6>3. ~HasExec(i.row.softwareId, i.row.name)
            BY <3>1, <3>5, <6>1, <6>2 DEF InsertExecutable, Reject, Goto, TypeOK
          <6>4. i.row \in executables'  BY <6>2, <6>3 DEF InsertExecutable
          <6>5. QED  BY <3>1, <4>2, <5>2, <6>4 DEF HasExec
        <5>3. QED  BY <5>1, <5>2
      <4>3. QED  BY <3>5, <4>1, <4>2 DEF Coming
    <3>6. at'[c] = "insertExecs" => \A e \in arg[c].execs : HasExec(arg[c].id, e)' \/ Coming(c, e)'
      BY <2>1, <3>2, <3>5 DEF Underway
    <3>7. at'[c] # "idle"  BY <1>4, <3>2
    <3>8. Underway(c)'
      BY <2>1, <3>1, <3>2, <3>3, <3>4, <3>6 DEF Underway, InstallStage, HasExec, Dir
    <3>9. QED  BY <3>7, <3>8 DEF Installed
  <2>9. CASE ExecutablesInserted(c)
    <3>1. at[c] = "insertExecs" /\ at'[c] = "runInstall" /\ UNCHANGED <<tables, folder, opened, arg, inflight>>
      BY <2>9 DEF ExecutablesInserted, Goto, TypeOK
    <3>2. ASSUME NEW e
          PROVE  ~Coming(c, e)
      BY <2>9, <3>1 DEF ExecutablesInserted, Coming, Awaited, Pending
    <3>3. Present(c)  BY <2>1, <3>1, <3>2 DEF Underway, Present
    <3>4. QED
      BY <2>1, <3>1, <3>3 DEF Installed, Underway, InstallStage, Present, HasExec, Lookup, Rows, tables
  <2>10. CASE SkipDownload(c)
    <3>1. at[c] = "runInstall" /\ at'[c] = "idle" /\ UNCHANGED <<tables, folder, opened, arg, inflight>>
      BY <2>10 DEF SkipDownload, End, TypeOK
    <3>2. Delivered(c)  BY <2>1, <2>10, <3>1 DEF Underway, Delivered, SkipDownload
    <3>3. QED
      BY <3>1, <3>2 DEF Installed, Delivered, Present, HasExec, Lookup, Rows, tables
  <2>11. CASE StartDownload(c)
    <3>1. /\ at[c] = "runInstall" /\ at'[c] = "downloading" /\ UNCHANGED <<tables, opened, arg, inflight>>
          /\ folder'[Dir(c, n)] # "none"
      BY <2>1, <2>3, <2>4, <2>11 DEF StartDownload, Underway, Goto, TypeOK
    <3>2. QED
      BY <2>1, <2>3, <3>1 DEF Installed, Underway, InstallStage, Present, HasExec, Lookup, Rows, tables, Dir
  <2>12. CASE WriteDownload(c)
    <3>1. at[c] = "downloading" /\ UNCHANGED <<tables, opened, arg, inflight>>
      BY <2>12 DEF WriteDownload
    <3>2. folder[Dir(c, n)] # "none"  BY <2>1, <2>3, <3>1 DEF Underway
    <3>3. at'[c] = "writing" /\ folder'[Dir(c, n)] # "none"
      BY <2>1, <2>3, <2>4, <2>12, <3>2, OverFacts DEF WriteDownload, Underway, Goto, TypeOK
    <3>4. QED
      BY <2>1, <2>3, <3>1, <3>3 DEF Installed, Underway, InstallStage, Present, HasExec, Lookup,
         Rows, tables, Dir
  <2>13. CASE FinishDownload(c)
    <3>1. /\ at[c] = "writing" /\ UNCHANGED <<tables, opened, arg, inflight>>
          /\ folder[Dir(c, n)] # "none"
      BY <2>1, <2>3, <2>13 DEF FinishDownload, Underway
    <3>2. \/ at'[c] = "extracting"
          \/ at'[c] = "markInstalled" /\ folder'[Dir(c, n)] \in Complete
      BY <2>1, <2>3, <2>4, <2>13, <3>1, OverFacts DEF FinishDownload, Underway, Goto, TypeOK
    <3>3. QED
      BY <2>1, <2>3, <3>1, <3>2 DEF Installed, Underway, InstallStage, Present, HasExec, Lookup,
         Rows, tables, Dir
  <2>14. CASE Extract(c)
    <3>1. /\ at[c] = "extracting" /\ UNCHANGED <<tables, opened, arg, inflight>>
          /\ \/ at'[c] = "idle" /\ outcome'[c] = "failed"
             \/ at'[c] = "markInstalled" /\ folder'[Dir(c, n)] \in Complete
      <4>1. /\ UNCHANGED <<tables, opened, arg, inflight>> /\ at[c] = "extracting"
            /\ Dir(c, arg[c].to) = Dir(c, n)
        BY <2>1, <2>3, <2>14 DEF Extract, Underway
      <4>2. CASE End(c, "failed")  BY <4>1, <4>2 DEF End, TypeOK
      <4>3. ASSUME NEW s \in Complete, Goto(c, "markInstalled"),
                   folder' = [folder EXCEPT ![Dir(c, n)] = Over(folder[Dir(c, n)], s)]
            PROVE  at'[c] = "markInstalled" /\ folder'[Dir(c, n)] \in Complete
        <5>1. at'[c] = "markInstalled"  BY <4>3 DEF Goto, TypeOK
        <5>2. folder'[Dir(c, n)] = Over(folder[Dir(c, n)], s)  BY <2>4, <4>3 DEF TypeOK
        <5>3. QED  BY <5>1, <5>2, OverFacts
      <4>4. \/ End(c, "failed")
            \/ /\ Goto(c, "markInstalled")
               /\ \E s \in Complete : folder' = [folder EXCEPT ![Dir(c, n)] = Over(folder[Dir(c, n)], s)]
        BY <2>14, <4>1 DEF Extract
      <4>5. QED  BY <4>1, <4>2, <4>3, <4>4
    <3>2. QED
      BY <2>1, <2>3, <2>6, <3>1 DEF Installed, Underway, InstallStage, Present, HasExec, Lookup,
         Rows, tables, Dir
  <2>15. CASE MarkInstalled(c)
    <3> DEFINE m == arg[c].id
    <3>1. /\ at[c] = "markInstalled" /\ at'[c] = "idle" /\ UNCHANGED <<executables, folder, arg>>
          /\ software' = [id \in Ids |-> IF id \in Rows /\ software[id].name = n
                                         THEN [software[id] EXCEPT !.installed = TRUE]
                                         ELSE software[id]]
      BY <2>1, <2>3, <2>15 DEF MarkInstalled, Underway, End, TypeOK
    <3>2. m \in Ids /\ m \in Rows /\ software[m].owner = PackageOf[c] /\ software[m].name = n
      BY <2>1, <2>3 DEF Underway, Lookup, Rows
    <3>3. software'[m] = [software[m] EXCEPT !.installed = TRUE] /\ software[m] \in Row
      BY <3>1, <3>2 DEF Rows, TypeOK
    <3>4. software'[m].owner = PackageOf[c] /\ software'[m].name = n /\ software'[m].installed
          /\ software'[m] # NoRow
      <4>1. "owner" \in DOMAIN software'[m] /\ "owner" \notin DOMAIN NoRow
        BY <3>3 DEF Row, NoRow
      <4>2. QED  BY <3>2, <3>3, <4>1 DEF Row
    <3>5. Present(c)'  BY <2>1, <3>1 DEF Underway, Present, HasExec
    <3>6. Delivered(c)'
      BY <2>1, <2>3, <3>1, <3>2, <3>4, <3>5 DEF Delivered, Underway, Lookup, Rows, Dir
    <3>7. QED  BY <3>1, <3>6 DEF Installed
  <2>16. QED  BY <2>5, <2>7, <2>8, <2>9, <2>10, <2>11, <2>12, <2>13, <2>14, <2>15
<1>5. QED  BY <1>2, <1>3, <1>4

LEMMA InstalledInvariance ==
  ASSUME OwnCallers
  PROVE  Spec => [](\A c \in Callers : Installed(c))
<1> DEFINE I == Owned /\ \A c \in Callers : Installed(c)
<1>1. Init => I
  <2> SUFFICES ASSUME Init, NEW c \in Callers PROVE Installed(c)
    BY DEF Init, Owned, Rows
  <2>1. (CHOOSE n \in Names : TRUE) \in Names  BY NamesAssumption
  <2>2. arg[c].op # "install"  BY <2>1 DEF Init, Blank
  <2>3. QED  BY <2>2 DEF Installed
<1>2. TypeInv /\ I /\ [Next]_vars => I'
  <2> SUFFICES ASSUME TypeInv, Owned, \A c \in Callers : Installed(c), [Next]_vars, NEW c \in Callers
               PROVE  Installed(c)'
    BY OwnedStep
  <2>1. TypeOK  BY DEF TypeInv
  <2>2. CASE UNCHANGED vars
    BY <2>2 DEF vars, Installed, Underway, Delivered, Present, Coming, Pending, HasExec, Lookup, Rows
  <2>3. ASSUME NEW d \in Callers, StepOf(d)
        PROVE  Installed(c)'
    <3>1. CASE d = c  BY <2>1, <2>3, <3>1, InstalledCall, InstalledContinue DEF StepOf
    <3>2. CASE d # c  BY <2>1, <2>3, <3>2, InstalledOthers
    <3>3. QED  BY <3>1, <3>2
  <2>4. QED  BY <2>2, <2>3 DEF Next, StepOf
<1>3. QED
  BY <1>1, <1>2, TypeInvariance, PTL DEF Spec

\* What an install has inserted stays there while the install is under way.
THEOREM InstallsKept ==
  ASSUME OwnCallers
  PROVE  Spec => []InstallKept
<1>1. (\A c \in Callers : Installed(c)) => InstallKept
  BY DEF Installed, Underway, Present, Coming, InstallKept
<1>2. QED
  BY <1>1, InstalledInvariance, PTL

\* When an install reports success, all it promises is there.
THEOREM InstallsReported ==
  ASSUME OwnCallers
  PROVE  Spec => []ReportedInstall
<1>1. (\A c \in Callers : Installed(c)) => ReportedInstall
  BY DEF Installed, Delivered, Present, ReportedInstall
<1>2. QED
  BY <1>1, InstalledInvariance, PTL

-----------------------------------------------------------------------------
(* updateSoftware.                                                         *)

BeforeWrite == {"updateRow", "writeExecs"}
AfterWrite == {"fetch", "copy", "removeOld", "removeForReinstall", "refetch", "runInstall",
               "downloading", "writing", "extracting", "markInstalled"}

\* The row an update writes for the k-th of its executables.
Target(c, k) == [name |-> arg[c].list[k].name, softwareId |-> arg[c].id, folder |-> arg[c].to]

\* Every path given is registered, and no statement is left that could change it.
Pathed(c) ==
  /\ arg[c].id \in OwnIds(PackageOf[c])
  /\ Pending(c) = {}
  /\ \A k \in DOMAIN arg[c].list : arg[c].list[k].path => Target(c, k) \in executables

\* The statements of the update: each writes the folder of the new name, an UPDATE
\* has a row to work on, and no path is forgotten.
Writing(c) ==
  /\ arg[c].id \in OwnIds(PackageOf[c])
  /\ \A i \in Pending(c) :
       /\ i.call = arg[c].call /\ i.row.softwareId = arg[c].id /\ i.row.folder = arg[c].to
       /\ i.step = "update" => HasExec(arg[c].id, i.row.name)
  /\ \A k \in DOMAIN arg[c].list : arg[c].list[k].path =>
       \/ Target(c, k) \in executables
       \/ \E i \in Pending(c) : i.path /\ i.row = Target(c, k)

\* What each stage of an update has done so far.
Updated(c) ==
  arg[c].op = "update" =>
    /\ at[c] \in BeforeWrite \cup AfterWrite \cup {"idle"}
    /\ arg[c].alone /\ arg[c].list # << >> =>
         /\ at[c] = "updateRow" => arg[c].id \in OwnIds(PackageOf[c]) /\ Pending(c) = {}
         /\ at[c] = "writeExecs" => Writing(c)
         /\ at[c] \in AfterWrite => Pathed(c)
         /\ at[c] = "idle" /\ outcome[c] = "ok" => Pathed(c)

\* Only the two DELETEs take a row away; no statement gives it to another package.
LEMMA RowsStay ==
  ASSUME TypeOK, NEW c \in Callers, Continue(c) \/ FailDownload(c) \/ Crash(c),
         at[c] \notin {"rollback", "deleteSoftware"}, NEW p, NEW id \in OwnIds(p)
  PROVE  id \in OwnIds(p)'
<1>1. id \in Rows /\ id \in Ids /\ software[id] \in Row /\ software[id].owner = p /\ software[id] # NoRow
  BY LookupRows, RowIsRow DEF OwnIds
<1>2. UNCHANGED software => id \in OwnIds(p)'
  BY <1>1 DEF OwnIds, Rows
<1>3. ASSUME software'[id] \in Row, software'[id].owner = p
      PROVE  id \in OwnIds(p)'
  BY <1>1, <1>3, RowIsRow DEF OwnIds, Rows
<1>4. MarkInstalled(c) => id \in OwnIds(p)'
  <2>1. [software[id] EXCEPT !.installed = TRUE] \in Row
        /\ [software[id] EXCEPT !.installed = TRUE].owner = p
    BY <1>1 DEF Row
  <2>2. MarkInstalled(c) => UNCHANGED software \/ software'[id] = software[id]
                            \/ software'[id] = [software[id] EXCEPT !.installed = TRUE]
    BY <1>1 DEF MarkInstalled
  <2>3. QED  BY <1>1, <1>2, <1>3, <2>1, <2>2
<1>5. UpdateRow(c) => id \in OwnIds(p)'
  <2>1. ASSUME NEW n \in Names, NEW na \in BOOLEAN
        PROVE  [software[id] EXCEPT !.name = n, !.noAuto = na] \in Row
               /\ [software[id] EXCEPT !.name = n, !.noAuto = na].owner = p
    BY <1>1 DEF Row
  <2>2. arg[c].to \in Names /\ arg[c].noAuto \in BOOLEAN
        /\ software[id].name \in Names /\ software[id].noAuto \in BOOLEAN
    BY <1>1 DEF TypeOK, Arg, Row
  <2>3. ASSUME UpdateRow(c), software' # software, id = arg[c].id
        PROVE  \E n \in Names, na \in BOOLEAN :
                 software'[id] = [software[id] EXCEPT !.name = n, !.noAuto = na]
    <3>1. software' = [software EXCEPT
             ![id].name = IF arg[c].to # arg[c].name THEN arg[c].to ELSE @,
             ![id].noAuto = IF arg[c].setNoAuto THEN arg[c].noAuto ELSE @]
      BY <2>3 DEF UpdateRow
    <3>2. QED  BY <1>1, <2>2, <3>1 DEF TypeOK, Row
  <2>4. UpdateRow(c) /\ id # arg[c].id => software'[id] = software[id]
    BY <1>1 DEF UpdateRow, TypeOK
  <2>5. QED  BY <1>1, <1>2, <1>3, <2>1, <2>3, <2>4
<1>6. QED
  BY <1>2, <1>4, <1>5 DEF Continue, FailDownload, Crash, InsertExecutable, FindExecutable,
     UpdateExecutable, RollBack, ExecutablesInserted, ExecutablesWritten, SkipDownload,
     StartDownload, WriteDownload, FinishDownload, Extract, DeleteExecutables, DeleteSoftware,
     FetchRecord, CopyContents, RemoveOld, RemoveForReinstall, Refetch, DeleteExecutable,
     RenameExecutable, tables

LEMMA UpdatedOthers ==
  ASSUME OwnCallers, TypeOK, Owned, NEW c \in Callers, NEW d \in Callers \ {c}, StepOf(d),
         Updated(c)
  PROVE  Updated(c)'
<1> DEFINE p == PackageOf[c]
<1>1. at'[c] = at[c] /\ arg'[c] = arg[c] /\ outcome'[c] = outcome[c] /\ Pending(c)' = Pending(c)
  BY OthersControl
<1>2. RowsKept(p) /\ ExecutablesKept(p)  BY OthersLeave
<1>3. PICK id : id = arg[c].id  OBVIOUS
<1>4. id \in OwnIds(p) => arg'[c].id \in OwnIds(PackageOf[c])'
  BY <1>1, <1>2, <1>3 DEF RowsKept, OwnIds, Rows
<1>5. ASSUME id \in OwnIds(p), NEW x \in executables, x.softwareId = id
      PROVE  x \in executables'
  BY <1>2, <1>5 DEF ExecutablesKept
<1>6. ASSUME id \in OwnIds(p), NEW k, Target(c, k) \in executables
      PROVE  Target(c, k)' \in executables'
  <2>1. Target(c, k)' = Target(c, k)  BY <1>1 DEF Target
  <2>2. Target(c, k).softwareId = id  BY <1>3 DEF Target
  <2>3. QED  BY <1>5, <1>6, <2>1, <2>2
<1>7. Pathed(c) => Pathed(c)'  BY <1>1, <1>3, <1>4, <1>6 DEF Pathed
<1>8. ASSUME Writing(c) PROVE Writing(c)'
  <2>1. id \in OwnIds(p)  BY <1>3, <1>8 DEF Writing
  <2>2. \A e : HasExec(id, e) => \E x \in executables' : x.softwareId = id /\ x.name = e
    BY <1>5, <2>1 DEF HasExec
  <2>3. \A i \in Pending(c)' :
           /\ i.call = arg'[c].call /\ i.row.softwareId = arg'[c].id /\ i.row.folder = arg'[c].to
           /\ i.step = "update" => HasExec(arg[c].id, i.row.name)'
    BY <1>1, <1>3, <1>8, <2>2 DEF Writing, HasExec
  <2>4. \A k : Target(c, k)' = Target(c, k)  BY <1>1 DEF Target
  <2>5. \A k \in DOMAIN arg'[c].list : arg'[c].list[k].path =>
          \/ Target(c, k)' \in executables'
          \/ \E i \in Pending(c)' : i.path /\ i.row = Target(c, k)'
    BY <1>1, <1>6, <1>8, <2>1, <2>4 DEF Writing
  <2>6. QED  BY <1>3, <1>4, <2>1, <2>3, <2>5 DEF Writing
<1>9. at[c] = "updateRow" /\ arg[c].id \in OwnIds(PackageOf[c])
        => arg'[c].id \in OwnIds(PackageOf[c])'
  BY <1>3, <1>4
<1>10. QED  BY <1>1, <1>7, <1>8, <1>9 DEF Updated

LEMMA UpdatedCall ==
  ASSUME TypeOK, NEW c \in Callers, Call(c)
  PROVE  Updated(c)'
<1>1. CASE arg'[c].op # "update"  BY <1>1 DEF Updated
<1>2. CASE Updating(c)
  <2>1. OwnIds(PackageOf[c])' = OwnIds(PackageOf[c])  BY <1>2 DEF Updating, OwnIds, Rows
  <2>2. Pending(c)' = Pending(c)  BY <1>2 DEF Updating, Pending
  <2>3. QED  BY <1>2, <2>1, <2>2 DEF Updating, Updated, AfterWrite, BeforeWrite
<1>3. QED  BY <1>1, <1>2, CallsNamed DEF Other

\* The SELECTs of an update are all its statements.
LEMMA UpdateSends ==
  ASSUME TypeOK, NEW c \in Callers, UpdateRow(c), at'[c] = "writeExecs", Pending(c) = {},
         arg[c].id \in OwnIds(PackageOf[c]), arg'[c].id \in OwnIds(PackageOf[c])'
  PROVE  Writing(c)'
<1> DEFINE a == arg[c]
           x(k) == [caller |-> c, call |-> a.call, slot |-> k, step |-> "find", path |-> a.list[k].path,
                    row |-> Target(c, k)]
<1>0. a.id \in Ids  BY DEF OwnIds, Rows
<1>1. UNCHANGED <<executables, arg>> /\ inflight' = inflight \cup Selects(c)
  BY DEF UpdateRow, End, TypeOK
<1>2. Selects(c) = {x(k) : k \in DOMAIN a.list}  BY DEF Selects, Target
<1>3. \A i \in Selects(c) : /\ i.caller = c /\ i.call = a.call /\ i.step = "find"
                            /\ i.row.softwareId = a.id /\ i.row.folder = a.to
  BY <1>0, SelectsType
<1>4. Pending(c)' = Selects(c)  BY <1>1, <1>3 DEF Pending
<1>5. \A k : Target(c, k)' = Target(c, k)  BY <1>1 DEF Target
<1>6. ASSUME NEW k \in DOMAIN a.list, a.list[k].path
      PROVE  \E i \in Selects(c) : i.path /\ i.row = Target(c, k)
  <2>1. x(k) \in Selects(c)  BY <1>2
  <2>2. x(k).path /\ x(k).row = Target(c, k)  BY <1>6
  <2> HIDE DEF x
  <2>3. QED  BY <2>1, <2>2
<1> HIDE DEF x
<1>7. QED  BY <1>1, <1>3, <1>4, <1>5, <1>6 DEF Writing, HasExec

\* Each of them ends with its row in the table, or the update fails.
LEMMA StatementWrites ==
  ASSUME TypeOK, NEW c \in Callers, Writing(c), at[c] = "writeExecs",
         NEW i \in Pending(c), Executes(i), at'[c] = "writeExecs",
         arg'[c].id \in OwnIds(PackageOf[c])'
  PROVE  Writing(c)'
<1>1. /\ UNCHANGED arg /\ i.caller = c /\ i \in inflight /\ i \in Statement
      /\ \A id, e : HasExec(id, e) => HasExec(id, e)'
  BY StatementSteps, StatementFacts DEF Pending
<1>2. Awaited(i) /\ i.row.softwareId = arg[c].id /\ i.row.folder = arg[c].to
  BY <1>1 DEF Awaited, Writing
<1>3. ~Reject(i)
  BY <1>1, <1>2 DEF Reject, Goto, End, TypeOK
<1>4. i.row \in Executable  BY StatementFacts, <1>1
\* What follows the statement, if anything does.
<1>5. ASSUME NEW j \in Pending(c)'
      PROVE  /\ j.call = arg[c].call /\ j.row.softwareId = arg[c].id /\ j.row.folder = arg[c].to
             /\ j.step = "update" => HasExec(arg[c].id, j.row.name)'
  <2>1. CASE j \in Pending(c)  BY <1>1, <2>1 DEF Writing
  <2>2. CASE j \notin Pending(c)
    <3>1. j \notin inflight  BY <2>2 DEF Pending
    <3>2. FindExecutable(i)
      BY <3>1 DEF Executes, InsertExecutable, UpdateExecutable, Pending
    <3>3. /\ UNCHANGED executables
          /\ \/ HasExec(i.row.softwareId, i.row.name) /\ j = [i EXCEPT !.step = "update"]
             \/ j = [i EXCEPT !.step = "insert"]
      BY <1>3, <3>1, <3>2 DEF FindExecutable, tables, Pending
    <3>4. j.row = i.row /\ j.call = i.call
          /\ (j.step = "update" => HasExec(i.row.softwareId, i.row.name))
      BY <1>1, <3>3 DEF Statement
    <3>5. i.call = arg[c].call  BY DEF Writing
    <3>6. QED  BY <1>1, <1>2, <3>4, <3>5
  <2>3. QED  BY <2>1, <2>2
\* A row that is there stays, and one on its way arrives or goes on.
<1>6. ASSUME NEW k \in DOMAIN arg[c].list, arg[c].list[k].path
      PROVE  \/ Target(c, k) \in executables'
             \/ \E j \in Pending(c)' : j.path /\ j.row = Target(c, k)
  <2>1. CASE Target(c, k) \in executables
    <3>1. CASE executables \subseteq executables'  BY <2>1, <3>1
    <3>2. CASE UpdateExecutable(i)
      <4> DEFINE x == Target(c, k)
                 y == IF i.path /\ x.softwareId = i.row.softwareId /\ x.name = i.row.name
                        THEN i.row ELSE x
      <4>1. y \in executables'  BY <2>1, <3>2 DEF UpdateExecutable
      <4>2. x.softwareId = arg[c].id /\ x.folder = arg[c].to /\ x \in Executable
        BY <2>1 DEF Target, TypeOK
      <4>3. x.name = i.row.name => x = i.row  BY <1>2, <1>4, <4>2 DEF Executable
      <4>4. y = x  BY <4>3
      <4> HIDE DEF x, y
      <4>5. QED  BY <4>1, <4>4 DEF x
    <3>3. QED  BY <3>1, <3>2 DEF Executes, InsertExecutable, FindExecutable, tables
  <2>2. ASSUME NEW j \in Pending(c), j.path, j.row = Target(c, k)
        PROVE  \/ Target(c, k) \in executables'
               \/ \E q \in Pending(c)' : q.path /\ q.row = Target(c, k)
    <3>1. CASE j # i
      <4>1. inflight \ {i} \subseteq inflight'
        BY DEF Executes, InsertExecutable, FindExecutable, UpdateExecutable
      <4>2. j \in Pending(c)'  BY <3>1, <4>1 DEF Pending
      <4>3. QED  BY <2>2, <4>2
    <3>2. CASE j = i /\ InsertExecutable(i)
      <4>1. i.row \in executables'  BY <1>3, <3>2 DEF InsertExecutable
      <4>2. QED  BY <2>2, <3>2, <4>1
    <3>3. CASE j = i /\ FindExecutable(i)
      <4>1. PICK s \in {"update", "insert"} : inflight' = (inflight \ {i}) \cup {[i EXCEPT !.step = s]}
        BY <1>3, <3>3 DEF FindExecutable
      <4> DEFINE q == [i EXCEPT !.step = s]
      <4>2. q.caller = c /\ q.path = i.path /\ q.row = i.row  BY <1>1 DEF Statement
      <4>3. q \in inflight'  BY <4>1
      <4> HIDE DEF q
      <4>4. QED  BY <2>2, <3>3, <4>2, <4>3 DEF Pending
    <3>4. CASE j = i /\ UpdateExecutable(i)
      <4>1. i.step = "update"  BY <3>4 DEF UpdateExecutable
      <4>2. PICK x \in executables : x.softwareId = arg[c].id /\ x.name = i.row.name
        BY <4>1 DEF Writing, HasExec
      <4> DEFINE y == IF i.path /\ x.softwareId = i.row.softwareId /\ x.name = i.row.name
                        THEN i.row ELSE x
      <4>3. y \in executables'  BY <3>4 DEF UpdateExecutable
      <4>4. y = i.row  BY <1>2, <2>2, <3>4, <4>2
      <4> HIDE DEF y
      <4>5. QED  BY <2>2, <3>4, <4>3, <4>4
    <3>5. QED  BY <3>1, <3>2, <3>3, <3>4 DEF Executes
  <2>3. QED  BY <1>6, <2>1, <2>2 DEF Writing
<1>7. \A k : Target(c, k)' = Target(c, k)  BY <1>1 DEF Target
<1>8. \A j \in Pending(c)' :
         /\ j.call = arg'[c].call /\ j.row.softwareId = arg'[c].id /\ j.row.folder = arg'[c].to
         /\ j.step = "update" => \E x \in executables' : x.softwareId = arg'[c].id /\ x.name = j.row.name
  BY <1>1, <1>5 DEF HasExec
<1>9. \A k \in DOMAIN arg'[c].list : arg'[c].list[k].path =>
        \/ Target(c, k)' \in executables'
        \/ \E j \in Pending(c)' : j.path /\ j.row = Target(c, k)'
  BY <1>1, <1>6, <1>7
<1>10. QED  BY <1>8, <1>9 DEF Writing, HasExec

\* The paths are written to the folder of the new name, and no later stage writes
\* another one.
LEMMA UpdatedContinue ==
  ASSUME TypeOK, NEW c \in Callers, Updated(c), Continue(c) \/ FailDownload(c) \/ Crash(c)
  PROVE  Updated(c)'
<1>1. Same(c)  BY SameCall
<1>2. CASE arg[c].op # "update"  BY <1>1, <1>2 DEF Updated, Same
<1>3. CASE arg[c].op = "update"
  <2>1. at[c] \in BeforeWrite \cup AfterWrite \cup {"idle"}  BY <1>3 DEF Updated
  <2>2. arg[c].id \in OwnIds(PackageOf[c]) => arg'[c].id \in OwnIds(PackageOf[c])'
    <3>1. ASSUME NEW id \in OwnIds(PackageOf[c]) PROVE id \in OwnIds(PackageOf[c])'
      BY <2>1, <3>1, RowsStay DEF BeforeWrite, AfterWrite
    <3>2. QED  BY <1>1, <3>1 DEF Same
  <2>3. UNCHANGED <<executables, inflight>> /\ Pathed(c) => Pathed(c)'
    <3>1. \A k : Target(c, k)' = Target(c, k)  BY <1>1 DEF Target, Same
    <3>2. UNCHANGED inflight => Pending(c)' = Pending(c)  BY DEF Pending
    <3>3. QED  BY <1>1, <2>2, <3>1, <3>2 DEF Pathed, Same
  <2>4. \/ \E i \in Pending(c) : Executes(i)
        \/ UpdateRow(c) \/ ExecutablesWritten(c)
        \/ FetchRecord(c) \/ CopyContents(c) \/ RemoveOld(c) \/ RemoveForReinstall(c) \/ Refetch(c)
        \/ SkipDownload(c) \/ StartDownload(c) \/ WriteDownload(c) \/ FinishDownload(c) \/ Extract(c)
        \/ MarkInstalled(c) \/ FailDownload(c) \/ Crash(c)
    BY <2>1 DEF BeforeWrite, AfterWrite, Executes, Continue, RollBack, ExecutablesInserted,
     DeleteExecutables, DeleteSoftware, DeleteExecutable, RenameExecutable
  <2>5. ASSUME NEW i \in Pending(c), Executes(i)
        PROVE  Updated(c)'
    <3>1. /\ UNCHANGED arg
          /\ \/ UNCHANGED <<at, outcome>>
             \/ at'[c] = "idle" /\ outcome'[c] = "failed"
      BY <2>1, <2>5, StatementSteps, StatementMoves DEF BeforeWrite, AfterWrite
    <3>2. CASE at'[c] = "idle" /\ outcome'[c] = "failed"
      BY <1>1, <3>1, <3>2 DEF Updated, BeforeWrite, AfterWrite
    <3>3. CASE UNCHANGED <<at, outcome>> /\ at[c] # "writeExecs"
      BY <2>1, <2>5, <1>3, <3>1, <3>3 DEF Updated, Pathed, BeforeWrite, AfterWrite
    <3>4. CASE UNCHANGED <<at, outcome>> /\ at[c] = "writeExecs"
      <4>1. ASSUME Writing(c) PROVE Writing(c)'
        <5>1. arg'[c].id \in OwnIds(PackageOf[c])'  BY <2>2, <4>1 DEF Writing
        <5>2. QED  BY <2>5, <3>4, <4>1, <5>1, StatementWrites
      <4>2. QED  BY <1>3, <3>1, <3>4, <4>1 DEF Updated, BeforeWrite, AfterWrite
    <3>5. QED  BY <3>1, <3>2, <3>3, <3>4
  <2>6. CASE UpdateRow(c)
    <3>1. /\ at[c] = "updateRow" /\ UNCHANGED arg
          /\ \/ at'[c] = "idle" /\ outcome'[c] = "refused"
             \/ at'[c] = "writeExecs"
      BY <2>6 DEF UpdateRow, Goto, End, TypeOK
    <3>2. CASE at'[c] = "idle" /\ outcome'[c] = "refused"
      BY <3>1, <3>2 DEF Updated, BeforeWrite, AfterWrite
    <3>3. CASE at'[c] = "writeExecs"
      <4>1. arg[c].id \in OwnIds(PackageOf[c]) /\ Pending(c) = {} => Writing(c)'
        BY <2>2, <2>6, <3>3, UpdateSends
      <4>2. QED  BY <1>3, <3>1, <3>3, <4>1 DEF Updated, BeforeWrite, AfterWrite
    <3>4. QED  BY <3>1, <3>2, <3>3
  <2>7. CASE ExecutablesWritten(c)
    <3>1. /\ at[c] = "writeExecs" /\ at'[c] = "fetch" /\ UNCHANGED <<executables, arg, inflight>>
          /\ \A i \in Pending(c) : ~Awaited(i)
      BY <2>7 DEF ExecutablesWritten, Goto, tables, TypeOK
    <3>2. Writing(c) => Pathed(c)
      BY <3>1 DEF Writing, Pathed, Awaited, Pending
    <3>3. Writing(c) => Pathed(c)'  BY <2>3, <3>1, <3>2
    <3>4. QED  BY <1>3, <3>1, <3>3 DEF Updated, BeforeWrite, AfterWrite
  <2>8. ASSUME UNCHANGED <<executables, inflight>>, at[c] \in AfterWrite,
               at'[c] \in AfterWrite \cup {"idle"}
        PROVE  Updated(c)'
    BY <1>1, <1>3, <2>3, <2>8 DEF Updated, Same, BeforeWrite, AfterWrite
  <2>9. CASE \/ FetchRecord(c) \/ CopyContents(c) \/ RemoveOld(c) \/ RemoveForReinstall(c) \/ Refetch(c)
             \/ SkipDownload(c) \/ StartDownload(c) \/ WriteDownload(c) \/ FinishDownload(c)
             \/ Extract(c) \/ MarkInstalled(c)
    <3>1. UNCHANGED <<executables, inflight>>
      BY <2>9 DEF FetchRecord, CopyContents, RemoveOld, RemoveForReinstall, Refetch, SkipDownload,
       StartDownload, WriteDownload, FinishDownload, Extract, MarkInstalled, tables
    <3>2. at[c] \in AfterWrite
      BY <2>9 DEF FetchRecord, CopyContents, RemoveOld, RemoveForReinstall, Refetch, SkipDownload,
       StartDownload, WriteDownload, FinishDownload, Extract, MarkInstalled, AfterWrite
    <3>3. at'[c] \in AfterWrite \cup {"idle"}
      BY <2>9 DEF FetchRecord, CopyContents, RemoveOld, RemoveForReinstall, RemovalFails, Refetch,
       SkipDownload, StartDownload, WriteDownload, FinishDownload, Extract, MarkInstalled,
       AfterWrite, Goto, End, TypeOK
    <3>4. QED  BY <2>8, <3>1, <3>2, <3>3
  <2>10. CASE FailDownload(c) \/ Crash(c)
    <3>1. at'[c] = "idle" /\ outcome'[c] # "ok"  BY <2>10 DEF FailDownload, Crash, End, TypeOK
    <3>2. QED  BY <3>1 DEF Updated, BeforeWrite, AfterWrite
  <2>11. QED  BY <2>4, <2>5, <2>6, <2>7, <2>9, <2>10
<1>4. QED  BY <1>2, <1>3

\* When an update reports success, every path it was given is registered in the
\* folder of the new name; it is assumed only of its beginning that no statement
\* of an earlier, rejected call of its caller was still on its way.
THEOREM UpdatesReported ==
  ASSUME OwnCallers
  PROVE  Spec => []UpdatedPath
<1> DEFINE I == Owned /\ \A c \in Callers : Updated(c)
<1>1. Init => I
  <2> SUFFICES ASSUME Init, NEW c \in Callers PROVE Updated(c)
    BY DEF Init, Owned, Rows
  <2>1. (CHOOSE n \in Names : TRUE) \in Names  BY NamesAssumption
  <2>2. arg[c].op # "update"  BY <2>1 DEF Init, Blank
  <2>3. QED  BY <2>2 DEF Updated
<1>2. TypeInv /\ I /\ [Next]_vars => I'
  <2> SUFFICES ASSUME TypeInv, Owned, \A c \in Callers : Updated(c), [Next]_vars, NEW c \in Callers
               PROVE  Updated(c)'
    BY OwnedStep
  <2>1. TypeOK  BY DEF TypeInv
  <2>2. CASE UNCHANGED vars
    <3>1. UNCHANGED <<software, executables, at, arg, inflight, outcome>>  BY <2>2 DEF vars
    <3>2. Pathed(c) => Pathed(c)'  BY <3>1 DEF Pathed, Target, Pending, OwnIds, Rows
    <3>3. Writing(c) => Writing(c)'
      BY <3>1 DEF Writing, Target, Pending, HasExec, OwnIds, Rows
    <3>4. QED  BY <3>1, <3>2, <3>3 DEF Updated, Pending, OwnIds, Rows
  <2>3. ASSUME NEW d \in Callers, StepOf(d)
        PROVE  Updated(c)'
    <3>1. CASE d = c  BY <2>1, <2>3, <3>1, UpdatedCall, UpdatedContinue DEF StepOf
    <3>2. CASE d # c  BY <2>1, <2>3, <3>2, UpdatedOthers
    <3>3. QED  BY <3>1, <3>2
  <2>4. QED  BY <2>2, <2>3 DEF Next, StepOf
<1>3. I => UpdatedPath
  BY DEF Updated, Pathed, Target, UpdatedPath
<1>4. QED
  BY <1>1, <1>2, <1>3, TypeInvariance, PTL DEF Spec

-----------------------------------------------------------------------------
(* Orphans.  A call of which one statement is rejected ends while its others   *)
(* are still on their way, which is why no list may hold one that is rejected: *)
(* an executable named twice, or one without a path among others.              *)

DistinctLists == \A es \in ExecLists : \A i, j \in DOMAIN es : es[i] = es[j] => i = j

Whole(list) == \A i, j \in DOMAIN list : i # j => list[i].name # list[j].name /\ list[i].path

WholeLists == \A d \in Edits : Whole(d.list)

\* Statements are on their way only while their call waits for them, and none
\* will be refused, or it is the only one.
Awaits(c) ==
  /\ at[c] # "rollback"
  /\ \A i \in Pending(c) :
       /\ at[c] \in {"insertExecs", "writeExecs"} /\ i.call = arg[c].call
       /\ i.row.softwareId = arg[c].id
       /\ at[c] = "insertExecs" => i.step = "insert"
       /\ i.step = "insert" => ~HasExec(arg[c].id, i.row.name)
  /\ \A i, j \in Pending(c) : i # j => i.row.name # j.row.name /\ i.path

WithRow == {"insertExecs", "updateRow", "writeExecs"}

\* A call that may insert executables has the row of their software; one that
\* deletes the row has deleted the executables.
Anchored(c) ==
  /\ at[c] \in WithRow => arg[c].id \in OwnIds(PackageOf[c])
  /\ at[c] = "updateRow" => Whole(arg[c].list)
  /\ at[c] = "deleteSoftware" =>
       \A x \in executables : x.softwareId \notin Lookup(PackageOf[c], arg[c].name)

LEMMA AnchoredOthers ==
  ASSUME OwnCallers, TypeOK, Owned, NEW c \in Callers, NEW d \in Callers \ {c}, StepOf(d),
         Awaits(c), Anchored(c)
  PROVE  Awaits(c)' /\ Anchored(c)'
<1> DEFINE p == PackageOf[c]
<1>1. at'[c] = at[c] /\ arg'[c] = arg[c] /\ Pending(c)' = Pending(c)
  BY OthersControl
<1>2. PICK id : id = arg[c].id  OBVIOUS
<1>3. PICK n \in Names : n = arg[c].name  BY DEF TypeOK, Arg
<1>4. RowsKept(p) /\ ExecutablesKept(p) /\ FoldersKept(p)  BY OthersLeave
<1>5. id \in OwnIds(p) => id \in OwnIds(p)'  BY <1>4 DEF RowsKept, OwnIds, Rows
<1>6. Lookup(p, n)' = Lookup(p, n)  BY <1>4, KeptForCaller
<1>7. ASSUME NEW x \in executables', x.softwareId \in OwnIds(p)
      PROVE  x \in executables
  BY <1>4, <1>7 DEF ExecutablesKept
<1>8. at'[c] \in WithRow => arg'[c].id \in OwnIds(PackageOf[c])'
  BY <1>1, <1>2, <1>5 DEF Anchored
<1>9. Awaits(c)'
  <2>1. ASSUME NEW i \in Pending(c), i.step = "insert", NEW x \in executables', x.softwareId = arg'[c].id
        PROVE  x.name # i.row.name
    <3>1. at[c] \in WithRow /\ ~HasExec(arg[c].id, i.row.name)  BY <2>1 DEF Awaits, WithRow
    <3>2. x \in executables  BY <1>1, <1>7, <2>1, <3>1 DEF Anchored
    <3>3. QED  BY <1>1, <2>1, <3>1, <3>2 DEF HasExec
  <2>2. QED  BY <1>1, <2>1 DEF Awaits, HasExec
<1>10. at'[c] = "deleteSoftware" => \A x \in executables' : x.softwareId \notin Lookup(p, n)'
  <2>1. \A x : x.softwareId \in Lookup(p, n) => x.softwareId \in OwnIds(p)
    BY DEF Lookup, OwnIds
  <2>2. QED  BY <1>1, <1>3, <1>6, <1>7, <2>1 DEF Anchored
<1>11. Lookup(PackageOf[c], arg[c].name)' = Lookup(p, n)'
  BY <1>1, <1>3 DEF Lookup, Rows
<1>12. at'[c] = "updateRow" => Whole(arg'[c].list)  BY <1>1 DEF Anchored
<1>13. QED  BY <1>8, <1>9, <1>10, <1>11, <1>12 DEF Anchored

\* A call begins with nothing on its way.
LEMMA AnchoredCall ==
  ASSUME DistinctLists, WholeLists, TypeOK, NEW c \in Callers, Call(c), Awaits(c)
  PROVE  Awaits(c)' /\ Anchored(c)'
<1>1. at[c] = "idle"
  <2>1. \A n, t, na, es : InstallSoftware(c, n, t, na, es) => at[c] = "idle"
    BY DEF InstallSoftware, Begin
  <2>2. \A n, to, d : UpdateSoftware(c, n, to, d) => at[c] = "idle"  BY DEF UpdateSoftware, Begin
  <2>3. \A op, n, e, f : FindOwner(c, op, n, e, f) => at[c] = "idle"  BY DEF FindOwner, Begin
  <2>4. \A n : UninstallSoftware(c, n) => at[c] = "idle"  BY DEF UninstallSoftware, Begin
  <2>5. \A n, t : RunInstall(c, n, t) => at[c] = "idle"  BY DEF RunInstall, Begin
  <2>6. QED  BY <2>1, <2>2, <2>3, <2>4, <2>5 DEF Call
<1>2. Pending(c) = {}  BY <1>1 DEF Awaits
<1>3. ASSUME NEW n \in Names, NEW t \in Types, NEW na \in BOOLEAN, NEW es \in ExecLists,
             InstallSoftware(c, n, t, na, es)
      PROVE  Awaits(c)' /\ Anchored(c)'
  <2> DEFINE S == {es[i] : i \in DOMAIN es}
             x(id, i) == [caller |-> c, call |-> calls, slot |-> i, step |-> "insert", path |-> TRUE,
                          row |-> [name |-> es[i], softwareId |-> id, folder |-> n]]
             Sent(id) == {x(id, i) : i \in DOMAIN es}
  <2>1. CASE End(c, "refused") /\ UNCHANGED inflight
    <3>1. at'[c] = "idle" /\ Pending(c)' = {}  BY <1>2, <2>1 DEF End, Pending, TypeOK
    <3>2. QED  BY <3>1 DEF Awaits, Anchored, WithRow
  <2>2. CASE Lookup(PackageOf[c], n) = {} /\ Goto(c, "insertExecs")
    <3>1. PICK id \in Fresh :
            /\ software' = [software EXCEPT ![id] =
                 [name |-> n, owner |-> PackageOf[c], installed |-> FALSE,
                  noAuto |-> na, type |-> t]]
            /\ inflight' = inflight \cup Sent(id)
            /\ arg' = [arg EXCEPT ![c] =
                 [Blank("install", n) EXCEPT !.id = id, !.type = t, !.noAuto = na, !.execs = S]]
            /\ executables' = executables
      BY <1>3, <2>2 DEF InstallSoftware
    <3>2. ASSUME NEW i \in DOMAIN es
          PROVE  /\ x(id, i).caller = c /\ x(id, i).row.name = es[i]
                 /\ x(id, i).call = calls /\ x(id, i).step = "insert" /\ x(id, i).path
                 /\ x(id, i).row.softwareId = id
      OBVIOUS
    <3> HIDE DEF S, x
    <3>3. Pending(c)' = Sent(id)  BY <1>2, <3>1, <3>2 DEF Pending
    <3>4. \A i, j \in DOMAIN es : es[i] = es[j] => i = j  BY DEF DistinctLists
    <3>5. \A i, j \in Sent(id) : i # j => i.row.name # j.row.name
      BY <3>2, <3>4
    <3>6. \A i \in Sent(id) : i.row.softwareId = id /\ i.call = calls /\ i.step = "insert" /\ i.path
      BY <3>2
    <3> HIDE DEF Sent
    <3>7. arg'[c].id = id /\ arg'[c].call = calls
      <4>1. Blank("install", n) \in Arg /\ Blank("install", n).call = calls
        BY BlankType DEF OpName, Blank
      <4>2. QED  BY <3>1, <4>1 DEF TypeOK, Arg
    <3>8. \A e : ~HasExec(id, e)  BY DEF Fresh, HasExec
    <3>9. at'[c] = "insertExecs"  BY <2>2 DEF Goto, TypeOK
    <3>10. Awaits(c)'
      BY <3>1, <3>3, <3>5, <3>6, <3>7, <3>8, <3>9 DEF Awaits, HasExec
    <3>11. id \in OwnIds(PackageOf[c])'
      BY <3>1 DEF OwnIds, Rows, NoRow, TypeOK, Fresh
    <3>12. QED  BY <3>7, <3>9, <3>10, <3>11 DEF Anchored, OwnIds, Rows
  <2>3. QED  BY <1>3, <2>1, <2>2 DEF InstallSoftware, tables
<1>4. ASSUME UNCHANGED inflight,
             \/ at'[c] \notin WithRow \cup {"rollback", "deleteSoftware"}
             \/ /\ at'[c] = "updateRow" /\ arg'[c].id \in OwnIds(PackageOf[c])'
                /\ Whole(arg'[c].list)
      PROVE  Awaits(c)' /\ Anchored(c)'
  <2>1. Pending(c)' = {}  BY <1>2, <1>4 DEF Pending
  <2>2. at'[c] \notin {"rollback", "deleteSoftware"}  BY <1>4
  <2>3. Awaits(c)'  BY <2>1, <2>2 DEF Awaits
  <2>4. Anchored(c)'  BY <1>4, <2>2 DEF Anchored, WithRow
  <2>5. QED  BY <2>3, <2>4
<1>5. ASSUME NEW n \in Names, UninstallSoftware(c, n)
      PROVE  Awaits(c)' /\ Anchored(c)'
  <2>1. UNCHANGED inflight /\ at'[c] \in {"deleteExecs", "idle"}
    BY <1>5 DEF UninstallSoftware, RemovalFails, Goto, End, TypeOK
  <2>2. QED  BY <1>4, <2>1 DEF WithRow
<1>6. CASE Updating(c)
  <2>1. OwnIds(PackageOf[c])' = OwnIds(PackageOf[c])  BY <1>6 DEF Updating, OwnIds, Rows
  <2>2. Whole(arg'[c].list)  BY <1>6 DEF Updating, WholeLists
  <2>3. QED  BY <1>4, <1>6, <2>1, <2>2 DEF Updating, WithRow
<1>7. CASE Other(c)  BY <1>4, <1>7 DEF Other, WithRow
<1>8. QED  BY <1>3, <1>5, <1>6, <1>7, CallsNamed

\* A statement goes on, or is rejected with no other on its way.
LEMMA AwaitsStatement ==
  ASSUME TypeOK, NEW c \in Callers, Awaits(c), Anchored(c), NEW i \in Pending(c), Executes(i),
         arg[c].id \in OwnIds(PackageOf[c]) => arg'[c].id \in OwnIds(PackageOf[c])'
  PROVE  Awaits(c)' /\ Anchored(c)'
<1>1. /\ i \in inflight /\ i.caller = c /\ i \in Statement
      /\ at[c] \in {"insertExecs", "writeExecs"} /\ i.call = arg[c].call /\ i.row.softwareId = arg[c].id
      /\ at[c] = "insertExecs" => i.step = "insert"
      /\ i.step = "insert" => ~HasExec(arg[c].id, i.row.name)
  BY StatementFacts DEF Awaits, Pending
<1>2. UNCHANGED arg  BY StatementSteps
<1>3. Awaited(i)  BY <1>1 DEF Awaited
<1>4. \A j, k \in Pending(c) : j # k => j.row.name # k.row.name /\ j.path  BY DEF Awaits
<1>5. \A j \in Pending(c) \ {i} : /\ j.call = arg[c].call /\ j.row.softwareId = arg[c].id
                                  /\ at[c] = "insertExecs" => j.step = "insert"
                                  /\ j.step = "insert" => ~HasExec(arg[c].id, j.row.name)
                                  /\ j.row.name # i.row.name
  BY <1>4 DEF Awaits
<1>6. CASE InsertExecutable(i)
  <2>1. /\ UNCHANGED at /\ inflight' = inflight \ {i}
        /\ executables' = executables \cup {i.row}
    BY <1>1, <1>6 DEF InsertExecutable
  <2>2. Pending(c)' = Pending(c) \ {i}  BY <2>1 DEF Pending
  <2>3. \A j \in Pending(c) \ {i} :
           j.step = "insert" => ~\E x \in executables' : x.softwareId = arg[c].id /\ x.name = j.row.name
    BY <1>5, <2>1 DEF HasExec
  <2>4. Awaits(c)'  BY <1>1, <1>2, <1>4, <1>5, <2>1, <2>2, <2>3 DEF Awaits, HasExec
  <2>5. QED  BY <1>1, <1>2, <2>1, <2>4 DEF Anchored, WithRow
<1>7. CASE UpdateExecutable(i)
  <2>1. UNCHANGED at /\ inflight' = inflight \ {i}  BY <1>7 DEF UpdateExecutable
  <2>2. Pending(c)' = Pending(c) \ {i}  BY <2>1 DEF Pending
  <2>3. ASSUME NEW y \in executables'
        PROVE  \E x \in executables : x.softwareId = y.softwareId /\ x.name = y.name
    BY <1>7 DEF UpdateExecutable
  <2>4. \A j \in Pending(c) \ {i} :
           j.step = "insert" => ~\E x \in executables' : x.softwareId = arg[c].id /\ x.name = j.row.name
    BY <1>5, <2>3 DEF HasExec
  <2>5. Awaits(c)'  BY <1>1, <1>2, <1>4, <1>5, <2>1, <2>2, <2>4 DEF Awaits, HasExec
  <2>6. QED  BY <1>1, <1>2, <2>1, <2>5 DEF Anchored, WithRow
<1>8. CASE FindExecutable(i)
  <2>1. UNCHANGED executables /\ i.step = "find" /\ at[c] = "writeExecs"
    BY <1>1, <1>8 DEF FindExecutable, tables
  <2>2. CASE Reject(i) /\ ~i.path /\ inflight' = inflight \ {i}
    <3>1. Pending(c) = {i}  BY <1>4, <2>2
    <3>2. Pending(c)' = {}  BY <2>2, <3>1 DEF Pending
    <3>3. at'[c] = "idle"  BY <1>1, <1>3, <2>1, <2>2 DEF Reject, Goto, End, TypeOK
    <3>4. QED  BY <3>2, <3>3 DEF Awaits, Anchored, WithRow
  <2>3. ASSUME NEW s \in {"insert", "update"}, s = "insert" => ~HasExec(i.row.softwareId, i.row.name),
               inflight' = (inflight \ {i}) \cup {[i EXCEPT !.step = s]}, UNCHANGED at
        PROVE  Awaits(c)' /\ Anchored(c)'
    <3> DEFINE q == [i EXCEPT !.step = s]
    <3>1. q.caller = c /\ q.path = i.path /\ q.row = i.row /\ q.call = i.call /\ q.step = s
      BY <1>1 DEF Statement
    <3>2. Pending(c)' = (Pending(c) \ {i}) \cup {q}  BY <2>3, <3>1 DEF Pending
    <3> HIDE DEF q
    <3>3. q.step = "insert" => ~HasExec(arg[c].id, q.row.name)  BY <1>1, <2>3, <3>1
    <3>4. \A j, k \in Pending(c)' : j # k => j.row.name # k.row.name /\ j.path
      <4>1. \A j \in Pending(c) \ {i} : i.path /\ j.path /\ j.row.name # i.row.name
        BY <1>4
      <4>2. QED  BY <1>4, <3>1, <3>2, <4>1
    <3>5. \A j \in Pending(c)' : /\ j.call = arg[c].call /\ j.row.softwareId = arg[c].id
                                 /\ j.step = "insert" => ~HasExec(arg[c].id, j.row.name)
      BY <1>1, <1>5, <3>1, <3>2, <3>3
    <3>6. Awaits(c)'  BY <1>2, <2>1, <2>3, <3>4, <3>5 DEF Awaits, HasExec
    <3>7. QED  BY <1>2, <2>1, <2>3, <3>6 DEF Anchored, WithRow
  <2>4. QED  BY <1>8, <2>2, <2>3 DEF FindExecutable
<1>9. QED  BY <1>6, <1>7, <1>8 DEF Executes

\* It goes on: an executable follows its row, and a row its executables.
LEMMA AnchoredContinue ==
  ASSUME TypeOK, NEW c \in Callers, Awaits(c), Anchored(c), Continue(c) \/ FailDownload(c) \/ Crash(c)
  PROVE  Awaits(c)' /\ Anchored(c)'
<1>1. Same(c)  BY SameCall
<1>2. CASE at[c] = "deleteSoftware"
  <2>1. Pending(c) = {}  BY <1>2 DEF Awaits
  <2>2. DeleteSoftware(c) \/ Crash(c)
    BY <1>2, <2>1 DEF Continue, FailDownload, RollBack, ExecutablesInserted, ExecutablesWritten,
     SkipDownload, StartDownload, WriteDownload, FinishDownload, Extract, MarkInstalled,
     DeleteExecutables, UpdateRow, FetchRecord, CopyContents, RemoveOld, RemoveForReinstall,
     Refetch, DeleteExecutable, RenameExecutable
  <2>3. at'[c] = "idle"  BY <2>2 DEF DeleteSoftware, Crash, End, TypeOK
  <2>4. Pending(c)' = {}  BY <2>1, <2>2 DEF DeleteSoftware, Crash, Pending
  <2>5. QED  BY <2>3, <2>4 DEF Awaits, Anchored, WithRow
<1>3. CASE at[c] # "deleteSoftware"
  <2>1. at[c] # "rollback"  BY DEF Awaits
  <2>2. arg[c].id \in OwnIds(PackageOf[c]) => arg'[c].id \in OwnIds(PackageOf[c])'
    <3>1. ASSUME NEW id \in OwnIds(PackageOf[c]) PROVE id \in OwnIds(PackageOf[c])'
      BY <1>3, <2>1, <3>1, RowsStay
    <3>2. QED  BY <1>1, <3>1 DEF Same
  <2>3. ASSUME NEW i \in Pending(c), Executes(i)
        PROVE  Awaits(c)' /\ Anchored(c)'
    BY <1>3, <2>2, <2>3, AwaitsStatement
  <2>4. CASE ExecutablesInserted(c) \/ ExecutablesWritten(c)
    <3>1. /\ at'[c] \in {"runInstall", "fetch"} /\ UNCHANGED inflight
          /\ at[c] \in {"insertExecs", "writeExecs"} /\ \A i \in Pending(c) : ~Awaited(i)
      BY <2>4 DEF ExecutablesInserted, ExecutablesWritten, Goto, TypeOK
    <3>2. Pending(c)' = {}
      BY <3>1 DEF Awaits, Awaited, Pending
    <3>3. QED  BY <3>1, <3>2 DEF Awaits, Anchored, WithRow
  <2>5. CASE Crash(c)
    <3>1. at'[c] = "idle" /\ Pending(c)' = {}  BY <2>5 DEF Crash, End, Pending, TypeOK
    <3>2. QED  BY <3>1 DEF Awaits, Anchored, WithRow
  <2>6. ASSUME at[c] \notin {"insertExecs", "writeExecs"}, UNCHANGED inflight,
               at'[c] \notin WithRow \cup {"rollback", "deleteSoftware"}
        PROVE  Awaits(c)' /\ Anchored(c)'
    <3>1. Pending(c)' = {}  BY <2>6 DEF Awaits, Pending
    <3>2. at'[c] \notin {"rollback", "deleteSoftware"}  BY <2>6 DEF WithRow
    <3>3. Awaits(c)'  BY <3>1, <3>2 DEF Awaits
    <3>4. Anchored(c)'  BY <2>2, <2>6, <3>2 DEF Anchored, WithRow
    <3>5. QED  BY <3>3, <3>4
  <2>7. CASE DeleteExecutables(c)
    <3>1. /\ at[c] = "deleteExecs" /\ UNCHANGED <<inflight, software, arg>>
          /\ \/ at'[c] = "idle"
             \/ /\ at'[c] = "deleteSoftware"
                /\ executables' = {x \in executables :
                                     x.softwareId \notin Lookup(PackageOf[c], arg[c].name)}
      BY <2>7 DEF DeleteExecutables, Goto, End, TypeOK
    <3>2. Pending(c)' = {}  BY <3>1 DEF Awaits, Pending
    <3>3. Awaits(c)'  BY <3>1, <3>2 DEF Awaits
    <3>4. Lookup(PackageOf[c], arg[c].name)' = Lookup(PackageOf[c], arg[c].name)
      BY <3>1 DEF Lookup, Rows
    <3>5. Anchored(c)'  BY <3>1, <3>4 DEF Anchored, WithRow
    <3>6. QED  BY <3>3, <3>5
  <2>8. CASE FailDownload(c)
    <3>1. at[c] \in {"downloading", "writing", "extracting"} /\ at'[c] = "idle" /\ UNCHANGED inflight
      BY <2>8 DEF FailDownload, End, TypeOK
    <3>2. QED  BY <2>6, <3>1 DEF WithRow
  <2>9. CASE \/ SkipDownload(c) \/ StartDownload(c) \/ WriteDownload(c) \/ FinishDownload(c)
             \/ Extract(c) \/ MarkInstalled(c) \/ FetchRecord(c) \/ CopyContents(c) \/ RemoveOld(c)
             \/ RemoveForReinstall(c) \/ Refetch(c) \/ DeleteExecutable(c) \/ RenameExecutable(c)
    <3>1. at[c] \notin {"insertExecs", "writeExecs"} /\ UNCHANGED inflight
      BY <2>9 DEF SkipDownload, StartDownload, WriteDownload, FinishDownload, Extract, MarkInstalled,
       FetchRecord, CopyContents, RemoveOld, RemoveForReinstall, Refetch, DeleteExecutable, RenameExecutable
    <3>2. at'[c] \notin WithRow \cup {"rollback", "deleteSoftware"}
      BY <2>9 DEF SkipDownload, StartDownload, WriteDownload, FinishDownload, Extract, MarkInstalled,
       FetchRecord, CopyContents, RemoveOld, RemoveForReinstall, RemovalFails, Refetch, DeleteExecutable,
       RenameExecutable, WithRow, Goto, End, TypeOK
    <3>3. QED  BY <2>6, <3>1, <3>2
  <2>10. CASE UpdateRow(c)
    <3>1. /\ at[c] = "updateRow" /\ UNCHANGED <<executables, arg>>
          /\ \/ at'[c] = "idle" /\ UNCHANGED inflight
             \/ at'[c] = "writeExecs" /\ inflight' = inflight \cup Selects(c)
      BY <2>10 DEF UpdateRow, Goto, End, TypeOK
    <3>2. CASE at'[c] = "idle" /\ UNCHANGED inflight  BY <2>6, <3>1, <3>2 DEF WithRow
    <3>3. CASE at'[c] = "writeExecs" /\ inflight' = inflight \cup Selects(c)
      <4> DEFINE a == arg[c]
                 x(k) == [caller |-> c, call |-> a.call, slot |-> k, step |-> "find",
                          path |-> a.list[k].path,
                          row |-> [name |-> a.list[k].name, softwareId |-> a.id, folder |-> a.to]]
      <4>1. a.id \in OwnIds(PackageOf[c]) /\ Whole(a.list)  BY <3>1 DEF Anchored, WithRow
      <4>2. a.id \in Ids  BY <4>1 DEF OwnIds, Rows
      <4>3. \A i \in Selects(c) : /\ i.caller = c /\ i.call = a.call /\ i.step = "find"
                                  /\ i.row.softwareId = a.id
        BY <4>2, SelectsType
      <4>4. Pending(c) = {}  BY <3>1 DEF Awaits
      <4>5. Pending(c)' = Selects(c)  BY <3>3, <4>3, <4>4 DEF Pending
      <4>6. Selects(c) = {x(k) : k \in DOMAIN a.list}  BY DEF Selects
      <4>7. \A k \in DOMAIN a.list : x(k).row.name = a.list[k].name /\ x(k).path = a.list[k].path
        OBVIOUS
      <4> HIDE DEF x, a
      <4>8. ASSUME NEW i \in Selects(c), NEW j \in Selects(c), i # j
            PROVE  i.row.name # j.row.name /\ i.path
        <5>1. PICK k \in DOMAIN a.list : i = x(k)  BY <4>6
        <5>2. PICK l \in DOMAIN a.list : j = x(l)  BY <4>6
        <5>3. k # l  BY <4>8, <5>1, <5>2
        <5>4. QED  BY <4>1, <4>7, <5>1, <5>2, <5>3 DEF Whole
      <4>9. Awaits(c)'  BY <3>1, <3>3, <4>3, <4>5, <4>8 DEF Awaits, a
      <4>10. QED  BY <2>2, <3>3, <4>1, <4>9 DEF Anchored, a
    <3>4. QED  BY <3>1, <3>2, <3>3
  <2>11. QED
    BY <1>3, <2>1, <2>3, <2>4, <2>5, <2>7, <2>8, <2>9, <2>10
    DEF Continue, Executes, RollBack, DeleteSoftware
<1>4. QED  BY <1>2, <1>3

\* No step leaves an executable without a row.
LEMMA NoOrphansStep ==
  ASSUME TypeOK, NEW c \in Callers, Awaits(c), Anchored(c), NoOrphanExecutables, StepOf(c)
  PROVE  NoOrphanExecutables'
<1>1. ASSUME \A x \in executables' : x.softwareId \in OwnIds(PackageOf[c]) \/
                                     \E y \in executables : y.softwareId = x.softwareId,
             Rows \subseteq Rows'
      PROVE  NoOrphanExecutables'
  BY <1>1 DEF NoOrphanExecutables, OwnIds
<1>2. CASE Call(c)
  <2>1. UNCHANGED executables
    BY <1>2, ZenonT(30)
    DEF Call, InstallSoftware, RunInstall, UninstallSoftware, UpdateSoftware, FindOwner, tables
  <2>2. Rows \subseteq Rows'
    <3>1. ASSUME UNCHANGED software PROVE Rows \subseteq Rows'  BY <3>1 DEF Rows
    <3>2. InsertsRow => Rows \subseteq Rows'
      BY LookupRows, RowIsRow DEF InsertsRow, Rows, TypeOK
    <3>3. QED  BY <1>2, <3>1, <3>2, CallSoftware
  <2>3. QED  BY <1>1, <2>1, <2>2
<1>3. CASE (Continue(c) \/ FailDownload(c) \/ Crash(c)) /\ ~DeleteSoftware(c)
  <2>1. at[c] \notin {"rollback", "deleteSoftware"} \/ UNCHANGED <<software, executables>>
    <3>1. at[c] # "rollback"  BY DEF Awaits
    <3>2. at[c] = "deleteSoftware" => Pending(c) = {}  BY DEF Awaits
    <3>3. at[c] = "deleteSoftware" => UNCHANGED <<software, executables>>
      BY <1>3, <3>2 DEF Continue, FailDownload, Crash, RollBack, ExecutablesInserted,
       ExecutablesWritten, SkipDownload, StartDownload, WriteDownload, FinishDownload, Extract,
       MarkInstalled, DeleteExecutables, UpdateRow, FetchRecord, CopyContents, RemoveOld,
       RemoveForReinstall, Refetch, DeleteExecutable, RenameExecutable, tables
    <3>4. QED  BY <3>1, <3>3
  <2>2. CASE UNCHANGED <<software, executables>>
    BY <2>2 DEF NoOrphanExecutables, Rows
  <2>3. CASE at[c] \notin {"rollback", "deleteSoftware"}
    <3>1. Rows \subseteq Rows'
      <4>1. SUFFICES ASSUME NEW id \in Rows PROVE id \in Rows'  OBVIOUS
      <4>2. id \in OwnIds(software[id].owner)  BY DEF OwnIds
      <4>3. PICK p : p = software[id].owner  OBVIOUS
      <4>4. id \in OwnIds(p)'  BY <1>3, <2>3, <4>2, <4>3, RowsStay
      <4>5. QED  BY <4>4 DEF OwnIds
    <3>2. ASSUME NEW i \in Pending(c), InsertExecutable(i)
          PROVE  NoOrphanExecutables'
      <4>1. at[c] \in WithRow /\ i.row.softwareId = arg[c].id  BY DEF Awaits, WithRow
      <4>2. arg[c].id \in OwnIds(PackageOf[c])  BY <4>1 DEF Anchored
      <4>3. executables' \subseteq executables \cup {i.row}  BY <3>2 DEF InsertExecutable
      <4>4. QED  BY <1>1, <3>1, <4>1, <4>2, <4>3
    <3>3. ASSUME NEW i \in Pending(c), UpdateExecutable(i)
          PROVE  NoOrphanExecutables'
      <4>1. \A y \in executables' : \E x \in executables : x.softwareId = y.softwareId
        BY <3>3 DEF UpdateExecutable
      <4>2. QED  BY <1>1, <3>1, <4>1
    <3>4. CASE RenameExecutable(c)
      <4> DEFINE old == {x \in executables : x.softwareId = arg[c].id /\ x.name = arg[c].exec}
                 new(x) == [x EXCEPT !.name = arg[c].newExec]
      <4>1. \A x \in old : x \in executables /\ new(x).softwareId = x.softwareId
        BY DEF TypeOK, Executable
      <4>2. UNCHANGED executables \/ executables' = (executables \ old) \cup {new(x) : x \in old}
        BY <3>4 DEF RenameExecutable
      <4> HIDE DEF old, new
      <4>3. \A y \in executables' : \E x \in executables : x.softwareId = y.softwareId
        <5>1. CASE UNCHANGED executables  BY <5>1
        <5>2. CASE executables' = (executables \ old) \cup {new(x) : x \in old}
          <6>1. ASSUME NEW y \in executables'
                PROVE  \E x \in executables : x.softwareId = y.softwareId
            <7>1. y \in executables \/ \E x \in old : y = new(x)  BY <5>2
            <7>2. QED  BY <4>1, <7>1
          <6>2. QED  BY <6>1
        <5>3. QED  BY <4>2, <5>1, <5>2
      <4>4. QED  BY <1>1, <3>1, <4>3
    <3>5. CASE DeleteExecutables(c) \/ DeleteExecutable(c)
      <4>1. executables' \subseteq executables  BY <3>5 DEF DeleteExecutables, DeleteExecutable
      <4>2. QED  BY <1>1, <3>1, <4>1
    <3>6. ASSUME UNCHANGED executables PROVE NoOrphanExecutables'
      BY <1>1, <3>1, <3>6
    <3>7. QED
      BY <1>3, <2>3, <3>2, <3>3, <3>4, <3>5, <3>6 DEF Continue, FailDownload, Crash, RollBack,
       FindExecutable, ExecutablesInserted, ExecutablesWritten, SkipDownload, StartDownload,
       WriteDownload, FinishDownload, Extract, MarkInstalled, UpdateRow, FetchRecord, CopyContents, RemoveOld, RemoveForReinstall,
       Refetch, tables
  <2>4. QED  BY <2>1, <2>2, <2>3
<1>4. CASE DeleteSoftware(c)
  <2>1. /\ UNCHANGED executables
        /\ software' = [id \in Ids |-> IF id \in Lookup(PackageOf[c], arg[c].name)
                                       THEN NoRow ELSE software[id]]
        /\ \A x \in executables : x.softwareId \notin Lookup(PackageOf[c], arg[c].name)
    BY <1>4 DEF DeleteSoftware, Anchored
  <2>2. Rows \ Lookup(PackageOf[c], arg[c].name) \subseteq Rows'  BY <2>1 DEF Rows
  <2>3. QED  BY <2>1, <2>2 DEF NoOrphanExecutables
<1>5. QED  BY <1>2, <1>3, <1>4 DEF StepOf

\* Where each package has one caller, no list repeats an executable and none is
\* given without a path among others, no executable outlives its software,
\* wherever a call fails or is killed.
THEOREM OrphansExcluded ==
  ASSUME OwnCallers, DistinctLists, WholeLists
  PROVE  Spec => []NoOrphanExecutables
<1> DEFINE I == Owned /\ NoOrphanExecutables /\ \A c \in Callers : Awaits(c) /\ Anchored(c)
<1>1. Init => I
  BY DEF Init, Owned, Rows, NoOrphanExecutables, Awaits, Anchored, WithRow, Pending
<1>2. TypeInv /\ I /\ [Next]_vars => I'
  <2> SUFFICES ASSUME TypeInv, I, [Next]_vars
               PROVE  NoOrphanExecutables' /\ \A c \in Callers : Awaits(c)' /\ Anchored(c)'
    BY OwnedStep
  <2>1. TypeOK  BY DEF TypeInv
  <2>2. CASE UNCHANGED vars
    BY <2>2 DEF vars, NoOrphanExecutables, Awaits, Anchored, Pending, HasExec, OwnIds, Lookup, Rows
  <2>3. ASSUME NEW d \in Callers, StepOf(d)
        PROVE  NoOrphanExecutables' /\ \A c \in Callers : Awaits(c)' /\ Anchored(c)'
    <3>1. NoOrphanExecutables'  BY <2>1, <2>3, NoOrphansStep
    <3>2. Awaits(d)' /\ Anchored(d)'  BY <2>1, <2>3, AnchoredCall, AnchoredContinue DEF StepOf
    <3>3. ASSUME NEW c \in Callers, c # d
          PROVE  Awaits(c)' /\ Anchored(c)'
      BY <2>1, <2>3, <3>3, AnchoredOthers
    <3>4. QED  BY <3>1, <3>2, <3>3
  <2>4. QED  BY <2>2, <2>3 DEF Next, StepOf
<1>3. QED
  BY <1>1, <1>2, TypeInvariance, PTL DEF Spec
=============================================================================
