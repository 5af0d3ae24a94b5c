------------------------ MODULE AddOnsRegistryProofs ------------------------
(***************************************************************************)
(* Proofs about the registry of add-ons, for every number of callers,      *)
(* packages, versions and calls.                                           *)
(*                                                                         *)
(* That the table lists valid packages only cannot be read off WriteRow,   *)
(* which inserts a document read two awaits earlier, and that an update    *)
(* never unregisters cannot be read off ReplaceRow, which deletes whatever *)
(* row it is given.  Both follow from what a call carries from stage to    *)
(* stage: the invariant Carried.                                           *)
(***************************************************************************)
EXTENDS AddOnsRegistry, TLAPS

\* Stages a call only reaches when it has found the table.
Connected == {"replace", "readPackageJSON", "write", "readDeps", "nextDep"}

\* What the call of one caller carries with it.
CarriedBy(c) ==
  /\ at[c] \in Connected => db = "ready"
  /\ at[c] = "write" => Valid(arg[c].pkg, arg[c].document)
  /\ at[c] = "replace" => arg[c].force /\ ~arg[c].update
  /\ arg[c].force => arg[c].op \in {"install", "update"}
  /\ arg[c].op = "update" => arg[c].update
  /\ at[c] = "deleteRow" => arg[c].op = "uninstall"

Carried == \A c \in Callers : CarriedBy(c)

IInv == TypeOK /\ Carried /\ OnlyAddOnsRegistered

-----------------------------------------------------------------------------
(* A step belongs to one caller: the others stay where they are.           *)

Moves(c) ==
  /\ at' \in [Callers -> Stage]
  /\ outcome' \in [Callers -> Outcome]
  /\ \A d \in Callers \ {c} : at'[d] = at[d]

\* Going on to a stage moves its caller there, and no other.
LEMMA GotoMoves ==
  ASSUME TypeOK, NEW c \in Callers, NEW s \in Stage, Goto(c, s)
  PROVE  Moves(c) /\ at'[c] = s
BY DEF TypeOK, Goto, Moves

\* So does ending a call.
LEMMA EndMoves ==
  ASSUME TypeOK, NEW c \in Callers, NEW result \in Outcome, End(c, result)
  PROVE  Moves(c) /\ at'[c] = "idle"
<1>1. "idle" \in Stage  BY DEF Stage
<1>2. QED  BY <1>1 DEF TypeOK, End, Moves

OpName == {"none", "create", "install", "uninstall", "update", "reindex", "loadAll"}

\* The arguments of a call that has only begun are typed, and force nothing.
LEMMA BlankType ==
  ASSUME NEW op \in OpName
  PROVE  /\ Blank(op) \in Arg
         /\ Blank(op).op = op /\ ~Blank(op).force /\ ~Blank(op).update
<1>1. (CHOOSE p \in Packages : TRUE) \in Packages  BY PackagesAssumption
<1>2. QED  BY <1>1 DEF Blank, Arg, MaybeVersion, OpName

\* The invariant of all the callers follows from that of the one that moved,
\* as the table, once there, stays.
LEMMA CarriedOn ==
  ASSUME Carried, NEW c \in Callers, CarriedBy(c)',
         \A d \in Callers \ {c} : at'[d] = at[d] /\ arg'[d] = arg[d],
         db = "ready" => db' = "ready"
  PROVE  Carried'
BY DEF Carried, CarriedBy, Valid

\* A step that only takes rows out keeps the table valid.
LEMMA RowsRemoved ==
  ASSUME OnlyAddOnsRegistered, \A p \in Packages : row'[p] = row[p] \/ row'[p] = None
  PROVE  OnlyAddOnsRegistered'
BY DEF OnlyAddOnsRegistered, Registered, Valid

-----------------------------------------------------------------------------
\* The steps that leave the arguments of their call alone and at most remove rows.
Plain(c) ==
  \/ CheckDB(c) \/ OpenDB(c) \/ CreateTable(c)
  \/ SaveDependencies(c) \/ NpmFails(c) \/ RunNpm(c) \/ DeleteRow(c)
  \/ QueryRegistry(c) \/ ReplaceRow(c)
  \/ ReadBack(c) \/ LoadScripts(c) \/ RunInstalls(c) \/ ScriptFails(c)
  \/ Crash(c)

\* Where such a step may lead, and from where: the table has been found at every
\* stage beyond the query, and only a forced install goes on to replace its row.
LEMMA PlainMoves ==
  ASSUME IInv, NEW c \in Callers, Plain(c)
  PROVE  /\ Moves(c) /\ arg' = arg
         /\ at'[c] \in Connected => db = "ready"
         /\ at'[c] # "write"
         /\ at'[c] = "replace" => arg[c].force /\ ~arg[c].update
         /\ at'[c] = "deleteRow" => arg[c].op = "uninstall"
<1> USE DEF IInv
<1>1. CASE CheckDB(c)
  BY <1>1, GotoMoves, EndMoves DEF CheckDB, Stage, Outcome, Connected
<1>2. CASE OpenDB(c) \/ CreateTable(c)
  BY <1>2, GotoMoves, EndMoves DEF OpenDB, CreateTable, Stage, Outcome, Connected
<1>3. CASE SaveDependencies(c)
  <2>1. arg[c].op = "uninstall" \/ arg[c].op # "uninstall"  OBVIOUS
  <2>2. QED  BY <1>3, <2>1, GotoMoves DEF SaveDependencies, Stage, Connected
<1>4. CASE NpmFails(c) \/ RunNpm(c)
  BY <1>4, GotoMoves, EndMoves DEF NpmFails, RunNpm, Stage, Outcome, Connected
<1>5. CASE DeleteRow(c)
  BY <1>5, EndMoves DEF DeleteRow, Outcome, Connected
<1>6. CASE QueryRegistry(c)
  <2>1. ASSUME db = "ready", NEW why \in {"invalid", "already in registry"}, NotAdded(c, why)
        PROVE  Moves(c) /\ at'[c] \in {"idle", "nextDep"}
    BY <2>1, GotoMoves, EndMoves DEF NotAdded, Stage, Outcome
  <2>2. arg[c].pkg \in Registered => db = "ready"
    BY DEF TypeOK, Registered
  <2>3. QED
    BY <1>6, <2>1, <2>2, GotoMoves, EndMoves DEF QueryRegistry, Stage, Outcome, Connected
<1>7. CASE ReplaceRow(c)
  <2>1. db = "ready"  BY <1>7 DEF ReplaceRow, Carried, CarriedBy, Connected
  <2>2. QED  BY <1>7, <2>1, GotoMoves DEF ReplaceRow, Stage, Connected
<1>8. CASE ReadBack(c)
  BY <1>8, GotoMoves, EndMoves DEF ReadBack, Stage, Outcome, Connected
<1>9. CASE LoadScripts(c) \/ RunInstalls(c) \/ ScriptFails(c)
  BY <1>9, GotoMoves, EndMoves DEF LoadScripts, RunInstalls, ScriptFails, Stage, Outcome, Connected
<1>10. CASE Crash(c)
  BY <1>10, EndMoves DEF Crash, Outcome, Connected
<1>11. QED
  BY <1>1, <1>2, <1>3, <1>4, <1>5, <1>6, <1>7, <1>8, <1>9, <1>10 DEF Plain

DataTyped ==
  /\ db' \in {"no directory", "absent", "empty", "ready"}
  /\ deps' \subseteq Packages
  /\ module' \in [Packages -> MaybeVersion]
  /\ calls' \in Nat

\* What such a step does to the rest of the state: it writes the database only
\* to make it, or to take rows out.
LEMMA PlainData ==
  ASSUME TypeOK, NEW c \in Callers, Plain(c)
  PROVE  /\ DataTyped
         /\ db = "ready" => db' = "ready"
         /\ \/ row' = row
            \/ \E p \in Packages : row' = [row EXCEPT ![p] = None]
<1>1. arg[c].pkg \in Packages /\ arg[c].version \in MaybeVersion  BY DEF TypeOK, Arg
<1>2. Opened \in {"absent", "empty", "ready", "no directory"} /\ (db = "ready" => Opened = "ready")
  BY DEF TypeOK, Opened
<1>3. CASE CheckDB(c) \/ OpenDB(c) \/ CreateTable(c)
  BY <1>2, <1>3 DEF CheckDB, OpenDB, CreateTable, TypeOK, DataTyped, disk
<1>4. CASE RunNpm(c) \/ NpmFails(c)
  BY <1>1, <1>4 DEF RunNpm, NpmFails, TypeOK, DataTyped, disk
<1>5. CASE SaveDependencies(c)
  <2>1. deps' \subseteq Packages
    BY <1>1, <1>5 DEF SaveDependencies, TypeOK
  <2>2. QED  BY <1>5, <2>1 DEF SaveDependencies, TypeOK, DataTyped
<1>6. CASE DeleteRow(c) \/ ReplaceRow(c)
  BY <1>1, <1>2, <1>6 DEF DeleteRow, ReplaceRow, TypeOK, DataTyped, disk
<1>7. CASE QueryRegistry(c)
  BY <1>2, <1>7 DEF QueryRegistry, TypeOK, DataTyped, disk
<1>8. CASE ReadBack(c) \/ LoadScripts(c) \/ RunInstalls(c) \/ ScriptFails(c) \/ Crash(c)
  BY <1>8 DEF ReadBack, LoadScripts, RunInstalls, ScriptFails, Crash, TypeOK, DataTyped, disk
<1>9. QED
  BY <1>3, <1>4, <1>5, <1>6, <1>7, <1>8 DEF Plain

\* Hence the plain steps preserve the invariant.
LEMMA PlainStep ==
  ASSUME IInv, NEW c \in Callers, Plain(c)
  PROVE  IInv'
<1>1. TypeOK /\ Carried /\ OnlyAddOnsRegistered  BY DEF IInv
<1>2. \/ row' = row
      \/ \E p \in Packages : row' = [row EXCEPT ![p] = None]
  BY <1>1, PlainData
<1>3. /\ row' \in [Packages -> MaybeVersion]
      /\ \A p \in Packages : row'[p] = row[p] \/ row'[p] = None
  BY <1>1, <1>2 DEF TypeOK, MaybeVersion
<1>4. db' # "ready" => \A p \in Packages : row'[p] = None
  BY <1>1, <1>3, PlainData DEF TypeOK
<1>5. TypeOK'
  BY <1>1, <1>3, <1>4, PlainMoves, PlainData DEF TypeOK, Moves, DataTyped
<1>6. CarriedBy(c)'
  <2>1. CarriedBy(c)  BY <1>1 DEF Carried
  <2>2. QED  BY <1>1, <2>1, PlainMoves, PlainData DEF CarriedBy
<1>7. Carried'
  BY <1>1, <1>6, PlainMoves, PlainData, CarriedOn DEF Moves
<1>8. OnlyAddOnsRegistered'
  BY <1>1, <1>3, RowsRemoved
<1>9. QED  BY <1>5, <1>7, <1>8 DEF IInv

-----------------------------------------------------------------------------
(* The steps that give a call its arguments, or change them.               *)

\* A call begins with arguments that promise nothing about the table, except
\* that reindex goes on only when it has found it.
LEMMA CallStep ==
  ASSUME IInv, NEW c \in Callers, Call(c)
  PROVE  IInv'
<1>1. TypeOK /\ Carried /\ OnlyAddOnsRegistered  BY DEF IInv
<1>2. /\ Moves(c)
      /\ at'[c] \in {"idle", "checkDB", "npm", "readDeps", "import"}
      /\ at'[c] = "readDeps" => db = "ready"
  <2>1. ASSUME GotoNpm(c) PROVE Moves(c) /\ at'[c] \in {"idle", "npm"}
    BY <1>1, <2>1, GotoMoves, EndMoves DEF GotoNpm, Stage, Outcome
  <2>2. CASE CreateNewRegistry(c)
    BY <1>1, <2>2, GotoMoves DEF CreateNewRegistry, Stage
  <2>3. CASE \E p \in Packages, v \in Versions, o \in Options : Install(c, p, v, o)
    BY <2>1, <2>3 DEF Install
  <2>4. CASE \E p \in Packages, v \in Versions : Update(c, p, v)
    BY <2>1, <2>4 DEF Update
  <2>5. CASE \E p \in Packages : Uninstall(c, p)
    BY <1>1, <2>5, GotoMoves, EndMoves DEF Uninstall, Stage, Outcome
  <2>6. CASE Reindex(c)
    BY <1>1, <2>6, GotoMoves, EndMoves DEF Reindex, Stage, Outcome
  <2>7. CASE LoadAllOfType(c)
    BY <1>1, <2>7, GotoMoves, EndMoves DEF LoadAllOfType, Stage, Outcome
  <2>8. QED  BY <2>2, <2>3, <2>4, <2>5, <2>6, <2>7 DEF Call
<1>3. \E a \in Arg : /\ arg' = [arg EXCEPT ![c] = a]
                     /\ a.force => a.op \in {"install", "update"}
                     /\ a.op = "update" => a.update
  <2> DEFINE Given(a) == /\ a \in Arg
                         /\ a.force => a.op \in {"install", "update"}
                         /\ a.op = "update" => a.update
  <2>1. \A op \in OpName \ {"update"} : Given(Blank(op))
    BY BlankType DEF OpName
  <2>2. \A p \in Packages, v \in Versions, o \in Options :
          Given([Blank("install") EXCEPT !.pkg = p, !.version = v, !.force = o.force, !.link = o.link])
    <3>1. Blank("install") \in Arg /\ Blank("install").op = "install"
      BY BlankType DEF OpName
    <3>2. QED  BY <3>1, OptionsAssumption, ZenonT(30) DEF Arg, MaybeVersion
  <2>3. \A p \in Packages, v \in Versions :
          Given([Blank("update") EXCEPT !.pkg = p, !.version = v, !.force = TRUE, !.update = TRUE])
    <3>1. Blank("update") \in Arg /\ Blank("update").op = "update"
      BY BlankType DEF OpName
    <3>2. QED  BY <3>1 DEF Arg, MaybeVersion
  <2>4. \A p \in Packages : Given([Blank("uninstall") EXCEPT !.pkg = p])
    <3>1. Blank("uninstall") \in Arg /\ Blank("uninstall").op = "uninstall"
          /\ ~Blank("uninstall").force
      BY BlankType DEF OpName
    <3>2. QED  BY <3>1 DEF Arg
  <2>5. Given([Blank("loadAll") EXCEPT !.todo = Registered])
    <3>1. Blank("loadAll") \in Arg /\ Blank("loadAll").op = "loadAll" /\ ~Blank("loadAll").force
      BY BlankType DEF OpName
    <3>2. QED  BY <3>1 DEF Arg, Registered
  <2>6. CASE CreateNewRegistry(c) \/ Reindex(c)
    BY <2>1, <2>6 DEF CreateNewRegistry, Reindex, OpName
  <2>7. CASE \E p \in Packages, v \in Versions, o \in Options : Install(c, p, v, o)
    <3>1. PICK p \in Packages, v \in Versions, o \in Options : Install(c, p, v, o)
      BY <2>7
    <3> DEFINE a == [Blank("install") EXCEPT !.pkg = p, !.version = v, !.force = o.force, !.link = o.link]
    <3>2. Given(a)  BY <2>2
    <3>3. arg' = [arg EXCEPT ![c] = a]  BY <3>1 DEF Install
    <3> HIDE DEF a
    <3>4. QED  BY <3>2, <3>3
  <2>8. CASE \E p \in Packages, v \in Versions : Update(c, p, v)
    BY <2>3, <2>8 DEF Update
  <2>9. CASE \E p \in Packages : Uninstall(c, p)
    BY <2>4, <2>9 DEF Uninstall
  <2>10. CASE LoadAllOfType(c)
    BY <2>5, <2>10 DEF LoadAllOfType
  <2>11. QED  BY <2>6, <2>7, <2>8, <2>9, <2>10 DEF Call
<1>4. /\ DataTyped
      /\ db = "ready" => db' = "ready"
      /\ row' = row \/ row' = [p \in Packages |-> None]
  <2>1. calls' \in Nat
    <3>1. \E op \in OpName : Begin(c, op)
      BY DEF Call, CreateNewRegistry, Install, Update, Uninstall, Reindex, LoadAllOfType, OpName
    <3>2. calls' = calls + 1  BY <3>1 DEF Begin
    <3>3. calls \in Nat  BY <1>1 DEF TypeOK
    <3>4. QED  BY <3>2, <3>3
  <2>2. QED
    BY <1>1, <2>1 DEF Call, CreateNewRegistry, Install, Update, Uninstall, Reindex, LoadAllOfType,
                Opened, TypeOK, DataTyped, disk
<1>5. /\ row' \in [Packages -> MaybeVersion]
      /\ \A p \in Packages : row'[p] = row[p] \/ row'[p] = None
  BY <1>1, <1>4 DEF TypeOK, MaybeVersion
<1>6. /\ arg' \in [Callers -> Arg]
      /\ \A d \in Callers \ {c} : arg'[d] = arg[d]
      /\ arg'[c].force => arg'[c].op \in {"install", "update"}
      /\ arg'[c].op = "update" => arg'[c].update
  BY <1>1, <1>3 DEF TypeOK
<1>7. TypeOK'
  BY <1>1, <1>2, <1>4, <1>5, <1>6 DEF TypeOK, Moves, DataTyped
<1>8. CarriedBy(c)'
  BY <1>2, <1>4, <1>6 DEF CarriedBy, Connected
<1>9. Carried'
  BY <1>1, <1>2, <1>4, <1>6, <1>8, CarriedOn DEF Moves
<1>10. OnlyAddOnsRegistered'
  BY <1>1, <1>5, RowsRemoved
<1>11. QED  BY <1>7, <1>9, <1>10 DEF IInv

\* A package.json passes validatePackageJSON before its version is carried on to
\* the statement that writes it.
LEMMA ReadPackageJSONStep ==
  ASSUME IInv, NEW c \in Callers, ReadPackageJSON(c)
  PROVE  IInv'
<1>1. TypeOK /\ Carried /\ OnlyAddOnsRegistered  BY DEF IInv
<1> DEFINE p == arg[c].pkg
<1>2. /\ at[c] = "readPackageJSON"
      /\ UNCHANGED <<db, disk, row, calls>>
  BY DEF ReadPackageJSON
<1>3. db = "ready" /\ CarriedBy(c)  BY <1>1, <1>2 DEF Carried, CarriedBy, Connected
<1>4. arg[c] \in Arg /\ p \in Packages /\ module[p] \in MaybeVersion
  BY <1>1 DEF TypeOK, Arg
<1>5. ASSUME NotAdded(c, "invalid") PROVE Moves(c) /\ at'[c] \in {"idle", "nextDep"}
  BY <1>1, <1>5, GotoMoves, EndMoves DEF NotAdded, Stage, Outcome
<1>6. /\ Moves(c)
      /\ \/ at'[c] \in {"idle", "nextDep"} /\ arg' = arg
         \/ /\ at'[c] = "write"
            /\ Valid(p, module[p])
            /\ arg' = [arg EXCEPT ![c].document = module[p]]
  BY <1>1, <1>5, GotoMoves, EndMoves DEF ReadPackageJSON, Stage, Outcome
<1>7. /\ arg' \in [Callers -> Arg]
      /\ \A d \in Callers \ {c} : arg'[d] = arg[d]
      /\ arg'[c].pkg = p /\ arg'[c].op = arg[c].op
      /\ arg'[c].force = arg[c].force /\ arg'[c].update = arg[c].update
      /\ at'[c] = "write" => Valid(p, arg'[c].document)
  <2>1. CASE arg' = arg /\ at'[c] # "write"  BY <1>1, <2>1 DEF TypeOK
  <2>2. CASE Valid(p, module[p]) /\ arg' = [arg EXCEPT ![c].document = module[p]]
    <3> DEFINE a == [arg[c] EXCEPT !.document = module[p]]
    <3>1. /\ a \in Arg /\ a.pkg = p /\ a.op = arg[c].op /\ a.force = arg[c].force
          /\ a.update = arg[c].update /\ a.document = module[p]
      BY <1>4 DEF Arg
    <3>2. arg' = [arg EXCEPT ![c] = a]  BY <2>2
    <3> HIDE DEF a
    <3>3. QED  BY <1>1, <2>2, <3>1, <3>2 DEF TypeOK
  <2>3. QED  BY <1>6, <2>1, <2>2
<1>8. TypeOK'
  BY <1>1, <1>2, <1>6, <1>7 DEF TypeOK, Moves, disk
<1>9. CarriedBy(c)'
  BY <1>2, <1>3, <1>6, <1>7 DEF CarriedBy, Connected, Valid
<1>10. Carried'
  BY <1>1, <1>2, <1>6, <1>7, <1>9, CarriedOn DEF Moves
<1>11. OnlyAddOnsRegistered'
  BY <1>1, <1>2, RowsRemoved
<1>12. QED  BY <1>8, <1>10, <1>11 DEF IInv

\* So what is written is valid, whatever happened to node_modules since.
LEMMA WriteRowStep ==
  ASSUME IInv, NEW c \in Callers, WriteRow(c)
  PROVE  IInv'
<1>1. TypeOK /\ Carried /\ OnlyAddOnsRegistered  BY DEF IInv
<1> DEFINE p == arg[c].pkg
<1>2. /\ at[c] = "write"
      /\ UNCHANGED <<db, disk, arg, calls>>
      /\ \/ row' = row
         \/ row' = [row EXCEPT ![p] = arg[c].document]
         \/ row' = [row EXCEPT ![p] = None]
  BY DEF WriteRow
<1>3. db = "ready" /\ CarriedBy(c) /\ Valid(p, arg[c].document)
  BY <1>1, <1>2 DEF Carried, CarriedBy, Connected
<1>4. p \in Packages /\ arg[c].document \in MaybeVersion
  BY <1>1 DEF TypeOK, Arg
<1>5. Moves(c) /\ at'[c] \in {"idle", "reread", "nextDep"}
  <2>1. ASSUME Added(c) PROVE Moves(c) /\ at'[c] \in {"idle", "reread", "nextDep"}
    <3>1. \/ Goto(c, "reread") \/ End(c, "added") \/ Goto(c, "nextDep")
      BY <2>1 DEF Added
    <3>2. QED  BY <1>1, <3>1, GotoMoves, EndMoves DEF Stage, Outcome
  <2>2. QED  BY <1>1, <2>1, EndMoves DEF WriteRow, Outcome
<1>6. row' \in [Packages -> MaybeVersion]
  BY <1>1, <1>2, <1>4 DEF TypeOK, MaybeVersion
<1>7. TypeOK'
  BY <1>1, <1>2, <1>3, <1>5, <1>6 DEF TypeOK, Moves, disk
<1>8. CarriedBy(c)'
  BY <1>2, <1>3, <1>5 DEF CarriedBy
<1>9. Carried'
  BY <1>1, <1>2, <1>5, <1>8, CarriedOn DEF Moves
<1>10. OnlyAddOnsRegistered'
  BY <1>1, <1>2, <1>3, <1>4, <1>6 DEF OnlyAddOnsRegistered, Registered, Valid, TypeOK
<1>11. QED  BY <1>7, <1>9, <1>10 DEF IInv

\* The steps over a list of dependencies or add-ons change only that list and the
\* package at hand.
LEMMA ListStep ==
  ASSUME IInv, NEW c \in Callers, ReadDependencies(c) \/ NextDependency(c) \/ Import(c)
  PROVE  IInv'
<1>1. TypeOK /\ Carried /\ OnlyAddOnsRegistered  BY DEF IInv
<1>2. arg[c] \in Arg /\ deps \subseteq Packages /\ arg[c].todo \subseteq Packages
  BY <1>1 DEF TypeOK, Arg
<1>3. /\ UNCHANGED <<db, disk, row, calls>>
      /\ Moves(c)
      /\ at'[c] \in {"idle", "nextDep", "query", "import"}
      /\ at'[c] = "nextDep" => at[c] = "readDeps"
  <2>1. CASE ReadDependencies(c)
    BY <1>1, <2>1, GotoMoves DEF ReadDependencies, Stage
  <2>2. CASE NextDependency(c)
    BY <1>1, <2>2, GotoMoves, EndMoves DEF NextDependency, Stage, Outcome
  <2>3. CASE Import(c)
    <3>1. CASE End(c, "done") \/ End(c, "failed")
      BY <1>1, <2>3, <3>1, EndMoves DEF Import, Outcome
    <3>2. CASE UNCHANGED <<at, outcome>>
      BY <1>1, <2>3, <3>2 DEF Import, Moves, TypeOK
    <3>3. QED  BY <2>3, <3>1, <3>2 DEF Import
  <2>4. QED  BY <2>1, <2>2, <2>3
<1>4. \E a \in Arg : /\ arg' = [arg EXCEPT ![c] = a]
                     /\ a.op = arg[c].op /\ a.force = arg[c].force /\ a.update = arg[c].update
  <2> DEFINE Same(a) == /\ a \in Arg
                        /\ a.op = arg[c].op /\ a.force = arg[c].force /\ a.update = arg[c].update
  <2>1. \A t \in SUBSET Packages : Same([arg[c] EXCEPT !.todo = t])
    BY <1>2 DEF Arg
  <2>2. \A q \in Packages, t \in SUBSET Packages : Same([arg[c] EXCEPT !.pkg = q, !.todo = t])
    BY <1>2 DEF Arg
  <2>3. CASE arg' = arg
    BY <1>1, <1>2, <2>3 DEF TypeOK
  <2>4. CASE arg' = [arg EXCEPT ![c].todo = deps]
    BY <1>2, <2>1, <2>4
  <2>5. CASE \E q \in arg[c].todo : arg' = [arg EXCEPT ![c].pkg = q, ![c].todo = @ \ {q}]
    <3>1. PICK q \in arg[c].todo : arg' = [arg EXCEPT ![c].pkg = q, ![c].todo = @ \ {q}]
      BY <2>5
    <3>2. arg' = [arg EXCEPT ![c] = [arg[c] EXCEPT !.pkg = q, !.todo = arg[c].todo \ {q}]]
      BY <1>1, <1>2, <3>1 DEF TypeOK, Arg
    <3>3. q \in Packages /\ arg[c].todo \ {q} \in SUBSET Packages  BY <1>2
    <3>4. QED  BY <2>2, <3>2, <3>3
  <2>6. CASE \E q \in arg[c].todo : arg' = [arg EXCEPT ![c].todo = @ \ {q}]
    BY <1>2, <2>1, <2>6
  <2>7. QED
    BY <2>3, <2>4, <2>5, <2>6 DEF ReadDependencies, NextDependency, Import
<1>5. /\ arg' \in [Callers -> Arg]
      /\ \A d \in Callers \ {c} : arg'[d] = arg[d]
      /\ arg'[c].op = arg[c].op /\ arg'[c].force = arg[c].force /\ arg'[c].update = arg[c].update
  BY <1>1, <1>4 DEF TypeOK
<1>6. TypeOK'
  BY <1>1, <1>3, <1>5 DEF TypeOK, Moves, disk
<1>7. CarriedBy(c)'
  BY <1>1, <1>3, <1>5 DEF Carried, CarriedBy, Connected
<1>8. Carried'
  BY <1>1, <1>3, <1>5, <1>7, CarriedOn DEF Moves
<1>9. OnlyAddOnsRegistered'
  BY <1>1, <1>3, RowsRemoved
<1>10. QED  BY <1>6, <1>8, <1>9 DEF IInv

-----------------------------------------------------------------------------
\* The invariant holds of the directory before there is a registry.
LEMMA InitIInv == Init => IInv
<1> SUFFICES ASSUME Init PROVE IInv
  OBVIOUS
<1>1. Blank("none") \in Arg /\ Blank("none").op = "none" /\ ~Blank("none").force
  BY BlankType DEF OpName
<1>2. TypeOK
  BY <1>1 DEF Init, TypeOK, Stage, Outcome, MaybeVersion
<1>3. Carried
  BY <1>1 DEF Init, Carried, CarriedBy, Connected
<1>4. OnlyAddOnsRegistered
  BY DEF Init, OnlyAddOnsRegistered, Registered
<1>5. QED  BY <1>2, <1>3, <1>4 DEF IInv

\* Every step preserves it.
LEMMA NextIInv == IInv /\ [Next]_vars => IInv'
<1> SUFFICES ASSUME IInv, [Next]_vars PROVE IInv'
  OBVIOUS
<1>1. ASSUME NEW c \in Callers, Call(c) \/ Continue(c) \/ Crash(c)
      PROVE  IInv'
  BY <1>1, CallStep, PlainStep, ReadPackageJSONStep, WriteRowStep, ListStep DEF Continue, Plain
<1>2. CASE Next
  BY <1>1, <1>2 DEF Next
<1>3. CASE UNCHANGED vars
  BY <1>3 DEF vars, IInv, TypeOK, Carried, CarriedBy, Valid, OnlyAddOnsRegistered, Registered
<1>4. QED  BY <1>2, <1>3

\* The invariant holds of every reachable state.
LEMMA Invariance == Spec => []IInv
BY InitIInv, NextIInv, PTL DEF Spec

\* The state is typed: in particular there is no row before there is a table.
THEOREM TypeCorrect == Spec => []TypeOK
<1>1. IInv => TypeOK  BY DEF IInv
<1>2. QED  BY <1>1, Invariance, PTL

\* However many callers install, update, uninstall and reindex at once, and
\* wherever they are killed, the table lists valid add-ons only.
THEOREM AddOnsOnly == Spec => []OnlyAddOnsRegistered
<1>1. IInv => OnlyAddOnsRegistered  BY DEF IInv
<1>2. QED  BY <1>1, Invariance, PTL

\* And none of them but an uninstall, a forced install or a reindex takes a
\* package out of it.
THEOREM RemovalsOnly == Spec => OnlyRemovalsUnregister
<1> DEFINE Removes(c, p) == \/ at[c] = "idle" /\ at'[c] = "readDeps"
                            \/ /\ at[c] \in {"replace", "deleteRow"}
                               /\ arg[c].pkg = p
                               /\ arg[c].op \in {"install", "uninstall"}
           Kept == \A p \in Packages : p \in Registered /\ row'[p] = None =>
                     \E c \in Callers : Removes(c, p)
<1>1. IInv /\ [Next]_vars => [Kept]_vars
  <2> SUFFICES ASSUME IInv, Next, NEW p \in Packages, p \in Registered, row'[p] = None
               PROVE  \E c \in Callers : Removes(c, p)
    BY DEF Registered
  <2>1. TypeOK /\ Carried /\ db = "ready" /\ row[p] # None
    BY DEF IInv, TypeOK, Registered
  <2>2. PICK c \in Callers : Call(c) \/ Continue(c) \/ Crash(c)
    BY DEF Next
  <2>3. row' # row  BY <2>1
  <2>4. CarriedBy(c) /\ arg[c] \in Arg  BY <2>1 DEF Carried, TypeOK
  <2>5. CASE Call(c)
    <3>1. Reindex(c)
      BY <2>3, <2>5 DEF Call, CreateNewRegistry, Install, Update, Uninstall, LoadAllOfType
    <3>2. at[c] = "idle" /\ Goto(c, "readDeps")  BY <2>1, <3>1 DEF Reindex, Begin
    <3>3. at'[c] = "readDeps"  BY <2>1, <3>2 DEF Goto, TypeOK
    <3>4. QED  BY <3>2, <3>3
  <2>6. CASE DeleteRow(c) \/ ReplaceRow(c)
    <3>1. at[c] \in {"deleteRow", "replace"} /\ row' = [row EXCEPT ![arg[c].pkg] = None]
      BY <2>6 DEF DeleteRow, ReplaceRow
    <3>2. arg[c].pkg = p  BY <2>1, <3>1 DEF TypeOK
    <3>3. arg[c].op \in {"install", "uninstall"}
      BY <2>4, <3>1 DEF CarriedBy
    <3>4. QED  BY <3>1, <3>2, <3>3
  <2>7. CASE WriteRow(c)
    <3>1. at[c] = "write" /\ Valid(arg[c].pkg, arg[c].document)
      BY <2>4, <2>7 DEF WriteRow, CarriedBy
    <3>2. arg[c].document # None  BY <3>1, VersionsAssumption DEF Valid, None
    <3>3. row' = [row EXCEPT ![arg[c].pkg] = arg[c].document] \/ row'[p] = row[p]
      BY <2>1, <2>7 DEF WriteRow, TypeOK, Registered
    <3>4. row'[p] # None  BY <2>1, <3>2, <3>3 DEF TypeOK
    <3>5. QED  BY <3>4
  <2>8. CASE Crash(c)
    BY <2>3, <2>8 DEF Crash
  <2>9. CASE Continue(c) /\ ~(DeleteRow(c) \/ ReplaceRow(c) \/ WriteRow(c))
    BY <2>3, <2>9 DEF Continue, CheckDB, OpenDB, CreateTable, RunNpm, SaveDependencies, NpmFails,
       QueryRegistry, ReadPackageJSON, ReadBack, LoadScripts, RunInstalls, ScriptFails,
       ReadDependencies, NextDependency, Import
  <2>10. QED  BY <2>2, <2>5, <2>6, <2>7, <2>8, <2>9
<1>2. QED  BY <1>1, Invariance, PTL DEF Spec, OnlyRemovalsUnregister

-----------------------------------------------------------------------------
(***************************************************************************)
(* What AddOnsRegistry reports to a caller who is alone is true, for any   *)
(* number of packages, versions and calls, wherever npm and scripts fail   *)
(* and the process is killed.  Each stage of an install, or of a reindex,  *)
(* adds one fact to what holds when the call is over.                      *)
(***************************************************************************)

OneCaller == \A c, d \in Callers : c = d

\* A step of a caller.
StepOf(c) == Call(c) \/ Continue(c) \/ Crash(c)

\* Where a call leaves its caller, and with what outcome.
LEMMA GotoThere ==
  ASSUME TypeOK, NEW c \in Callers, NEW s, Goto(c, s)
  PROVE  at'[c] = s
BY DEF TypeOK, Goto

LEMMA EndThere ==
  ASSUME TypeOK, NEW c \in Callers, NEW result, End(c, result)
  PROVE  at'[c] = "idle" /\ outcome'[c] = result
BY DEF TypeOK, End

-----------------------------------------------------------------------------
(* The stages of each operation.                                           *)

StagesOf(op) ==
  CASE op = "create"    -> {"checkDB", "openDB", "createTable"}
    [] op = "install"   -> {"npm", "npmSave", "query", "replace", "readPackageJSON", "write",
                            "reread", "load", "runInstalls"}
    [] op = "uninstall" -> {"npm", "npmSave", "deleteRow"}
    [] op = "update"    -> {"npm", "npmSave", "query", "readPackageJSON", "write"}
    [] op = "reindex"   -> {"readDeps", "nextDep", "query", "readPackageJSON", "write"}
    [] op = "loadAll"   -> {"import"}
    [] OTHER            -> {}

Placed(c) == /\ at[c] \in StagesOf(arg[c].op) \cup {"idle"}
             /\ arg[c].op \in {"install", "reindex"} => ~arg[c].update

\* What a call is given when it begins.
LEMMA Given ==
  ASSUME TypeOK, NEW c \in Callers
  PROVE  /\ \A p \in Packages, v \in Versions, o \in Options : Install(c, p, v, o) =>
              /\ arg'[c].op = "install" /\ ~arg'[c].update
              /\ at'[c] = "npm" \/ (at'[c] = "idle" /\ outcome'[c] = "failed")
         /\ Reindex(c) =>
              /\ arg'[c].op = "reindex" /\ ~arg'[c].update
              /\ at'[c] = "readDeps" \/ (at'[c] = "idle" /\ outcome'[c] = "failed")
              /\ Registered' = {}
         /\ CreateNewRegistry(c) => arg'[c].op = "create" /\ at'[c] = "checkDB"
         /\ \A p \in Packages, v \in Versions : Update(c, p, v) =>
              arg'[c].op = "update" /\ at'[c] \in {"npm", "idle"}
         /\ \A p \in Packages : Uninstall(c, p) =>
              arg'[c].op = "uninstall" /\ at'[c] \in {"npm", "idle"}
         /\ LoadAllOfType(c) => arg'[c].op = "loadAll" /\ at'[c] \in {"import", "idle"}
<1>1. arg \in [Callers -> Arg]  BY DEF TypeOK
<1>2. \A op \in OpName : Blank(op) \in Arg /\ Blank(op).op = op /\ ~Blank(op).update
  BY BlankType
<1>3. GotoNpm(c) => at'[c] = "npm" \/ (at'[c] = "idle" /\ outcome'[c] = "failed")
  BY GotoThere, EndThere DEF GotoNpm
<1>4. ASSUME NEW p \in Packages, NEW v \in Versions, NEW o \in Options, Install(c, p, v, o)
      PROVE  /\ arg'[c].op = "install" /\ ~arg'[c].update
             /\ at'[c] = "npm" \/ (at'[c] = "idle" /\ outcome'[c] = "failed")
  <2>1. Blank("install") \in Arg /\ Blank("install").op = "install" /\ ~Blank("install").update
    BY <1>2 DEF OpName
  <2>2. arg'[c] = [Blank("install") EXCEPT !.pkg = p, !.version = v, !.force = o.force, !.link = o.link]
    BY <1>1, <1>4 DEF Install
  <2>3. arg'[c].op = "install" /\ ~arg'[c].update  BY <2>1, <2>2 DEF Arg
  <2>4. GotoNpm(c)  BY <1>4 DEF Install
  <2>5. QED  BY <1>3, <2>3, <2>4
<1>5. ASSUME Reindex(c)
      PROVE  /\ arg'[c].op = "reindex" /\ ~arg'[c].update
             /\ at'[c] = "readDeps" \/ (at'[c] = "idle" /\ outcome'[c] = "failed")
             /\ Registered' = {}
  <2>1. arg'[c].op = "reindex" /\ ~arg'[c].update
    BY <1>1, <1>2, <1>5 DEF Reindex, OpName
  <2>2. Registered' = {}  BY <1>5 DEF Reindex, Registered
  <2>3. QED  BY <1>5, <2>1, <2>2, GotoThere, EndThere DEF Reindex
<1>6. CreateNewRegistry(c) => arg'[c].op = "create" /\ at'[c] = "checkDB"
  BY <1>1, <1>2, GotoThere DEF CreateNewRegistry, OpName
<1>7. ASSUME NEW p \in Packages, NEW v \in Versions, Update(c, p, v)
      PROVE  arg'[c].op = "update" /\ at'[c] \in {"npm", "idle"}
  <2>1. Blank("update") \in Arg /\ Blank("update").op = "update"
    BY <1>2 DEF OpName
  <2>2. arg'[c] = [Blank("update") EXCEPT !.pkg = p, !.version = v, !.force = TRUE, !.update = TRUE]
    BY <1>1, <1>7 DEF Update
  <2>3. arg'[c].op = "update"  BY <2>1, <2>2 DEF Arg
  <2>4. GotoNpm(c)  BY <1>7 DEF Update
  <2>5. QED  BY <1>3, <2>3, <2>4
<1>8. ASSUME NEW p \in Packages, Uninstall(c, p)
      PROVE  arg'[c].op = "uninstall" /\ at'[c] \in {"npm", "idle"}
  <2>1. Blank("uninstall") \in Arg /\ Blank("uninstall").op = "uninstall"
    BY <1>2 DEF OpName
  <2>2. arg'[c] = [Blank("uninstall") EXCEPT !.pkg = p]
    BY <1>1, <1>8 DEF Uninstall
  <2>3. arg'[c].op = "uninstall"  BY <2>1, <2>2 DEF Arg
  <2>4. QED  BY <1>8, <2>3, GotoThere, EndThere DEF Uninstall
<1>9. ASSUME LoadAllOfType(c)
      PROVE  arg'[c].op = "loadAll" /\ at'[c] \in {"import", "idle"}
  <2>1. Blank("loadAll") \in Arg /\ Blank("loadAll").op = "loadAll"
    BY <1>2 DEF OpName
  <2>2. arg'[c] = [Blank("loadAll") EXCEPT !.todo = Registered]
    BY <1>1, <1>9 DEF LoadAllOfType
  <2>3. arg'[c].op = "loadAll"  BY <2>1, <2>2 DEF Arg
  <2>4. QED  BY <1>9, <2>3, GotoThere, EndThere DEF LoadAllOfType
<1>10. QED
  BY <1>4, <1>5, <1>6, <1>7, <1>8, <1>9

\* What the steps of a call change in its arguments.
LEMMA Rewritten ==
  ASSUME TypeOK, NEW c \in Callers, Continue(c)
  PROVE  LET a == arg'[c]  b == arg[c] IN
         /\ a.op = b.op /\ a.update = b.update /\ a.version = b.version /\ a.link = b.link
         /\ ~NextDependency(c) => a.pkg = b.pkg
         /\ ~ReadPackageJSON(c) => a.document = b.document
         /\ ~(ReadDependencies(c) \/ NextDependency(c) \/ Import(c)) => a.todo = b.todo
<1>1. arg \in [Callers -> Arg] /\ arg[c] \in Arg  BY DEF TypeOK
<1>2. CASE arg' = arg  BY <1>2
<1>3. CASE ReadPackageJSON(c) /\ arg' # arg
  <2>1. arg'[c] = [arg[c] EXCEPT !.document = module[arg[c].pkg]]
    BY <1>1, <1>3 DEF ReadPackageJSON
  <2>2. QED  BY <1>1, <1>3, <2>1 DEF Arg
<1>4. CASE (ReadDependencies(c) \/ Import(c)) /\ arg' # arg
  <2>1. \E t : arg'[c] = [arg[c] EXCEPT !.todo = t]
    BY <1>1, <1>4 DEF ReadDependencies, Import
  <2>2. QED  BY <1>1, <1>4, <2>1 DEF Arg
<1>5. CASE NextDependency(c) /\ arg' # arg
  <2>1. \E p, t : arg'[c] = [arg[c] EXCEPT !.pkg = p, !.todo = t]
    <3>1. PICK p \in arg[c].todo : arg' = [arg EXCEPT ![c].pkg = p, ![c].todo = @ \ {p}]
      BY <1>5 DEF NextDependency
    <3>2. arg'[c] = [arg[c] EXCEPT !.pkg = p, !.todo = arg[c].todo \ {p}]
      BY <1>1, <3>1 DEF Arg
    <3>3. QED  BY <3>2
  <2>2. QED  BY <1>1, <1>5, <2>1 DEF Arg
<1>6. ReadPackageJSON(c) \/ ReadDependencies(c) \/ Import(c) \/ NextDependency(c) \/ arg' = arg
  BY DEF Continue, CheckDB, OpenDB, CreateTable, RunNpm, SaveDependencies, NpmFails, DeleteRow,
     QueryRegistry, ReplaceRow, WriteRow, ReadBack, LoadScripts, RunInstalls, ScriptFails
<1>7. QED  BY <1>2, <1>3, <1>4, <1>5, <1>6

\* A call stays within the stages of its operation.
LEMMA PlacedStep ==
  ASSUME IInv, NEW c \in Callers, Placed(c), StepOf(c)
  PROVE  Placed(c)'
<1>1. TypeOK /\ CarriedBy(c)  BY DEF IInv, Carried
<1>2. CASE Call(c)
  BY <1>1, <1>2, Given DEF Call, Placed, StagesOf
<1>3. CASE Crash(c)
  BY <1>1, <1>3, EndThere DEF Crash, Placed
<1>4. CASE Continue(c)
  <2>1. arg'[c].op = arg[c].op /\ arg'[c].update = arg[c].update
    BY <1>1, <1>4, Rewritten
  <2>2. at'[c] \in StagesOf(arg[c].op) \cup {"idle"}
    <3>1. ASSUME NEW why, NotAdded(c, why), at[c] \in {"query", "readPackageJSON"}
          PROVE  at'[c] \in StagesOf(arg[c].op) \cup {"idle"}
      BY <1>1, <3>1, GotoThere, EndThere DEF NotAdded, StagesOf
    <3>2. CASE CheckDB(c) \/ OpenDB(c) \/ CreateTable(c)
      BY <1>1, <3>2, GotoThere, EndThere DEF CheckDB, OpenDB, CreateTable, Placed, StagesOf
    <3>3. CASE RunNpm(c) \/ NpmFails(c) \/ DeleteRow(c)
      BY <1>1, <3>3, GotoThere, EndThere DEF RunNpm, NpmFails, DeleteRow, Placed, StagesOf
    <3>4. CASE SaveDependencies(c)
      <4>1. at'[c] = IF arg[c].op = "uninstall" THEN "deleteRow" ELSE "query"
        BY <1>1, <3>4, GotoThere DEF SaveDependencies
      <4>2. QED  BY <3>4, <4>1 DEF SaveDependencies, Placed, StagesOf
    <3>5. CASE QueryRegistry(c)
      <4>1. at'[c] \in {"idle", "readPackageJSON"} \/ (at'[c] = "replace" /\ arg[c].force /\ ~arg[c].update)
            \/ at'[c] \in StagesOf(arg[c].op)
        BY <1>1, <3>1, <3>5, GotoThere, EndThere DEF QueryRegistry
      <4>2. QED  BY <1>1, <3>5, <4>1 DEF QueryRegistry, Placed, StagesOf, CarriedBy
    <3>6. CASE ReplaceRow(c)
      BY <1>1, <3>6, GotoThere DEF ReplaceRow, Placed, StagesOf
    <3>7. CASE ReadPackageJSON(c)
      <4>1. at'[c] \in {"idle", "write"} \/ at'[c] \in StagesOf(arg[c].op)
        BY <1>1, <3>1, <3>7, GotoThere, EndThere DEF ReadPackageJSON
      <4>2. QED  BY <3>7, <4>1 DEF ReadPackageJSON, Placed, StagesOf
    <3>8. CASE WriteRow(c)
      <4>1. ASSUME Added(c) PROVE at'[c] \in StagesOf(arg[c].op) \cup {"idle"}
        BY <1>1, <3>8, <4>1, GotoThere, EndThere DEF Added, WriteRow, Placed, StagesOf
      <4>2. QED  BY <1>1, <3>8, <4>1, EndThere DEF WriteRow
    <3>9. CASE ReadBack(c) \/ LoadScripts(c) \/ RunInstalls(c) \/ ScriptFails(c)
      <4>1. at'[c] \in {"idle", "load", "runInstalls"} /\ at[c] \in {"reread", "load", "runInstalls"}
        BY <1>1, <3>9, GotoThere, EndThere DEF ReadBack, LoadScripts, RunInstalls, ScriptFails
      <4>2. QED  BY <4>1 DEF Placed, StagesOf
    <3>10. CASE ReadDependencies(c) \/ NextDependency(c)
      BY <1>1, <3>10, GotoThere, EndThere DEF ReadDependencies, NextDependency, Placed, StagesOf
    <3>11. CASE Import(c)
      BY <1>1, <3>11, EndThere DEF Import, Placed
    <3>12. QED
      BY <1>4, <3>2, <3>3, <3>4, <3>5, <3>6, <3>7, <3>8, <3>9, <3>10, <3>11 DEF Continue
  <2>3. QED  BY <2>1, <2>2 DEF Placed
<1>5. QED  BY <1>2, <1>3, <1>4 DEF StepOf

-----------------------------------------------------------------------------
(* Installs.                                                               *)

\* Stages of an install after npm, and after the row is written.
Fetched == {"npmSave", "query", "replace", "readPackageJSON", "write", "reread", "load",
            "runInstalls"}
Recorded == {"reread", "load", "runInstalls"}

Reported(c) == at[c] = "idle" /\ outcome[c] = "added"

Installing(c) ==
  arg[c].op = "install" =>
    /\ at[c] \in Fetched \/ Reported(c) => module[arg[c].pkg] = arg[c].version
    /\ at[c] \in Fetched \ {"npmSave"} \/ Reported(c) => arg[c].link \/ arg[c].pkg \in deps
    /\ at[c] = "write" => arg[c].document = arg[c].version
    /\ at[c] \in Recorded \/ Reported(c) => row[arg[c].pkg] = arg[c].version
    /\ at[c] \in {"load", "runInstalls"} \/ Reported(c) => Readable(arg[c].pkg)

\* Each stage adds its fact, and none takes one away.
LEMMA InstallingStep ==
  ASSUME IInv, NEW c \in Callers, Placed(c), Installing(c), StepOf(c)
  PROVE  Installing(c)'
<1>1. TypeOK /\ CarriedBy(c)  BY DEF IInv, Carried
<1>2. CASE Call(c)
  BY <1>1, <1>2, Given DEF Call, Installing, Fetched, Recorded, Reported
<1>3. CASE Crash(c)
  BY <1>1, <1>3, EndThere DEF Crash, Installing, Fetched, Recorded, Reported
<1>4. CASE Continue(c)
  <2> SUFFICES ASSUME arg[c].op = "install" PROVE Installing(c)'
    BY <1>1, <1>4, Rewritten DEF Installing
  <2> DEFINE p == arg[c].pkg
             Elsewhere == at'[c] = "idle" /\ outcome'[c] # "added"
  <2>1. /\ arg'[c].op = "install" /\ arg'[c].version = arg[c].version /\ arg'[c].link = arg[c].link
        /\ ~NextDependency(c) => arg'[c].pkg = p
        /\ ~ReadPackageJSON(c) => arg'[c].document = arg[c].document
    BY <1>1, <1>4, Rewritten
  <2>2. p \in Packages /\ ~arg[c].update /\ at[c] \in StagesOf("install") \cup {"idle"}
    BY <1>1 DEF TypeOK, Arg, Placed
  <2>3. ASSUME Elsewhere PROVE Installing(c)'
    BY <2>3 DEF Installing, Fetched, Recorded, Reported
  <2>4. /\ NotAdded(c, "invalid") => Elsewhere
        /\ NotAdded(c, "already in registry") => Elsewhere
        /\ End(c, "failed") => Elsewhere
        /\ End(c, "vanished") => Elsewhere
        /\ End(c, "invalid") => Elsewhere
    <3>1. ASSUME NEW result, result # "added", End(c, result) PROVE Elsewhere
      BY <1>1, <3>1, EndThere
    <3>2. \A why : NotAdded(c, why) => End(c, why)
      BY DEF NotAdded
    <3> HIDE DEF Elsewhere
    <3>3. QED  BY <3>1, <3>2
  <2>5. CASE RunNpm(c)
    BY <1>1, <2>1, <2>2, <2>5, GotoThere DEF RunNpm, NextDependency, Installing, Fetched, Recorded,
       Reported, TypeOK
  <2>6. CASE SaveDependencies(c)
    <3>1. /\ at[c] = "npmSave" /\ at'[c] = "query" /\ UNCHANGED <<module, row, arg>>
          /\ arg[c].link \/ p \in deps'
      BY <1>1, <2>6, GotoThere DEF SaveDependencies
    <3>2. QED  BY <3>1 DEF Installing, Fetched, Recorded, Reported
  <2> HIDE DEF Elsewhere
  <2>7. CASE QueryRegistry(c)
    <3>1. /\ at[c] = "query" /\ UNCHANGED <<deps, module, row, arg>>
          /\ Elsewhere \/ at'[c] \in {"replace", "readPackageJSON"}
      BY <1>1, <2>4, <2>7, GotoThere DEF QueryRegistry, disk
    <3>2. QED  BY <2>3, <3>1 DEF Installing, Fetched, Recorded, Reported
  <2>8. CASE ReplaceRow(c)
    BY <1>1, <2>8, GotoThere DEF ReplaceRow, Installing, Fetched, Recorded, Reported, disk
  <2>9. CASE ReadPackageJSON(c)
    <3>1. /\ at[c] = "readPackageJSON" /\ UNCHANGED <<deps, module, row>>
          /\ \/ Elsewhere
             \/ at'[c] = "write" /\ arg' = [arg EXCEPT ![c].document = module[p]]
      BY <1>1, <2>4, <2>9, GotoThere DEF ReadPackageJSON, disk
    <3>2. at'[c] = "write" => arg'[c].document = module[p]
      BY <1>1, <3>1 DEF TypeOK, Arg, Elsewhere
    <3>3. arg'[c].pkg = p
      BY <2>1, <3>1 DEF NextDependency
    <3>4. QED  BY <2>1, <2>3, <3>1, <3>2, <3>3 DEF Installing, Fetched, Recorded, Reported
  <2>10. CASE WriteRow(c)
    <3>1. Added(c) => at'[c] = "reread"
      BY <1>1, GotoThere DEF Added
    <3>2. /\ at[c] = "write" /\ UNCHANGED <<deps, module, arg>>
          /\ Elsewhere \/ (at'[c] = "reread" /\ row'[p] = arg[c].document)
      BY <1>1, <2>2, <2>4, <2>10, <3>1 DEF WriteRow, disk, TypeOK
    <3>3. QED  BY <2>3, <3>2 DEF Installing, Fetched, Recorded, Reported
  <2>11. CASE ReadBack(c)
    <3>1. /\ at[c] = "reread" /\ UNCHANGED <<deps, module, row, arg>>
          /\ Elsewhere \/ (at'[c] = "load" /\ Readable(p))
      BY <1>1, <2>4, <2>11, GotoThere DEF ReadBack, disk
    <3>2. QED  BY <2>3, <3>1 DEF Installing, Fetched, Recorded, Reported, Readable
  <2>12. CASE LoadScripts(c) \/ RunInstalls(c) \/ ScriptFails(c)
    <3>1. /\ at[c] \in {"load", "runInstalls"} /\ UNCHANGED <<deps, module, row, arg>>
          /\ at'[c] = "runInstalls" \/ at'[c] = "idle"
      BY <1>1, <2>12, GotoThere, EndThere DEF LoadScripts, RunInstalls, ScriptFails, disk
    <3>2. QED  BY <3>1 DEF Installing, Fetched, Recorded, Reported, Readable
  <2>13. CASE NpmFails(c)
    BY <2>3, <2>4, <2>13 DEF NpmFails
  <2>14. at[c] \notin {"checkDB", "openDB", "createTable", "deleteRow", "readDeps", "nextDep", "import"}
    BY <2>2 DEF StagesOf
  <2>15. QED
    BY <1>4, <2>5, <2>6, <2>7, <2>8, <2>9, <2>10, <2>11, <2>12, <2>13, <2>14
       DEF Continue, CheckDB, OpenDB, CreateTable, DeleteRow, ReadDependencies, NextDependency, Import
<1>5. QED  BY <1>2, <1>3, <1>4 DEF StepOf

\* The invariants hold at first of every caller.
LEMMA InitPlaced ==
  ASSUME Init, NEW c \in Callers
  PROVE  Placed(c) /\ arg[c].op = "none"
<1>1. arg[c] = Blank("none") /\ at[c] = "idle"  BY DEF Init
<1>2. Blank("none").op = "none"  BY BlankType DEF OpName
<1>3. QED  BY <1>1, <1>2 DEF Placed

LEMMA PlacedInvariance ==
  ASSUME OneCaller
  PROVE  Spec => []\A c \in Callers : Placed(c)
<1>1. Init => \A c \in Callers : Placed(c)  BY InitPlaced
<1>2. IInv /\ (\A c \in Callers : Placed(c)) /\ [Next]_vars => (\A c \in Callers : Placed(c))'
  <2> SUFFICES ASSUME IInv, [Next]_vars, NEW c \in Callers, Placed(c)
               PROVE  Placed(c)'
    OBVIOUS
  <2>1. CASE UNCHANGED vars  BY <2>1 DEF vars, Placed
  <2>2. CASE Next
    <3>1. StepOf(c)  BY <2>2 DEF Next, StepOf, OneCaller
    <3>2. QED  BY <3>1, PlacedStep
  <2>3. QED  BY <2>1, <2>2
<1>3. QED  BY <1>1, <1>2, Invariance, PTL DEF Spec

\* An install that reports status true to a caller who is alone has left its version in
\* node_modules, in the table and in package.json, whatever came before.
THEOREM InstallsReported ==
  ASSUME OneCaller
  PROVE  Spec => []ReportedInstall
<1> DEFINE P == \A c \in Callers : Placed(c)
           I == \A c \in Callers : Installing(c)
<1>1. Init => I  BY InitPlaced DEF Installing
<1>2. IInv /\ P /\ I /\ [Next]_vars => I'
  <2> SUFFICES ASSUME IInv, [Next]_vars, NEW c \in Callers, Placed(c), Installing(c)
               PROVE  Installing(c)'
    OBVIOUS
  <2>1. CASE UNCHANGED vars  BY <2>1 DEF vars, Installing, Reported, Readable
  <2>2. CASE Next
    <3>1. StepOf(c)  BY <2>2 DEF Next, StepOf, OneCaller
    <3>2. QED  BY <3>1, InstallingStep
  <2>3. QED  BY <2>1, <2>2
<1>3. I => ReportedInstall
  BY DEF Installing, ReportedInstall, Ended, Reported
<1>4. QED  BY <1>1, <1>2, <1>3, Invariance, PlacedInvariance, PTL DEF Spec

-----------------------------------------------------------------------------
(* Reindexes.                                                              *)

\* The table lists the valid packages of S, at the version that is installed.
Lists(S) == /\ Registered = {p \in S : Valid(p, module[p])}
            /\ \A p \in Registered : row[p] = module[p]

Rebuilding(c) ==
  LET a == arg[c] IN
  a.op = "reindex" =>
    /\ at[c] = "readDeps" => Registered = {}
    /\ at[c] = "nextDep" => a.todo \subseteq deps /\ Lists(deps \ a.todo)
    /\ at[c] \in {"query", "readPackageJSON", "write"} =>
         /\ a.todo \subseteq deps /\ a.pkg \in deps \ a.todo
         /\ Lists(deps \ (a.todo \cup {a.pkg}))
    /\ at[c] = "write" => a.document = module[a.pkg]
    /\ at[c] = "idle" /\ outcome[c] = "done" => Lists(deps)

\* Each dependency of the list is dealt with, and what was listed stays so.
LEMMA RebuildingStep ==
  ASSUME IInv, NEW c \in Callers, Placed(c), Rebuilding(c), StepOf(c)
  PROVE  Rebuilding(c)'
<1>1. TypeOK /\ CarriedBy(c)  BY DEF IInv, Carried
<1>2. CASE Call(c)
  BY <1>1, <1>2, Given DEF Call, Rebuilding
<1>3. CASE Crash(c)
  BY <1>1, <1>3, EndThere DEF Crash, Rebuilding
<1>4. CASE Continue(c)
  <2> SUFFICES ASSUME arg[c].op = "reindex" PROVE Rebuilding(c)'
    BY <1>1, <1>4, Rewritten DEF Rebuilding
  <2> DEFINE p == arg[c].pkg
             t == arg[c].todo
             Failed == at'[c] = "idle" /\ outcome'[c] # "done"
  <2>1. /\ arg'[c].op = "reindex"
        /\ ~NextDependency(c) => arg'[c].pkg = p
        /\ ~ReadPackageJSON(c) => arg'[c].document = arg[c].document
        /\ ~(ReadDependencies(c) \/ NextDependency(c) \/ Import(c)) => arg'[c].todo = t
    BY <1>1, <1>4, Rewritten
  <2>2. /\ p \in Packages /\ t \subseteq Packages /\ deps \subseteq Packages
        /\ ~arg[c].update /\ ~arg[c].force /\ at[c] \in StagesOf("reindex") \cup {"idle"}
    BY <1>1 DEF TypeOK, Arg, Placed, CarriedBy
  <2>3. Failed => Rebuilding(c)'
    BY DEF Rebuilding
  <2>4. End(c, "failed") => Failed
    BY <1>1, EndThere
  <2>5. \A why : NotAdded(c, why) => at'[c] = "nextDep"
    BY <1>1, GotoThere DEF NotAdded
  <2> HIDE DEF Failed
  <2>6. CASE ReadDependencies(c)
    <3>1. /\ at[c] = "readDeps" /\ at'[c] = "nextDep" /\ UNCHANGED <<deps, module, row>>
          /\ arg'[c].todo = deps
      BY <1>1, <2>6, GotoThere DEF ReadDependencies, disk, TypeOK, Arg
    <3>2. Registered = {} /\ Registered' = {}
      BY <3>1 DEF Rebuilding, Registered
    <3>3. Lists(deps \ arg[c].todo)'
      BY <3>1, <3>2 DEF Lists
    <3>4. QED  BY <3>1, <3>3 DEF Rebuilding
  <2>7. CASE NextDependency(c)
    <3>1. /\ at[c] = "nextDep" /\ UNCHANGED <<deps, module, row>>
          /\ t \subseteq deps /\ Lists(deps \ t)
      BY <2>7 DEF NextDependency, Rebuilding, disk
    <3>2. \A S : Lists(S) => Lists(S)'
      BY <3>1 DEF Lists, Registered, Valid
    <3>3. CASE t = {} /\ End(c, "done")
      <4>1. Lists(deps)'
        <5>1. deps \ t = deps  BY <3>3
        <5>2. QED  BY <3>1, <3>2, <5>1
      <4>2. QED  BY <1>1, <3>3, <4>1, EndThere DEF Rebuilding
    <3>4. ASSUME NEW q \in t, arg' = [arg EXCEPT ![c].pkg = q, ![c].todo = @ \ {q}], Goto(c, "query")
          PROVE  Rebuilding(c)'
      <4>1. at'[c] = "query" /\ arg'[c].pkg = q /\ arg'[c].todo = t \ {q}
        BY <1>1, <3>4, GotoThere DEF TypeOK, Arg
      <4>2. deps' \ (arg'[c].todo \cup {arg'[c].pkg}) = deps \ t
        BY <3>1, <4>1
      <4>3. Lists(deps \ (arg[c].todo \cup {arg[c].pkg}))'
        BY <3>1, <4>2 DEF Lists, Registered, Valid
      <4>4. QED  BY <3>1, <4>1, <4>3 DEF Rebuilding
    <3>5. QED  BY <2>7, <3>3, <3>4 DEF NextDependency
  <2>8. CASE QueryRegistry(c)
    <3>1. /\ at[c] = "query" /\ UNCHANGED <<deps, module, row, arg>>
          /\ p \notin Registered
      BY <2>8 DEF QueryRegistry, Rebuilding, Lists, disk
    <3>2. Failed \/ at'[c] = "readPackageJSON"
      BY <1>1, <2>2, <2>4, <2>8, <3>1, GotoThere DEF QueryRegistry, Readable, Registered
    <3>3. QED  BY <2>3, <3>1, <3>2 DEF Rebuilding, Lists, Registered, Valid
  <2>9. CASE ReadPackageJSON(c)
    <3>1. /\ at[c] = "readPackageJSON" /\ UNCHANGED <<deps, module, row>>
          /\ p \in deps \ t /\ Lists(deps \ (t \cup {p}))
          /\ arg'[c].pkg = p /\ arg'[c].todo = t
      BY <2>1, <2>9 DEF ReadPackageJSON, NextDependency, ReadDependencies, Import, Rebuilding, disk
    <3>2. \/ Failed
          \/ at'[c] = "nextDep" /\ ~Valid(p, module[p])
          \/ at'[c] = "write" /\ arg' = [arg EXCEPT ![c].document = module[p]]
      BY <1>1, <2>4, <2>5, <2>9, GotoThere DEF ReadPackageJSON
    <3>3. \A S : Lists(S) => Lists(S)'
      BY <3>1 DEF Lists, Registered, Valid
    <3>4. CASE at'[c] = "nextDep" /\ ~Valid(p, module[p])
      <4>1. Lists(deps \ t)
        BY <3>1, <3>4 DEF Lists
      <4>2. QED  BY <3>1, <3>3, <3>4, <4>1 DEF Rebuilding
    <3>5. CASE at'[c] = "write" /\ arg' = [arg EXCEPT ![c].document = module[p]]
      <4>1. arg'[c].document = module[p]
        BY <1>1, <3>5 DEF TypeOK, Arg
      <4>2. QED  BY <3>1, <3>3, <3>5, <4>1 DEF Rebuilding
    <3>6. QED  BY <2>3, <3>2, <3>4, <3>5
  <2>10. CASE WriteRow(c)
    <3>1. /\ at[c] = "write" /\ UNCHANGED <<deps, module, arg>>
          /\ p \in deps \ t /\ Lists(deps \ (t \cup {p}))
          /\ p \notin Registered /\ Valid(p, module[p]) /\ arg[c].document = module[p]
      BY <1>1, <2>10 DEF WriteRow, Rebuilding, Lists, CarriedBy, disk
    <3>2. row' = [row EXCEPT ![p] = module[p]] /\ at'[c] = "nextDep"
      BY <1>1, <2>2, <2>10, <3>1, GotoThere DEF WriteRow, Added
    <3>3. module[p] # None
      BY <3>1, VersionsAssumption DEF Valid, None
    <3>4. Registered' = Registered \cup {p} /\ \A q \in Packages : row'[q] = IF q = p THEN module[p] ELSE row[q]
      BY <1>1, <2>2, <3>2, <3>3 DEF Registered, TypeOK
    <3>5. Lists(deps \ t)'
      <4>1. Registered' = {q \in deps \ t : Valid(q, module[q])}
        BY <3>1, <3>4 DEF Lists
      <4>2. \A q \in Registered' : row'[q] = module[q]
        BY <3>1, <3>4 DEF Lists, Registered
      <4>3. QED  BY <3>1, <4>1, <4>2 DEF Lists, Valid
    <3>6. QED  BY <3>1, <3>2, <3>5 DEF Rebuilding
  <2>11. at[c] \in {"readDeps", "nextDep", "query", "readPackageJSON", "write", "idle"}
    BY <2>2 DEF StagesOf
  <2>12. QED
    BY <1>4, <2>6, <2>7, <2>8, <2>9, <2>10, <2>11
       DEF Continue, CheckDB, OpenDB, CreateTable, RunNpm, SaveDependencies, NpmFails, DeleteRow,
           ReplaceRow, ReadBack, LoadScripts, RunInstalls, ScriptFails, Import
<1>5. QED  BY <1>2, <1>3, <1>4 DEF StepOf

\* A reindex that ends with success for a caller who is alone has rebuilt the table from
\* package.json and node_modules, whatever was left of earlier calls.
THEOREM ReindexesRebuild ==
  ASSUME OneCaller
  PROVE  Spec => []ReindexRebuilds
<1> DEFINE P == \A c \in Callers : Placed(c)
           I == \A c \in Callers : Rebuilding(c)
<1>1. Init => I  BY InitPlaced DEF Rebuilding
<1>2. IInv /\ P /\ I /\ [Next]_vars => I'
  <2> SUFFICES ASSUME IInv, [Next]_vars, NEW c \in Callers, Placed(c), Rebuilding(c)
               PROVE  Rebuilding(c)'
    OBVIOUS
  <2>1. CASE UNCHANGED vars  BY <2>1 DEF vars, Rebuilding, Lists, Registered, Valid
  <2>2. CASE Next
    <3>1. StepOf(c)  BY <2>2 DEF Next, StepOf, OneCaller
    <3>2. QED  BY <3>1, RebuildingStep
  <2>3. QED  BY <2>1, <2>2
<1>3. I => ReindexRebuilds
  BY DEF Rebuilding, Lists, ReindexRebuilds, Ended
<1>4. QED  BY <1>1, <1>2, <1>3, Invariance, PlacedInvariance, PTL DEF Spec
=============================================================================
