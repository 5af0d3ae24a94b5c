--------------------------- MODULE HotkeyRunsProofs ---------------------------
(***************************************************************************)
(* Theorems on HotkeyRuns, for any keyboards, configs and numbers of       *)
(* events and edits.                                                       *)
(***************************************************************************)
EXTENDS HotkeyRuns, TLAPS

\* There is a config, and an event that has not been read has no request.
Begun ==
  /\ Current >= 1
  /\ \A k \in Keyboards, i \in Events : i > read[k] => at[k][i] = "none"

Steady == TypeOK /\ Begun

\* A step that moves one request.
LEMMA GotoStage ==
  ASSUME TypeOK, NEW k \in Keyboards, NEW i \in Events, NEW s \in Stages, Goto(k, i, s)
  PROVE  /\ at' \in [Keyboards -> [Events -> Stages]] /\ at'[k][i] = s
         /\ \A j \in Keyboards, n \in Events : j # k \/ n # i => at'[j][n] = at[j][n]
  BY DEF TypeOK, Goto

\* A request that moves stays one of an event that has been read.
LEMMA BegunMoved ==
  ASSUME Steady, NEW k \in Keyboards, NEW i \in Events, NEW s \in Stages, Goto(k, i, s),
         at[k][i] # "none", UNCHANGED <<read, config>>
  PROVE  Begun' /\ at' \in [Keyboards -> [Events -> Stages]]
  BY GotoStage DEF Steady, Begun, Current

LEMMA SteadyInit == Init => Steady
  <1> SUFFICES ASSUME Init
               PROVE  Steady
    OBVIOUS
  <1>1. PICK e \in Entries : config = <<[k \in Keyboards |-> e]>>
    BY DEF Init
  <1>2. [k \in Keyboards |-> e] \in [Keyboards -> Entries \cup {NoEntry}]
    OBVIOUS
  <1>3. config \in Seq([Keyboards -> Entries \cup {NoEntry}]) /\ Current = 1
    BY <1>1, <1>2 DEF Current
  <1>4. QED
    BY <1>3, BoundsAssumption DEF Init, Steady, TypeOK, Begun, Stages

LEMMA SteadyStep == Steady /\ [Next]_vars => Steady'
  <1> SUFFICES ASSUME Steady, [Next]_vars
               PROVE  Steady'
    OBVIOUS
  <1>a. TypeOK /\ Begun /\ Current \in Nat /\ Current >= 1
    BY DEF Steady, TypeOK, Begun, Current
  <1>b. Current \in 0 .. Current
    BY <1>a
  <1> USE DEF Steady
  <1>1. ASSUME NEW k \in Keyboards, NEW e \in Entries \cup {NoEntry}, EditConfig(k, e)
        PROVE  Steady'
    <2>1. config[Current] \in [Keyboards -> Entries \cup {NoEntry}]
      BY <1>a DEF TypeOK, Current
    <2> DEFINE x == [config[Current] EXCEPT ![k] = e]
    <2>2. x \in [Keyboards -> Entries \cup {NoEntry}]
      BY <2>1
    <2>3. config' = Append(config, x)
      BY <1>1 DEF EditConfig
    <2>4. config' \in Seq([Keyboards -> Entries \cup {NoEntry}]) /\ Current' = Current + 1
      BY <1>a, <2>2, <2>3 DEF TypeOK, Current
    <2>5. UNCHANGED <<pi, at, got, posted, dll, ran>>
      BY <1>1 DEF EditConfig
    <2>6. \A v \in 0 .. Current : v \in 0 .. Current'
      BY <1>a, <2>4
    <2>7. got' \in [Keyboards -> [Events -> 0 .. Current']]
          /\ posted' \in [Keyboards -> [Events -> 0 .. Current']]
      BY <1>a, <2>5, <2>6 DEF TypeOK
    <2>8. QED
      BY <1>a, <2>4, <2>5, <2>7 DEF TypeOK, Begun, pi
  <1>2. ASSUME NEW k \in Keyboards, NEW connected \in BOOLEAN, ReadEvent(k, connected)
        PROVE  Steady'
    <2> DEFINE i == read[k] + 1
    <2>1. i \in Events /\ read' = [read EXCEPT ![k] = i] /\ UNCHANGED <<got, config, dll, ran>>
      BY <1>2 DEF ReadEvent
    <2>2. read' \in [Keyboards -> 0 .. MaxEvents]
      BY <1>a, <2>1, BoundsAssumption DEF TypeOK, Events
    <2>3. \A j \in Keyboards : read'[j] = IF j = k THEN i ELSE read[j]
      BY <1>a, <2>1 DEF TypeOK
    <2>4. CASE Posts(k, i) /\ connected
      <3>1. /\ watcher' = [watcher EXCEPT ![k] = "posting"] /\ Goto(k, i, "sent")
            /\ posted' = [posted EXCEPT ![k][i] = Current]
        BY <1>2, <2>4 DEF ReadEvent
      <3>2. at' \in [Keyboards -> [Events -> Stages]] /\ at'[k][i] = "sent"
            /\ \A j \in Keyboards, n \in Events : j # k \/ n # i => at'[j][n] = at[j][n]
        BY <1>a, <2>1, <3>1, GotoStage DEF Stages
      <3>3. posted' \in [Keyboards -> [Events -> 0 .. Current]]
        BY <1>a, <1>b, <3>1 DEF TypeOK
      <3>4. TypeOK'
        BY <1>a, <2>1, <2>2, <3>1, <3>2, <3>3 DEF TypeOK, Current
      <3>5. Begun'
        BY <1>a, <2>1, <2>3, <3>2 DEF TypeOK, Begun, Current, Events
      <3>6. QED
        BY <3>4, <3>5
    <2>5. CASE ~(Posts(k, i) /\ connected)
      <3>1. UNCHANGED <<watcher, at, posted>>
        BY <1>2, <2>5 DEF ReadEvent
      <3>2. TypeOK'
        BY <1>a, <2>1, <2>2, <3>1 DEF TypeOK, Current
      <3>3. Begun'
        BY <1>a, <2>1, <2>3, <3>1 DEF TypeOK, Begun, Current, Events
      <3>4. QED
        BY <3>2, <3>3
    <2>6. QED
      BY <2>4, <2>5
  <1>3. ASSUME NEW k \in Keyboards, Timeout(k)
        PROVE  Steady'
    BY <1>3, <1>a DEF Timeout, TypeOK, Begun, Current
  <1>4. ASSUME NEW k \in Keyboards, NEW i \in Events, Lose(k, i) \/ Access(k, i) \/ EndScript(k, i)
        PROVE  Steady'
    <2>1. PICK s \in {"over", "software"} : Goto(k, i, s)
      BY <1>4 DEF Lose, Access, EndScript
    <2>2. at[k][i] # "none" /\ UNCHANGED <<pi, got, posted, config, dll, ran>>
      BY <1>4 DEF Lose, Access, EndScript
    <2>3. s \in Stages
      BY DEF Stages
    <2>4. Begun' /\ at' \in [Keyboards -> [Events -> Stages]]
      BY <2>1, <2>2, <2>3, BegunMoved DEF pi
    <2>5. QED
      BY <1>a, <2>2, <2>4 DEF TypeOK, pi, Current
  <1>5. ASSUME NEW k \in Keyboards, NEW i \in Events, Fetch(k, i)
        PROVE  Steady'
    <2>1. /\ Goto(k, i, "fetched") /\ at[k][i] = "sent" /\ got' = [got EXCEPT ![k][i] = Current]
          /\ UNCHANGED <<pi, posted, config, dll, ran>>
      BY <1>5 DEF Fetch
    <2>2. Begun' /\ at' \in [Keyboards -> [Events -> Stages]]
      BY <2>1, BegunMoved DEF pi, Stages
    <2>3. got' \in [Keyboards -> [Events -> 0 .. Current]]
      BY <1>a, <1>b, <2>1 DEF TypeOK
    <2>4. QED
      BY <1>a, <2>1, <2>2, <2>3 DEF TypeOK, pi, Current
  <1>6. ASSUME NEW k \in Keyboards, NEW i \in Events, NEW delivered \in BOOLEAN,
               Respond(k, i, delivered)
        PROVE  Steady'
    <2>1. PICK s \in {"access", "over"} : Goto(k, i, s)
      BY <1>6 DEF Respond
    <2>2. /\ at[k][i] = "fetched" /\ UNCHANGED <<read, got, posted, config, dll, ran>>
          /\ watcher' \in {watcher, [watcher EXCEPT ![k] = "reading"]}
      BY <1>6 DEF Respond, Answer
    <2>3. s \in Stages
      BY DEF Stages
    <2>4. Begun' /\ at' \in [Keyboards -> [Events -> Stages]]
      BY <2>1, <2>2, <2>3, BegunMoved
    <2>5. QED
      BY <1>a, <2>2, <2>4 DEF TypeOK, Current
  <1>7. ASSUME NEW k \in Keyboards, NEW i \in Events, RunText(k, i)
        PROVE  Steady'
    <2>1. PICK s \in {"script", "over"} : Goto(k, i, s)
      BY <1>7 DEF RunText
    <2>2. /\ at[k][i] = "software" /\ UNCHANGED <<pi, got, posted, config, dll>>
          /\ ran' \in {ran, [ran EXCEPT ![k] = Append(@, i)]}
      BY <1>7 DEF RunText
    <2>3. s \in Stages
      BY DEF Stages
    <2>4. Begun' /\ at' \in [Keyboards -> [Events -> Stages]]
      BY <2>1, <2>2, <2>3, BegunMoved DEF pi
    <2>5. ran[k] \in Seq(Events)
      BY <1>a DEF TypeOK
    <2>6. Append(ran[k], i) \in Seq(Events)
      BY <2>5
    <2>7. ran' \in [Keyboards -> Seq(Events)]
      BY <1>a, <2>2, <2>6 DEF TypeOK
    <2>8. QED
      BY <1>a, <2>2, <2>4, <2>7 DEF TypeOK, pi, Current
  <1>8. CASE UNCHANGED vars
    BY <1>8, <1>a DEF vars, TypeOK, Begun, Current
  <1>9. QED
    BY <1>1, <1>2, <1>3, <1>4, <1>5, <1>6, <1>7, <1>8 DEF Next, User, Serve

\* Every variable keeps its type, for any keyboards and events.
THEOREM TypeCorrect == Spec => []TypeOK
  <1>1. Steady => TypeOK
    BY DEF Steady
  <1>2. QED
    BY <1>1, SteadyInit, SteadyStep, PTL DEF Spec

-----------------------------------------------------------------------------
(* What runs.                                                              *)

LEMMA AppendRange ==
  ASSUME NEW S, NEW s \in Seq(S), NEW x \in S
  PROVE  /\ Range(Append(s, x)) = Range(s) \cup {x}
         /\ IsInjective(s) /\ x \notin Range(s) => IsInjective(Append(s, x))
  <1>1. /\ DOMAIN s = 1 .. Len(s) /\ Len(s) \in Nat
        /\ DOMAIN Append(s, x) = 1 .. Len(s) + 1
        /\ Append(s, x)[Len(s) + 1] = x
        /\ \A j \in 1 .. Len(s) : Append(s, x)[j] = s[j]
    OBVIOUS
  <1>2. \A j \in 1 .. Len(s) + 1 : j \in 1 .. Len(s) \/ j = Len(s) + 1
    BY <1>1
  <1>3. QED
    BY <1>1, <1>2 DEF Range, IsInjective

\* Stages of a request whose script has not started.
Before == {"none", "sent", "fetched", "access", "software"}

Unrun == \A k \in Keyboards, i \in Events : at[k][i] \in Before => i \notin Range(ran[k])

\* The config a request was served from is one the server had after it was
\* posted, and it has been looked at as far as the request has come.
Known ==
  \A k \in Keyboards, i \in Events :
    /\ at[k][i] \in {"fetched", "access", "software"} \/ i \in Range(ran[k]) =>
         got[k][i] \in 1 .. Current /\ got[k][i] >= posted[k][i]
    /\ at[k][i] \in {"access", "software"} \/ i \in Range(ran[k]) => HasFunction(Entry(k, i), i)
    /\ at[k][i] = "software" \/ i \in Range(ran[k]) => Entry(k, i).valid

Sound == Unrun /\ RunOnce /\ Known

\* A step that moves one request, and leaves its config and what ran alone.
LEMMA MovedSound ==
  ASSUME Steady, Sound, NEW k \in Keyboards, NEW i \in Events, NEW s \in Stages, Goto(k, i, s),
         UNCHANGED <<got, posted, config, ran>>,
         s \in Before => at[k][i] \in Before,
         s \in {"fetched", "access", "software"} => at[k][i] \in {"fetched", "access", "software"},
         s \in {"access", "software"} => HasFunction(Entry(k, i), i),
         s = "software" => Entry(k, i).valid
  PROVE  Sound'
  <1>1. at'[k][i] = s /\ \A j \in Keyboards, n \in Events : j # k \/ n # i => at'[j][n] = at[j][n]
    BY GotoStage DEF Steady
  <1>2. Current' = Current /\ \A j \in Keyboards, n \in Events : Entry(j, n)' = Entry(j, n)
    BY DEF Current, Entry
  <1>3. Unrun'
    BY <1>1 DEF Sound, Unrun
  <1>4. RunOnce'
    BY DEF Sound, RunOnce
  <1>5. Known'
    BY <1>1, <1>2 DEF Sound, Known
  <1>6. QED
    BY <1>3, <1>4, <1>5 DEF Sound

LEMMA SoundStep == Steady /\ Sound /\ [Next]_vars => Sound'
  <1> SUFFICES ASSUME Steady, Sound, [Next]_vars
               PROVE  Sound'
    OBVIOUS
  <1>a. TypeOK /\ Begun /\ Unrun /\ RunOnce /\ Known /\ Current \in Nat /\ Current >= 1
    BY DEF Steady, Sound, TypeOK, Begun, Current
  <1>1. ASSUME NEW k \in Keyboards, NEW e \in Entries \cup {NoEntry}, EditConfig(k, e)
        PROVE  Sound'
    <2> DEFINE x == [config[Current] EXCEPT ![k] = e]
    <2>1. config' = Append(config, x) /\ UNCHANGED <<at, got, posted, ran>>
      BY <1>1 DEF EditConfig
    <2>2. Current' = Current + 1 /\ \A v \in 1 .. Current : config'[v] = config[v]
      BY <1>a, <2>1 DEF TypeOK, Current
    <2>3. \A v \in 1 .. Current : v \in 1 .. Current'
      BY <1>a, <2>2
    <2>4. \A j \in Keyboards, n \in Events :
            got[j][n] \in 1 .. Current => Entry(j, n)' = Entry(j, n)
      BY <2>1, <2>2 DEF Entry
    <2>5. Unrun' /\ RunOnce'
      BY <1>a, <2>1 DEF Unrun, RunOnce
    <2>6. Known'
      BY <1>a, <2>1, <2>3, <2>4 DEF Known
    <2>7. QED
      BY <2>5, <2>6 DEF Sound
  <1>2. ASSUME NEW k \in Keyboards, NEW connected \in BOOLEAN, ReadEvent(k, connected)
        PROVE  Sound'
    <2> DEFINE i == read[k] + 1
    <2>1. i \in Events /\ UNCHANGED <<got, config, ran>>
      BY <1>2 DEF ReadEvent
    <2>2. read[k] \in Nat
      BY <1>a DEF TypeOK
    <2>3. at[k][i] = "none"
      BY <1>a, <2>1, <2>2 DEF Begun
    <2>4. i \notin Range(ran[k])
      BY <1>a, <2>1, <2>3 DEF Unrun, Before
    <2>5. CASE Posts(k, i) /\ connected
      <3>1. Goto(k, i, "sent") /\ posted' = [posted EXCEPT ![k][i] = Current]
        BY <1>2, <2>5 DEF ReadEvent
      <3>2. at'[k][i] = "sent"
            /\ \A j \in Keyboards, n \in Events : j # k \/ n # i => at'[j][n] = at[j][n]
        BY <1>a, <2>1, <3>1, GotoStage DEF Stages
      <3>3. \A j \in Keyboards, n \in Events : j # k \/ n # i => posted'[j][n] = posted[j][n]
        BY <1>a, <3>1 DEF TypeOK
      <3>4. Current' = Current /\ \A j \in Keyboards, n \in Events : Entry(j, n)' = Entry(j, n)
        BY <2>1 DEF Current, Entry
      <3>5. Unrun' /\ RunOnce'
        BY <1>a, <2>1, <2>4, <3>2 DEF Unrun, RunOnce
      <3>6. Known'
        BY <1>a, <2>1, <2>4, <3>2, <3>3, <3>4 DEF Known
      <3>7. QED
        BY <3>5, <3>6 DEF Sound
    <2>6. CASE ~(Posts(k, i) /\ connected)
      <3>1. UNCHANGED <<at, posted>>
        BY <1>2, <2>6 DEF ReadEvent
      <3>2. QED
        BY <1>a, <2>1, <3>1 DEF Sound, Unrun, RunOnce, Known, Current, Entry
    <2>7. QED
      BY <2>5, <2>6
  <1>3. ASSUME (\E k \in Keyboards : Timeout(k)) \/ UNCHANGED vars
        PROVE  Sound'
    <2>1. UNCHANGED <<at, got, posted, config, ran>>
      BY <1>3 DEF Timeout, vars
    <2>2. QED
      BY <1>a, <2>1 DEF Sound, Unrun, RunOnce, Known, Current, Entry
  <1>4. ASSUME NEW k \in Keyboards, NEW i \in Events, Lose(k, i) \/ EndScript(k, i)
        PROVE  Sound'
    <2>1. Goto(k, i, "over") /\ UNCHANGED <<got, posted, config, ran>>
      BY <1>4 DEF Lose, EndScript
    <2>2. QED
      BY <2>1, MovedSound DEF Stages, Before
  <1>5. ASSUME NEW k \in Keyboards, NEW i \in Events, Fetch(k, i)
        PROVE  Sound'
    <2>1. /\ Goto(k, i, "fetched") /\ at[k][i] = "sent" /\ got' = [got EXCEPT ![k][i] = Current]
          /\ UNCHANGED <<posted, config, ran>>
      BY <1>5 DEF Fetch
    <2>2. i \notin Range(ran[k])
      BY <1>a, <2>1 DEF Unrun, Before
    <2>3. at'[k][i] = "fetched"
          /\ \A j \in Keyboards, n \in Events : j # k \/ n # i => at'[j][n] = at[j][n]
      BY <1>a, <2>1, GotoStage DEF Stages
    <2>4. got'[k][i] = Current
          /\ \A j \in Keyboards, n \in Events : j # k \/ n # i => got'[j][n] = got[j][n]
      BY <1>a, <2>1 DEF TypeOK
    <2>5. Current \in 1 .. Current /\ posted[k][i] <= Current
      BY <1>a DEF TypeOK
    <2>6. Current' = Current
          /\ \A j \in Keyboards, n \in Events : j # k \/ n # i => Entry(j, n)' = Entry(j, n)
      BY <2>1, <2>4 DEF Current, Entry
    <2>7. Unrun' /\ RunOnce'
      BY <1>a, <2>1, <2>2, <2>3 DEF Unrun, RunOnce
    <2>8. got'[k][i] >= posted[k][i]
      BY <1>a, <2>4, <2>5 DEF TypeOK
    <2>9. Known'
      BY <1>a, <2>1, <2>2, <2>3, <2>4, <2>5, <2>6, <2>8 DEF Known
    <2>10. QED
      BY <2>7, <2>9 DEF Sound
  <1>6. ASSUME NEW k \in Keyboards, NEW i \in Events, NEW delivered \in BOOLEAN,
               Respond(k, i, delivered)
        PROVE  Sound'
    <2>1. PICK s \in {"access", "over"} :
            Goto(k, i, s) /\ (s = "access" => HasFunction(Entry(k, i), i))
      BY <1>6 DEF Respond
    <2>2. at[k][i] = "fetched" /\ UNCHANGED <<got, posted, config, ran>>
      BY <1>6 DEF Respond
    <2>3. s \in Stages
      BY DEF Stages
    <2>4. QED
      BY <2>1, <2>2, <2>3, MovedSound DEF Before
  <1>7. ASSUME NEW k \in Keyboards, NEW i \in Events, Access(k, i)
        PROVE  Sound'
    <2>1. PICK s \in {"software", "over"} : Goto(k, i, s) /\ (s = "software" => Entry(k, i).valid)
      BY <1>7 DEF Access
    <2>2. at[k][i] = "access" /\ UNCHANGED <<got, posted, config, ran>>
      BY <1>7 DEF Access
    <2>3. s \in Stages /\ HasFunction(Entry(k, i), i)
      BY <1>a, <2>2 DEF Stages, Known
    <2>4. QED
      BY <2>1, <2>2, <2>3, MovedSound DEF Before
  <1>8. ASSUME NEW k \in Keyboards, NEW i \in Events, RunText(k, i)
        PROVE  Sound'
    <2>1. at[k][i] = "software" /\ UNCHANGED <<got, posted, config>>
      BY <1>8 DEF RunText
    <2>2. CASE LoadLibrary
      <3>1. Goto(k, i, "script") /\ ran' = [ran EXCEPT ![k] = Append(ran[k], i)]
        BY <1>8, <2>2 DEF RunText
      <3>2. at'[k][i] = "script"
            /\ \A j \in Keyboards, n \in Events : j # k \/ n # i => at'[j][n] = at[j][n]
        BY <1>a, <3>1, GotoStage DEF Stages
      <3>3. ran'[k] = Append(ran[k], i) /\ \A j \in Keyboards \ {k} : ran'[j] = ran[j]
        BY <1>a, <3>1 DEF TypeOK
      <3>4. i \notin Range(ran[k]) /\ IsInjective(ran[k]) /\ ran[k] \in Seq(Events)
        BY <1>a, <2>1 DEF Unrun, Before, RunOnce, TypeOK
      <3>5. Range(ran'[k]) = Range(ran[k]) \cup {i} /\ IsInjective(ran'[k])
        BY <3>3, <3>4, AppendRange
      <3>6. Current' = Current /\ \A j \in Keyboards, n \in Events : Entry(j, n)' = Entry(j, n)
        BY <2>1 DEF Current, Entry
      <3>7. RunOnce'
        BY <1>a, <3>3, <3>5 DEF RunOnce
      <3>8. Unrun'
        BY <1>a, <3>2, <3>3, <3>5 DEF Unrun, Before
      <3>9. /\ got[k][i] \in 1 .. Current /\ got[k][i] >= posted[k][i]
            /\ HasFunction(Entry(k, i), i) /\ Entry(k, i).valid
        BY <1>a, <2>1 DEF Known
      <3>10. \A j \in Keyboards, n \in Events : n \in Range(ran'[j]) =>
               n \in Range(ran[j]) \/ (j = k /\ n = i)
        BY <3>3, <3>5
      <3>11. \A j \in Keyboards, n \in Events : at'[j][n] \in {"fetched", "access", "software"} =>
               at'[j][n] = at[j][n]
        BY <3>2
      <3>12. Known'
        BY <1>a, <2>1, <3>6, <3>9, <3>10, <3>11 DEF Known
      <3>13. QED
        BY <3>7, <3>8, <3>12 DEF Sound
    <2>3. CASE ~LoadLibrary
      <3>1. Goto(k, i, "over") /\ UNCHANGED ran
        BY <1>8, <2>3 DEF RunText
      <3>2. QED
        BY <2>1, <3>1, MovedSound DEF Stages, Before
    <2>4. QED
      BY <2>2, <2>3
  <1>9. QED
    BY <1>1, <1>2, <1>3, <1>4, <1>5, <1>6, <1>7, <1>8 DEF Next, User, Serve

LEMMA SoundInit == Init => Sound
  <1> SUFFICES ASSUME Init
               PROVE  Sound
    OBVIOUS
  <1>1. \A k \in Keyboards : Range(ran[k]) = {} /\ IsInjective(ran[k])
    BY DEF Init, Range, IsInjective
  <1>2. \A k \in Keyboards, i \in Events : at[k][i] = "none"
    BY DEF Init
  <1>3. QED
    BY <1>1, <1>2 DEF Sound, Unrun, RunOnce, Known

\* However posts time out, requests are lost and the server is blocked, no
\* event is run twice.
THEOREM RunsOnce == Spec => []RunOnce
  <1>1. Sound => RunOnce
    BY DEF Sound
  <1>2. QED
    BY <1>1, SteadyInit, SteadyStep, SoundInit, SoundStep, PTL DEF Spec

\* Whatever is run is what the config said after the event was posted.
THEOREM RunsAsConfigured == Spec => []RunsWhatConfigSaid
  <1>1. Steady /\ Sound => RunsWhatConfigSaid
    <2>1. Steady => \A k \in Keyboards : Range(ran[k]) \subseteq Events
      BY DEF Steady, TypeOK, Range
    <2>2. QED
      BY <2>1 DEF Sound, Known, RunsWhatConfigSaid
  <1>2. QED
    BY <1>1, SteadyInit, SteadyStep, SoundInit, SoundStep, PTL DEF Spec
=============================================================================
