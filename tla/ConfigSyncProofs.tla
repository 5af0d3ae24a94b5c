--------------------------- MODULE ConfigSyncProofs ---------------------------
(***************************************************************************)
(* Theorems on ConfigSync, for any keyboards, paths, terminals and number  *)
(* of requests in service.                                                 *)
(***************************************************************************)
EXTENDS ConfigSync, TLAPS

LEMMA IdleStage == \A x \in Command \cup {Idle} : x # Idle <=> x \in Command
  BY DEF Command, Idle, Stages

LEMMA PostStage == \A x \in Post \cup {NoPost} : x # NoPost <=> x \in Post
  BY DEF Post, NoPost

LEMMA CommandAtType ==
  ASSUME NEW stage \in Stages, NEW op \in {"add", "sync", "init"}, NEW todo \in SUBSET Keyboards
  PROVE  CommandAt(stage, op, todo) \in Command
  <1>1. (CHOOSE k \in Keyboards : TRUE) \in Keyboards
    BY KeyboardsAssumption
  <1>2. QED
    BY <1>1 DEF CommandAt, Command

LEMMA FreshType == Fresh \in Config
  BY DEF Fresh, Config

LEMMA WithPathType ==
  ASSUME NEW x \in Config, NEW k \in Keyboards, NEW f \in Paths \cup {NoPath}
  PROVE  WithPath(x, k, f) \in Config
  BY DEF WithPath, Config

\* Leaving a command where it is, moving it or ending it keeps its type.
LEMMA GotoType ==
  ASSUME TypeOK, NEW t \in Terminals, term[t] # Idle, NEW stage \in Stages, Goto(t, stage)
  PROVE  term' \in [Terminals -> Command \cup {Idle}]
  <1>1. term[t] \in Command
    BY IdleStage DEF TypeOK
  <1>2. [term[t] EXCEPT !.at = stage] \in Command
    BY <1>1 DEF Command
  <1>3. QED
    BY <1>2 DEF TypeOK, Goto

LEMMA EndType ==
  ASSUME TypeOK, NEW t \in Terminals, End(t)
  PROVE  term' \in [Terminals -> Command \cup {Idle}]
  BY DEF TypeOK, End

LEMMA NextProcessType ==
  ASSUME TypeOK, NEW t \in Terminals, term[t] # Idle, NextProcess(t)
  PROVE  term' \in [Terminals -> Command \cup {Idle}]
  <1>1. term[t].op \in {"add", "sync", "init"} /\ term[t].todo \in SUBSET Keyboards
    BY IdleStage DEF TypeOK, Command
  <1>2. CommandAt("next", term[t].op, term[t].todo) \in Command
    BY <1>1, CommandAtType DEF Stages
  <1>3. QED
    BY <1>2 DEF TypeOK, NextProcess

LEMMA AddEndsType ==
  ASSUME TypeOK, NEW t \in Terminals, term[t] # Idle, AddEnds(t)
  PROVE  term' \in [Terminals -> Command \cup {Idle}]
  BY EndType, NextProcessType DEF AddEnds

LEMMA DetachedType ==
  ASSUME TypeOK, NEW t \in Terminals
  PROVE  Detached(t) \in [Posts -> Post \cup {NoPost}]
  <1>1. ASSUME NEW m \in Posts, post[m] # NoPost
        PROVE  [post[m] EXCEPT !.from = NoTerminal] \in Post
    <2>1. post[m] \in Post
      BY <1>1, PostStage DEF TypeOK
    <2>2. QED
      BY <2>1 DEF Post
  <1>2. QED
    BY <1>1 DEF Detached, TypeOK

LEMMA WrittenType ==
  ASSUME NEW old, NEW x \in Config \cup {Empty}, NEW new \in Written(old, x)
  PROVE  new \in File /\ (new = x \/ new = Garbled)
  BY DEF Written, File
-----------------------------------------------------------------------------
(* What stage a command or a request is in gives its type.                 *)

LEMMA Busy ==
  ASSUME TypeOK, NEW t \in Terminals, term[t].at \in Stages
  PROVE  term[t] \in Command /\ term[t] # Idle
  BY IdleStage DEF TypeOK, Idle, Stages

LEMMA InService ==
  ASSUME TypeOK, NEW m \in Posts, post[m].at \in {"sent", "read", "emptied", "written"}
  PROVE  post[m] \in Post /\ post[m] # NoPost
  BY PostStage DEF TypeOK, NoPost

\* A request somebody waits for was sent by a command that waits, for no other.
Waits ==
  \A m \in Posts : post[m] # NoPost /\ post[m].from # NoTerminal =>
    /\ term[post[m].from].at = "posted"
    /\ \A n \in Posts \ {m} : post[n] # NoPost => post[n].from # post[m].from

LEMMA DetachedFrom ==
  ASSUME TypeOK, NEW t \in Terminals, NEW m \in Posts
  PROVE  /\ Detached(t)[m] # NoPost <=> post[m] # NoPost
         /\ post[m] # NoPost =>
              /\ Detached(t)[m].from = IF post[m].from = t THEN NoTerminal ELSE post[m].from
              /\ Detached(t)[m].copy = post[m].copy
              /\ Detached(t)[m].kb = post[m].kb /\ Detached(t)[m].path = post[m].path
  <1>1. CASE post[m] = NoPost
    BY <1>1 DEF Detached
  <1>2. CASE post[m] # NoPost
    <2>1. post[m] \in Post
      BY <1>2, PostStage DEF TypeOK
    <2>2. Detached(t)[m] = IF post[m].from = t THEN [post[m] EXCEPT !.from = NoTerminal] ELSE post[m]
      BY <1>2 DEF Detached
    <2>3. Detached(t)[m] \in Post
      BY <2>1, <2>2 DEF Post
    <2>4. QED
      BY <1>2, <2>1, <2>2, <2>3, PostStage DEF Post
  <1>3. QED
    BY <1>1, <1>2

\* A command that waits for no answer may start, move on or end.
LEMMA WaitsKept ==
  ASSUME TypeOK, Waits, NEW t \in Terminals, term[t].at # "posted",
         \A u \in Terminals \ {t} : term'[u] = term[u],
         \A m \in Posts : /\ post'[m] # NoPost => post[m] # NoPost
                          /\ post'[m] # NoPost => post'[m].from = post[m].from
  PROVE  Waits'
  <1>1. SUFFICES ASSUME NEW m \in Posts, post'[m] # NoPost, post'[m].from # NoTerminal
                 PROVE  /\ term'[post'[m].from].at = "posted"
                        /\ \A n \in Posts \ {m} : post'[n] # NoPost => post'[n].from # post'[m].from
    BY DEF Waits
  <1>2. /\ post[m] # NoPost /\ post[m].from # NoTerminal /\ post'[m].from = post[m].from
        /\ post[m].from \in Terminals
    BY <1>1, PostStage DEF TypeOK, Post
  <1>3. term[post[m].from].at = "posted"
    BY <1>2 DEF Waits
  <1>4. QED
    BY <1>2, <1>3 DEF Waits
-----------------------------------------------------------------------------
(* Types are kept, and with them who waits.                                *)

Sound == TypeOK /\ Waits

LEMMA CommandStep ==
  ASSUME Sound, NEW t \in Terminals, term[t].at # "posted",
         \E c \in Command \cup {Idle} : term' = [term EXCEPT ![t] = c],
         post' = post, alone' \in Terminals \cup {NoTerminal},
         server' \in File, detector' \in File, initing' \in BOOLEAN, commands' \in Nat,
         pressed' \in [Keyboards -> SUBSET Paths], lost' \in SUBSET {"killed", "null", "mixed"}
  PROVE  Sound'
  <1>1. term' \in [Terminals -> Command \cup {Idle}]
    BY DEF Sound, TypeOK
  <1>2. TypeOK'
    BY <1>1 DEF Sound, TypeOK
  <1>3. \A u \in Terminals \ {t} : term'[u] = term[u]
    BY DEF Sound, TypeOK
  <1>4. QED
    BY <1>2, <1>3, WaitsKept DEF Sound

LEMMA StartStep ==
  ASSUME Sound, NEW t \in Terminals, NEW k \in Keyboards, NEW K \in SUBSET Keyboards,
         StartSync(t) \/ StartInit(t, K) \/ StartAdd(t, k) \/ StartAddAll(t)
  PROVE  Sound'
  <1>1. term[t].at # "posted"
    BY DEF StartSync, StartInit, StartAdd, StartAddAll, Begin, Idle
  <1>2. CommandAt("waiting", "add", {}) \in Command
    BY CommandAtType DEF Stages
  <1>3. \E c \in Command \cup {Idle} : term' = [term EXCEPT ![t] = c]
    <2>1. CASE StartSync(t)
      BY <2>1, CommandAtType DEF StartSync, Stages
    <2>2. CASE StartInit(t, K)
      BY <2>2, CommandAtType DEF StartInit, Stages
    <2>3. CASE StartAdd(t, k)
      <3>1. [CommandAt("waiting", "add", {}) EXCEPT !.kb = k] \in Command
        BY <1>2 DEF Command
      <3>2. QED
        BY <2>3, <3>1 DEF StartAdd
    <2>4. CASE StartAddAll(t)
      BY <2>4, CommandAtType DEF StartAddAll, Stages
    <2>5. QED
      BY <2>1, <2>2, <2>3, <2>4
  <1>4. /\ commands' = commands + 1 /\ alone' = NoTerminal
        /\ UNCHANGED <<server, detector, initing, post, pressed, lost>>
    BY DEF StartSync, StartInit, StartAdd, StartAddAll, Begin, Counted
  <1>5. commands' \in Nat
    BY <1>4 DEF Sound, TypeOK
  <1>6. QED
    BY <1>1, <1>3, <1>4, <1>5, CommandStep DEF Sound, TypeOK

\* Stages the actions of a command lead to.
LEMMA MovedCommand ==
  ASSUME TypeOK, NEW t \in Terminals, term[t].at \in Stages, NEW stage \in Stages
  PROVE  [term[t] EXCEPT !.at = stage] \in Command
  BY Busy DEF Command

LEMMA NextCommand ==
  ASSUME TypeOK, NEW t \in Terminals, term[t].at \in Stages
  PROVE  CommandAt("next", term[t].op, term[t].todo) \in Command
  <1>1. term[t].op \in {"add", "sync", "init"} /\ term[t].todo \in SUBSET Keyboards
    BY Busy DEF Command
  <1>2. QED
    BY <1>1, CommandAtType DEF Stages

LEMMA FetchStep ==
  ASSUME Sound, NEW t \in Terminals,
         GetConfig(t) \/ Refused(t) \/ OpenFetched(t) \/ WriteFetched(t)
  PROVE  Sound'
  <1>1. term[t].at \in Stages /\ term[t].at # "posted"
    BY DEF GetConfig, Refused, OpenFetched, WriteFetched, Stages
  <1>2. term[t] \in Command
    BY <1>1, Busy DEF Sound
  <1>3. \E c \in Command \cup {Idle} : term' = [term EXCEPT ![t] = c]
    <2>1. CASE GetConfig(t)
      <3>1. [term[t] EXCEPT !.at = "answered", !.copy = server] \in Command
        BY <1>2, <2>1 DEF GetConfig, Command, Stages
      <3>2. QED
        BY <2>1, <3>1 DEF GetConfig
    <2>2. CASE Refused(t)
      BY <2>2 DEF Refused, End
    <2>3. CASE OpenFetched(t)
      <3>1. [term[t] EXCEPT !.at = "emptied"] \in Command
        BY <1>1, MovedCommand DEF Sound, Stages
      <3>2. QED
        BY <2>3, <3>1 DEF OpenFetched, Goto
    <2>4. CASE WriteFetched(t)
      BY <1>1, <2>4, NextCommand DEF WriteFetched, End, NextProcess, Sound
    <2>5. QED
      BY <2>1, <2>2, <2>3, <2>4
  <1>4. detector' \in File
    <2>1. term[t].copy \in Config \cup {Empty}
      BY <1>2 DEF Command
    <2>2. QED
      BY <2>1, WrittenType DEF GetConfig, Refused, OpenFetched, WriteFetched, File, Sound, TypeOK
  <1>5. lost' \in SUBSET {"killed", "null", "mixed"}
    BY DEF GetConfig, Refused, OpenFetched, WriteFetched, Sound, TypeOK
  <1>6. UNCHANGED <<server, initing, post, commands, pressed, alone>>
    BY DEF GetConfig, Refused, OpenFetched, WriteFetched
  <1>7. QED
    BY <1>1, <1>3, <1>4, <1>5, <1>6, CommandStep DEF Sound, TypeOK

LEMMA AddStep ==
  ASSUME Sound, NEW t \in Terminals, NEW k \in Keyboards, NEW f,
         \/ NextKeyboard(t, k) \/ NoMoreKeyboards(t) \/ (f \in Paths /\ Press(t, f)) \/ Unreadable(t)
         \/ ReadConfig(t) \/ OpenConfig(t) \/ WriteConfig(t) \/ PostFails(t) \/ GenerateDaemon(t) \/ HungEnds(t)
  PROVE  Sound'
  <1> USE DEF Sound
  <1>1. term[t].at \in Stages /\ term[t].at # "posted"
    BY DEF NextKeyboard, NoMoreKeyboards, Press, Unreadable, ReadConfig, OpenConfig, WriteConfig,
           PostFails, GenerateDaemon, HungEnds, Stages
  <1>2. term[t] \in Command
    BY <1>1, Busy
  <1>3. \E c \in Command \cup {Idle} : term' = [term EXCEPT ![t] = c]
    <2>1. CASE NextKeyboard(t, k)
      <3> DEFINE at == IF detector \in Config THEN "waiting" ELSE "next"
      <3>1. [term[t] EXCEPT !.at = at, !.kb = k, !.todo = @ \ {k}] \in Command
        BY <1>2 DEF Command, Stages
      <3>2. QED
        BY <2>1, <3>1 DEF NextKeyboard
    <2>2. CASE NoMoreKeyboards(t)
      <3>1. [term[t] EXCEPT !.at = "daemons"] \in Command
        BY <1>1, MovedCommand DEF Stages
      <3>2. QED
        BY <2>2, <3>1 DEF NoMoreKeyboards, Goto, End
    <2>3. CASE f \in Paths /\ Press(t, f)
      <3>1. [term[t] EXCEPT !.at = "pressed", !.path = f] \in Command
        BY <1>2, <2>3 DEF Command, Stages
      <3>2. QED
        BY <2>3, <3>1 DEF Press
    <2>4. CASE Unreadable(t) \/ OpenConfig(t) \/ WriteConfig(t)
      <3>1. \A stage \in Stages : [term[t] EXCEPT !.at = stage] \in Command
        BY <1>1, MovedCommand
      <3>2. \E stage \in Stages : Goto(t, stage)
        BY <2>4 DEF Unreadable, OpenConfig, WriteConfig, Stages
      <3>3. QED
        BY <3>1, <3>2 DEF Goto
    <2>5. CASE ReadConfig(t)
      <3>1. WithPath(detector, term[t].kb, term[t].path) \in Config
        BY <1>2, <2>5, WithPathType DEF ReadConfig, Command
      <3>2. [term[t] EXCEPT !.at = "read", !.copy = WithPath(detector, term[t].kb, term[t].path)]
              \in Command
        BY <1>2, <3>1 DEF Command, Stages
      <3>3. QED
        BY <2>5, <3>2 DEF ReadConfig
    <2>6. CASE PostFails(t)
      BY <1>1, <2>6, NextCommand DEF PostFails, AddEnds, End, NextProcess
    <2>7. CASE GenerateDaemon(t) \/ HungEnds(t)
      BY <1>1, <2>7, NextCommand DEF GenerateDaemon, HungEnds, AddEnds, End, NextProcess
    <2>8. QED
      BY <2>1, <2>2, <2>3, <2>4, <2>5, <2>6, <2>7
  <1>4. detector' \in File /\ lost' \in SUBSET {"killed", "null", "mixed"}
    <2>1. CASE WriteConfig(t)
      <3>1. term[t].copy \in Config \cup {Empty}
        BY <1>2 DEF Command
      <3>2. QED
        BY <2>1, <3>1, WrittenType DEF WriteConfig, TypeOK
    <2>2. CASE ~WriteConfig(t)
      BY <2>2 DEF NextKeyboard, NoMoreKeyboards, Press, Unreadable, ReadConfig, OpenConfig,
                  PostFails, GenerateDaemon, HungEnds, File, TypeOK
    <2>3. QED
      BY <2>1, <2>2
  <1>5. pressed' \in [Keyboards -> SUBSET Paths]
    <2>1. CASE f \in Paths /\ Press(t, f)
      <3>1. term[t].kb \in Keyboards
        BY <1>2 DEF Command
      <3>2. QED
        BY <2>1, <3>1 DEF Press, TypeOK
    <2>2. CASE ~(f \in Paths /\ Press(t, f))
      BY <2>2 DEF NextKeyboard, NoMoreKeyboards, Unreadable, ReadConfig, OpenConfig, WriteConfig,
                  PostFails, GenerateDaemon, HungEnds, TypeOK
    <2>3. QED
      BY <2>1, <2>2
  <1>6. UNCHANGED <<server, initing, post, commands>>
    BY DEF NextKeyboard, NoMoreKeyboards, Press, Unreadable, ReadConfig, OpenConfig, WriteConfig,
           PostFails, GenerateDaemon, HungEnds
  <1>7. alone' \in Terminals \cup {NoTerminal}
    BY DEF NextKeyboard, NoMoreKeyboards, Press, Unreadable, ReadConfig, OpenConfig, WriteConfig,
           PostFails, GenerateDaemon, HungEnds, TypeOK
  <1>8. QED
    BY <1>1, <1>3, <1>4, <1>5, <1>6, <1>7, CommandStep DEF TypeOK

LEMMA ServerStep ==
  ASSUME Sound, NEW force \in BOOLEAN, OpenServer(force) \/ WriteServerConfig \/ AbandonInit
  PROVE  Sound'
  <1> USE DEF Sound
  <1>1. server' \in File
    BY FreshType, WrittenType DEF OpenServer, WriteServerConfig, AbandonInit, File, TypeOK
  <1>2. UNCHANGED <<detector, term, post, pressed, lost>>
    BY DEF OpenServer, WriteServerConfig, AbandonInit
  <1>3. TypeOK'
    <2>1. /\ initing' \in BOOLEAN /\ (commands' = commands + 1 \/ commands' = commands)
          /\ alone' \in Terminals \cup {NoTerminal}
      BY DEF OpenServer, WriteServerConfig, AbandonInit, Counted, TypeOK
    <2>2. QED
      BY <1>1, <1>2, <2>1 DEF TypeOK
  <1>4. QED
    BY <1>2, <1>3 DEF Waits

\* The requests end, or go on for the same senders.
LEMMA RequestStep ==
  ASSUME Sound, NEW m \in Posts,
         LoadConfig(m) \/ EmptyConfig(m) \/ FillConfig(m) \/ Lose(m) \/ KillServer
  PROVE  Sound'
  <1> USE DEF Sound
  <1>1. post' \in [Posts -> Post \cup {NoPost}]
    <2>1. CASE LoadConfig(m)
      <3>1. post[m] \in Post
        BY <2>1, InService DEF LoadConfig
      <3>2. ASSUME server \in Config
            PROVE  [post[m] EXCEPT !.at = "read",
                      !.copy = WithPath(server, post[m].kb, post[m].path)] \in Post
        <4>1. WithPath(server, post[m].kb, post[m].path) \in Config
          BY <3>1, <3>2, WithPathType DEF Post
        <4>2. QED
          BY <3>1, <4>1 DEF Post
      <3>3. QED
        BY <2>1, <3>2 DEF LoadConfig, TypeOK
    <2>2. CASE EmptyConfig(m) \/ FillConfig(m)
      <3>1. post[m] \in Post
        BY <2>2, InService DEF EmptyConfig, FillConfig
      <3>2. \A at \in {"emptied", "written"} : [post[m] EXCEPT !.at = at] \in Post
        BY <3>1 DEF Post
      <3>3. QED
        BY <2>2, <3>2 DEF EmptyConfig, FillConfig, TypeOK
    <2>3. CASE Lose(m) \/ KillServer
      BY <2>3 DEF Lose, KillServer, TypeOK
    <2>4. QED
      BY <2>1, <2>2, <2>3
  <1>2. server' \in File
    <2>1. CASE FillConfig(m)
      <3>1. post[m].copy \in Config
        BY <2>1, InService DEF FillConfig, Post
      <3>2. QED
        BY <2>1, <3>1, WrittenType DEF FillConfig
    <2>2. CASE ~FillConfig(m)
      BY <2>2 DEF LoadConfig, EmptyConfig, Lose, KillServer, File, TypeOK
    <2>3. QED
      BY <2>1, <2>2
  <1>3. UNCHANGED <<detector, initing, term, commands, pressed, lost, alone>>
    BY DEF LoadConfig, EmptyConfig, FillConfig, Lose, KillServer
  <1>4. TypeOK'
    BY <1>1, <1>2, <1>3 DEF TypeOK
  <1>5. \A n \in Posts : post'[n] # NoPost => post[n] # NoPost /\ post'[n].from = post[n].from
    <2>1. CASE LoadConfig(m) \/ EmptyConfig(m) \/ FillConfig(m)
      <3>1. post[m] \in Post /\ post[m] # NoPost
        BY <2>1, InService DEF LoadConfig, EmptyConfig, FillConfig
      <3> DEFINE moved(at) == [post[m] EXCEPT !.at = at]
      <3>2. moved("emptied").from = post[m].from /\ moved("written").from = post[m].from
        BY <3>1 DEF Post
      <3> DEFINE read == [post[m] EXCEPT !.at = "read",
                            !.copy = WithPath(server, post[m].kb, post[m].path)]
      <3>3. read.from = post[m].from
        BY <3>1 DEF Post
      <3>4. post'[m] # NoPost => post'[m].from = post[m].from
        <4>1. CASE LoadConfig(m)
          <5>1. post'[m] = read \/ post'[m] = NoPost
            BY <4>1 DEF LoadConfig, TypeOK
          <5> HIDE DEF read
          <5>2. QED
            BY <3>3, <5>1
        <4>2. CASE EmptyConfig(m) \/ FillConfig(m)
          <5>1. post'[m] = moved("emptied") \/ post'[m] = moved("written")
            BY <4>2 DEF EmptyConfig, FillConfig, TypeOK
          <5> HIDE DEF moved
          <5>2. QED
            BY <3>2, <5>1
        <4>3. QED
          BY <2>1, <4>1, <4>2
      <3>5. \A n \in Posts \ {m} : post'[n] = post[n]
        BY <2>1 DEF LoadConfig, EmptyConfig, FillConfig, TypeOK
      <3>6. QED
        BY <3>1, <3>4, <3>5
    <2>2. CASE Lose(m) \/ KillServer
      BY <2>2 DEF Lose, KillServer, TypeOK
    <2>3. QED
      BY <2>1, <2>2
  <1>6. Waits'
    BY <1>3, <1>5 DEF Waits
  <1>7. QED
    BY <1>4, <1>6

LEMMA GarbledStep ==
  ASSUME Sound, NEW t \in Terminals, GetGarbled(t)
  PROVE  Sound'
  <1>1. TypeOK'
    BY DEF GetGarbled, End, Sound, TypeOK
  <1>2. Waits'
    BY DEF GetGarbled, Waits
  <1>3. QED
    BY <1>1, <1>2 DEF Sound

LEMMA PostUpdateStep ==
  ASSUME Sound, NEW t \in Terminals, NEW m \in Posts, PostUpdate(t, m)
  PROVE  Sound'
  <1> USE DEF Sound
  <1> DEFINE new == [at |-> "sent", from |-> t, kb |-> term[t].kb, path |-> term[t].path,
                     copy |-> Fresh]
  <1>1. term[t].at \in Stages /\ term[t] \in Command
    BY Busy DEF PostUpdate, Stages
  <1>2. new \in Post
    BY <1>1, FreshType DEF Post, Command
  <1>3. post' = [post EXCEPT ![m] = new]
    BY DEF PostUpdate
  <1>4. post' \in [Posts -> Post \cup {NoPost}]
    BY <1>2, <1>3 DEF TypeOK
  <1>5. term' = [term EXCEPT ![t] = [term[t] EXCEPT !.at = "posted"]]
    BY DEF PostUpdate, Goto
  <1>6. [term[t] EXCEPT !.at = "posted"] \in Command
    BY <1>1, MovedCommand DEF Stages
  <1>7. TypeOK'
    BY <1>4, <1>5, <1>6 DEF PostUpdate, TypeOK
  <1>8. \A n \in Posts : post[n] # NoPost => post[n].from # t
    BY NamesAssumption DEF PostUpdate, Waits
  <1>9. /\ post'[m] = new /\ new.from = t
        /\ \A n \in Posts \ {m} : post'[n] = post[n]
    BY <1>3 DEF TypeOK
  <1>10. term'[t].at = "posted" /\ \A u \in Terminals \ {t} : term'[u] = term[u]
    BY <1>1, <1>5 DEF TypeOK, Command
  <1>11. Waits'
    <2>1. SUFFICES ASSUME NEW n \in Posts, post'[n] # NoPost, post'[n].from # NoTerminal
                   PROVE  /\ term'[post'[n].from].at = "posted"
                          /\ \A o \in Posts \ {n} : post'[o] # NoPost => post'[o].from # post'[n].from
      BY DEF Waits
    <2>2. CASE n = m
      BY <2>1, <2>2, <1>8, <1>9, <1>10
    <2>3. CASE n # m
      <3>1. post[n] # NoPost /\ post'[n].from = post[n].from
        BY <2>1, <2>3, <1>9
      <3>2. post[n].from \in Terminals
        BY <2>1, <3>1, PostStage DEF TypeOK, Post
      <3>3. post[n].from # t /\ term[post[n].from].at = "posted"
        BY <2>1, <3>1, <1>8 DEF Waits
      <3>4. \A o \in Posts \ {n} : post'[o] # NoPost => post'[o].from # post[n].from
        BY <2>1, <3>1, <3>3, <1>9 DEF Waits
      <3>5. QED
        BY <3>1, <3>2, <3>3, <3>4, <1>10
    <2>4. QED
      BY <2>2, <2>3
  <1>12. QED
    BY <1>7, <1>11

\* A command that ends, for whatever reason, leaves its request to nobody.
LEMMA LeaveStep ==
  ASSUME Sound, NEW t \in Terminals, Timeout(t) \/ KillCommand(t)
  PROVE  Sound'
  <1> USE DEF Sound
  <1>1. term[t] # Idle /\ term[t] \in Command
    BY IdleStage DEF Timeout, KillCommand, Idle, TypeOK
  <1>2. term' \in [Terminals -> Command \cup {Idle}]
    BY <1>1, AddEndsType, EndType DEF Timeout, KillCommand
  <1>3. \A u \in Terminals \ {t} : term'[u] = term[u]
    BY DEF Timeout, KillCommand, AddEnds, End, NextProcess, TypeOK
  <1>4. post' = Detached(t)
    BY DEF Timeout, KillCommand
  <1>5. TypeOK'
    BY <1>2, <1>4, DetachedType DEF Timeout, KillCommand, TypeOK
  <1>6. \A n \in Posts : post'[n] # NoPost =>
          post[n] # NoPost /\ post'[n].from = IF post[n].from = t THEN NoTerminal ELSE post[n].from
    BY <1>4, DetachedFrom
  <1>7. \A n \in Posts : post[n] # NoPost => post[n].from \in Terminals \cup {NoTerminal}
    BY PostStage DEF TypeOK, Post
  <1>8. Waits'
    BY <1>3, <1>6, <1>7 DEF Waits
  <1>9. QED
    BY <1>5, <1>8

LEMMA AnswerStep ==
  ASSUME Sound, NEW m \in Posts, AnswerOK(m)
  PROVE  Sound'
  <1> USE DEF Sound
  <1>1. post[m] \in Post /\ post[m] # NoPost
    BY InService DEF AnswerOK
  <1> DEFINE t == post[m].from
  <1>2. t \in Terminals \cup {NoTerminal}
    BY <1>1 DEF Post
  <1>3. t # NoTerminal => t \in Terminals /\ term[t].at = "posted" /\ term[t] # Idle
    BY <1>1, <1>2 DEF Waits, Idle
  <1>4. term' \in [Terminals -> Command \cup {Idle}]
    BY <1>3, AddEndsType DEF AnswerOK, TypeOK
  <1>5. \A u \in Terminals \ {t} : term'[u] = term[u]
    BY <1>3 DEF AnswerOK, AddEnds, End, NextProcess, TypeOK
  <1>6. TypeOK'
    BY <1>4 DEF AnswerOK, TypeOK
  <1>7. \A n \in Posts : post'[n] # NoPost => n # m /\ post'[n] = post[n]
    BY DEF AnswerOK, TypeOK
  <1>8. Waits'
    <2>1. SUFFICES ASSUME NEW n \in Posts, post'[n] # NoPost, post'[n].from # NoTerminal
                   PROVE  /\ term'[post'[n].from].at = "posted"
                          /\ \A o \in Posts \ {n} : post'[o] # NoPost => post'[o].from # post'[n].from
      BY DEF Waits
    <2>2. n # m /\ post'[n] = post[n] /\ post[n] # NoPost /\ post[n].from # NoTerminal
      BY <2>1, <1>7
    <2>3. post[n].from \in Terminals
      BY <2>2, PostStage DEF TypeOK, Post
    <2>4. post[n].from # t
      BY <1>1, <2>2 DEF Waits
    <2>5. QED
      BY <1>5, <1>7, <2>2, <2>3, <2>4 DEF Waits
  <1>9. QED
    BY <1>6, <1>8

LEMMA SoundStep ==
  ASSUME Sound, [Next]_vars
  PROVE  Sound'
  <1>1. ASSUME NEW force \in BOOLEAN, OpenServer(force)
        PROVE  Sound'
    BY <1>1, ServerStep
  <1>2. CASE WriteServerConfig \/ AbandonInit
    BY <1>2, ServerStep
  <1>3. ASSUME NEW t \in Terminals, NEW K \in {{}, Keyboards}, StartInit(t, K)
        PROVE  Sound'
    BY <1>3, KeyboardsAssumption, StartStep
  <1>4. ASSUME NEW t \in Terminals, NEW k \in Keyboards, StartAdd(t, k)
        PROVE  Sound'
    BY <1>4, StartStep
  <1>5. ASSUME NEW t \in Terminals, StartSync(t) \/ StartAddAll(t)
        PROVE  Sound'
    BY <1>5, KeyboardsAssumption, StartStep
  <1>6. ASSUME NEW t \in Terminals, GetConfig(t) \/ Refused(t) \/ OpenFetched(t) \/ WriteFetched(t)
        PROVE  Sound'
    BY <1>6, FetchStep
  <1>7. ASSUME NEW t \in Terminals, GetGarbled(t)
        PROVE  Sound'
    BY <1>7, GarbledStep
  <1>8. ASSUME NEW t \in Terminals, NEW k \in Keyboards, NextKeyboard(t, k)
        PROVE  Sound'
    BY <1>8, AddStep
  <1>9. ASSUME NEW t \in Terminals, NEW f \in Paths, Press(t, f)
        PROVE  Sound'
    BY <1>9, KeyboardsAssumption, AddStep
  <1>10. ASSUME NEW t \in Terminals,
                \/ NoMoreKeyboards(t) \/ Unreadable(t) \/ ReadConfig(t) \/ OpenConfig(t)
                \/ WriteConfig(t) \/ PostFails(t) \/ GenerateDaemon(t) \/ HungEnds(t)
         PROVE  Sound'
    BY <1>10, KeyboardsAssumption, AddStep
  <1>11. ASSUME NEW t \in Terminals, NEW m \in Posts, PostUpdate(t, m)
         PROVE  Sound'
    BY <1>11, PostUpdateStep
  <1>12. ASSUME NEW t \in Terminals, Timeout(t) \/ KillCommand(t)
         PROVE  Sound'
    BY <1>12, LeaveStep
  <1>13. ASSUME NEW m \in Posts, LoadConfig(m) \/ EmptyConfig(m) \/ FillConfig(m) \/ Lose(m)
         PROVE  Sound'
    BY <1>13, RequestStep
  <1>14. ASSUME NEW m \in Posts, AnswerOK(m)
         PROVE  Sound'
    BY <1>14, AnswerStep
  <1>15. CASE KillServer
    BY <1>15, RequestStep DEF KillServer
  <1>16. CASE UNCHANGED vars
    BY <1>16 DEF vars, Sound, TypeOK, Waits
  <1>17. QED
    BY <1>1, <1>2, <1>3, <1>4, <1>5, <1>6, <1>7, <1>8, <1>9, <1>10, <1>11, <1>12, <1>13, <1>14,
       <1>15, <1>16 DEF Next, Fetch, Continue, Serve

LEMMA SoundInit == Init => Sound
  <1> SUFFICES ASSUME Init
               PROVE  Sound
    OBVIOUS
  <1>1. server \in File /\ detector \in File
    BY FreshType DEF Init, File
  <1>2. /\ term \in [Terminals -> Command \cup {Idle}]
        /\ post \in [Posts -> Post \cup {NoPost}]
        /\ pressed \in [Keyboards -> SUBSET Paths]
    BY DEF Init
  <1>3. Waits
    BY DEF Init, Waits
  <1>4. QED
    BY <1>1, <1>2, <1>3 DEF Init, Sound, TypeOK

LEMMA SoundAlways == Spec => []Sound
  BY SoundInit, SoundStep, PTL DEF Spec

\* The two files, the commands and the requests keep their types whatever
\* commands, requests and kills interleave.
THEOREM TypeCorrect == Spec => []TypeOK
  <1>1. Sound => TypeOK
    BY DEF Sound
  <1>2. QED
    BY <1>1, SoundAlways, PTL
-----------------------------------------------------------------------------
(* Paths go where their key was pressed.  What a command or a request will *)
(* write is paired like the files are, and from the key to the answer its  *)
(* path is one the key was pressed of for its keyboard.                    *)

PairedTo(x, p) == x \in Config => \A k \in Keyboards : x[k] \in p[k] \cup {NoPath}

Chosen == {"pressed", "read", "opened", "saved", "posted"}
FitCommand(c, p) == c # Idle => PairedTo(c.copy, p) /\ (c.at \in Chosen => c.path \in p[c.kb])
FitPost(q, p) == q # NoPost => PairedTo(q.copy, p) /\ q.path \in p[q.kb]

Pairs ==
  /\ PairedTo(server, pressed) /\ PairedTo(detector, pressed)
  /\ \A t \in Terminals : FitCommand(term[t], pressed)
  /\ \A m \in Posts : FitPost(post[m], pressed)

LEMMA PairedFiles ==
  ASSUME NEW p
  PROVE  /\ PairedTo(Fresh, p) /\ PairedTo(Empty, p) /\ PairedTo(Missing, p)
         /\ \A old, x : PairedTo(x, p) => \A y \in Written(old, x) : PairedTo(y, p)
  <1>1. PairedTo(Fresh, p)
    BY DEF PairedTo, Fresh
  <1>2. \A y \in {Empty, Missing, Garbled} : PairedTo(y, p)
    BY FilesAssumption DEF PairedTo
  <1>3. QED
    BY <1>1, <1>2 DEF Written

LEMMA PairedWithPath ==
  ASSUME NEW p, NEW x \in Config, PairedTo(x, p), NEW k \in Keyboards, NEW f \in p[k]
  PROVE  PairedTo(WithPath(x, k, f), p)
  BY DEF PairedTo, WithPath, Config

LEMMA FitNew ==
  ASSUME NEW p, NEW stage, stage \notin Chosen, NEW op, NEW todo
  PROVE  FitCommand(CommandAt(stage, op, todo), p) /\ FitCommand(Idle, p)
  BY PairedFiles DEF FitCommand, CommandAt

LEMMA FitMoved ==
  ASSUME NEW p, NEW c \in Command, FitCommand(c, p), NEW stage \in Stages,
         stage \in Chosen => c.at \in Chosen
  PROVE  FitCommand([c EXCEPT !.at = stage], p)
  <1>1. c # Idle
    BY IdleStage
  <1>2. /\ [c EXCEPT !.at = stage].at = stage /\ [c EXCEPT !.at = stage].copy = c.copy
        /\ [c EXCEPT !.at = stage].path = c.path /\ [c EXCEPT !.at = stage].kb = c.kb
    BY DEF Command
  <1>3. QED
    BY <1>1, <1>2 DEF FitCommand

LEMMA TermsFit ==
  ASSUME Sound, Pairs, NEW t \in Terminals, NEW c, FitCommand(c, pressed),
         term' = [term EXCEPT ![t] = c]
  PROVE  \A u \in Terminals : FitCommand(term'[u], pressed)
  BY DEF Pairs, Sound, TypeOK

LEMMA PostsFit ==
  ASSUME Sound, Pairs, NEW t \in Terminals
  PROVE  \A m \in Posts : FitPost(Detached(t)[m], pressed)
  BY DetachedFrom DEF Sound, Pairs, FitPost

LEMMA PairsStart ==
  ASSUME Sound, Pairs, NEW t \in Terminals, NEW k \in Keyboards, NEW K \in SUBSET Keyboards,
         StartSync(t) \/ StartInit(t, K) \/ StartAdd(t, k) \/ StartAddAll(t)
  PROVE  Pairs'
  <1>1. \A u \in Terminals : FitCommand(term'[u], pressed)
    <2>1. CASE StartSync(t) \/ StartInit(t, K) \/ StartAddAll(t)
      <3>1. \A stage, op, todo : stage \notin Chosen =>
              FitCommand(CommandAt(stage, op, todo), pressed)
        BY FitNew
      <3>2. QED
        BY <2>1, <3>1, TermsFit DEF StartSync, StartInit, StartAddAll, Chosen
    <2>2. CASE StartAdd(t, k)
      <3> DEFINE c == [CommandAt("waiting", "add", {}) EXCEPT !.kb = k]
      <3>1. CommandAt("waiting", "add", {}) \in Command
        BY CommandAtType DEF Stages
      <3>2. c.at = "waiting" /\ c.copy = Empty
        BY <3>1 DEF Command, CommandAt
      <3>3. FitCommand(c, pressed)
        BY <3>2, PairedFiles DEF FitCommand, Chosen
      <3>4. QED
        BY <2>2, <3>3, TermsFit DEF StartAdd
    <2>3. QED
      BY <2>1, <2>2
  <1>2. UNCHANGED <<server, detector, post, pressed>>
    BY DEF StartSync, StartInit, StartAdd, StartAddAll
  <1>3. QED
    BY <1>1, <1>2 DEF Pairs

LEMMA PairsFetch ==
  ASSUME Sound, Pairs, NEW t \in Terminals,
         GetConfig(t) \/ Refused(t) \/ GetGarbled(t) \/ OpenFetched(t) \/ WriteFetched(t)
  PROVE  Pairs'
  <1>1. term[t].at \in Stages /\ term[t] \in Command /\ term[t] # Idle
    BY Busy DEF GetConfig, Refused, GetGarbled, OpenFetched, WriteFetched, Stages, Sound
  <1>2. FitCommand(term[t], pressed)
    BY DEF Pairs
  <1>3. \A u \in Terminals : FitCommand(term'[u], pressed)
    <2>1. CASE GetConfig(t)
      <3> DEFINE c == [term[t] EXCEPT !.at = "answered", !.copy = server]
      <3>1. c.at = "answered" /\ c.copy = server
        BY <1>1 DEF Command
      <3>2. FitCommand(c, pressed)
        BY <3>1 DEF FitCommand, Chosen, Pairs
      <3>3. QED
        BY <2>1, <3>2, TermsFit DEF GetConfig
    <2>2. CASE Refused(t) \/ GetGarbled(t)
      BY <2>2, TermsFit DEF Refused, GetGarbled, End, FitCommand
    <2>3. CASE OpenFetched(t)
      <3>1. FitCommand([term[t] EXCEPT !.at = "emptied"], pressed)
        BY <1>1, <1>2, FitMoved DEF Chosen, Stages
      <3>2. QED
        BY <2>3, <3>1, TermsFit DEF OpenFetched, Goto
    <2>4. CASE WriteFetched(t)
      <3>1. /\ FitCommand(CommandAt("next", term[t].op, term[t].todo), pressed)
            /\ FitCommand(Idle, pressed)
        BY FitNew DEF Chosen
      <3>2. QED
        BY <2>4, <3>1, TermsFit DEF WriteFetched, End, NextProcess
    <2>5. QED
      BY <2>1, <2>2, <2>3, <2>4
  <1>4. PairedTo(detector', pressed)
    <2>1. PairedTo(term[t].copy, pressed)
      BY <1>1, <1>2 DEF FitCommand
    <2>2. QED
      BY <2>1, PairedFiles
      DEF GetConfig, Refused, GetGarbled, OpenFetched, WriteFetched, Pairs
  <1>5. \A m \in Posts : FitPost(post'[m], pressed)
    BY DEF GetConfig, Refused, GetGarbled, OpenFetched, WriteFetched, Pairs, FitPost
  <1>6. UNCHANGED <<server, pressed>>
    BY DEF GetConfig, Refused, GetGarbled, OpenFetched, WriteFetched
  <1>7. QED
    BY <1>3, <1>4, <1>5, <1>6 DEF Pairs

\* The only step that presses a key.
LEMMA PairsPress ==
  ASSUME Sound, Pairs, NEW t \in Terminals, NEW f \in Paths, Press(t, f)
  PROVE  Pairs'
  <1>1. term[t] \in Command /\ term[t] # Idle
    BY Busy DEF Press, Stages, Sound
  <1>2. /\ term[t].kb \in Keyboards
        /\ pressed' = [pressed EXCEPT ![term[t].kb] = @ \cup {f}]
    BY <1>1 DEF Press, Command
  <1>3. (\A k \in Keyboards : pressed[k] \subseteq pressed'[k]) /\ f \in pressed'[term[t].kb]
    BY <1>2 DEF Sound, TypeOK
  <1>4. \A x : PairedTo(x, pressed) => PairedTo(x, pressed')
    BY <1>3 DEF PairedTo
  <1>5. \A u \in Terminals : term[u] # Idle => term[u].kb \in Keyboards
    BY IdleStage DEF Sound, TypeOK, Command
  <1>6. \A u \in Terminals : FitCommand(term[u], pressed')
    BY <1>3, <1>4, <1>5 DEF FitCommand, Pairs
  <1> DEFINE c == [term[t] EXCEPT !.at = "pressed", !.path = f]
  <1>7. c.path = f /\ c.kb = term[t].kb /\ c.copy = term[t].copy
    BY <1>1 DEF Command
  <1>8. FitCommand(c, pressed')
    BY <1>1, <1>3, <1>6, <1>7 DEF FitCommand
  <1>9. \A u \in Terminals : FitCommand(term'[u], pressed')
    BY <1>6, <1>8 DEF Press, Sound, TypeOK
  <1>10. \A m \in Posts : FitPost(post[m], pressed')
    <2>1. \A m \in Posts : post[m] # NoPost => post[m].kb \in Keyboards
      BY PostStage DEF Sound, TypeOK, Post
    <2>2. QED
      BY <1>3, <1>4, <2>1 DEF FitPost, Pairs
  <1>11. QED
    BY <1>4, <1>9, <1>10 DEF Press, Pairs

LEMMA PairsAdd ==
  ASSUME Sound, Pairs, NEW t \in Terminals, NEW k \in Keyboards,
         \/ NextKeyboard(t, k) \/ NoMoreKeyboards(t) \/ Unreadable(t)
         \/ ReadConfig(t) \/ OpenConfig(t) \/ WriteConfig(t) \/ PostFails(t) \/ GenerateDaemon(t) \/ HungEnds(t)
  PROVE  Pairs'
  <1>1. term[t].at \in Stages /\ term[t] \in Command /\ term[t] # Idle
    BY Busy DEF NextKeyboard, NoMoreKeyboards, Unreadable, ReadConfig, OpenConfig, WriteConfig,
                PostFails, GenerateDaemon, HungEnds, Stages, Sound
  <1>2. FitCommand(term[t], pressed) /\ FitCommand(Idle, pressed)
    BY DEF Pairs, FitCommand
  <1>3. \A u \in Terminals : FitCommand(term'[u], pressed)
    <2>1. CASE NextKeyboard(t, k)
      <3> DEFINE at == IF detector \in Config THEN "waiting" ELSE "next"
      <3> DEFINE c == [term[t] EXCEPT !.at = at, !.kb = k, !.todo = @ \ {k}]
      <3>1. c.at \in {"waiting", "next"} /\ c.copy = term[t].copy
        BY <1>1 DEF Command
      <3>2. FitCommand(c, pressed)
        BY <1>1, <1>2, <3>1 DEF FitCommand, Chosen
      <3>3. term' = [term EXCEPT ![t] = c]
        BY <2>1 DEF NextKeyboard
      <3>4. QED
        BY <3>2, <3>3, TermsFit
    <2>2. CASE NoMoreKeyboards(t) \/ Unreadable(t) \/ OpenConfig(t) \/ WriteConfig(t)
      <3>1. \/ term' = [term EXCEPT ![t] = Idle]
            \/ \E stage \in Stages :
                 Goto(t, stage) /\ (stage \in Chosen => term[t].at \in Chosen)
        BY <2>2 DEF NoMoreKeyboards, Unreadable, OpenConfig, WriteConfig, End, Stages, Chosen
      <3>2. QED
        BY <1>1, <1>2, <3>1, FitMoved, TermsFit DEF Goto
    <2>3. CASE ReadConfig(t)
      <3> DEFINE x == WithPath(detector, term[t].kb, term[t].path)
      <3> DEFINE c == [term[t] EXCEPT !.at = "read", !.copy = x]
      <3>1. term[t].path \in pressed[term[t].kb] /\ term[t].kb \in Keyboards
        BY <1>1, <1>2, <2>3 DEF FitCommand, Chosen, ReadConfig, Command
      <3>2. PairedTo(x, pressed)
        BY <2>3, <3>1, PairedWithPath DEF ReadConfig, Pairs
      <3>3. c.copy = x /\ c.path = term[t].path /\ c.kb = term[t].kb
        BY <1>1 DEF Command
      <3>4. FitCommand(c, pressed)
        BY <3>1, <3>2, <3>3 DEF FitCommand
      <3>5. term' = [term EXCEPT ![t] = c]
        BY <2>3 DEF ReadConfig
      <3>6. QED
        BY <3>4, <3>5, TermsFit
    <2>4. CASE PostFails(t) \/ GenerateDaemon(t) \/ HungEnds(t)
      <3>1. FitCommand(CommandAt("next", term[t].op, term[t].todo), pressed)
        BY FitNew DEF Chosen
      <3>2. QED
        BY <1>2, <2>4, <3>1, TermsFit DEF PostFails, GenerateDaemon, HungEnds, AddEnds, End, NextProcess
    <2>5. QED
      BY <2>1, <2>2, <2>3, <2>4
  <1>4. PairedTo(detector', pressed)
    <2>1. PairedTo(term[t].copy, pressed)
      BY <1>1, <1>2 DEF FitCommand
    <2>2. CASE OpenConfig(t) \/ WriteConfig(t)
      BY <2>1, <2>2, PairedFiles DEF OpenConfig, WriteConfig
    <2>3. CASE ~(OpenConfig(t) \/ WriteConfig(t))
      BY <2>3 DEF NextKeyboard, NoMoreKeyboards, Unreadable, ReadConfig, PostFails,
                  GenerateDaemon, HungEnds, Pairs
    <2>4. QED
      BY <2>2, <2>3
  <1>5. UNCHANGED <<server, post, pressed>>
    BY DEF NextKeyboard, NoMoreKeyboards, Unreadable, ReadConfig, OpenConfig, WriteConfig,
           PostFails, GenerateDaemon, HungEnds
  <1>6. QED
    BY <1>3, <1>4, <1>5 DEF Pairs

LEMMA PairsPost ==
  ASSUME Sound, Pairs, NEW t \in Terminals, NEW m \in Posts, PostUpdate(t, m)
  PROVE  Pairs'
  <1> DEFINE new == [at |-> "sent", from |-> t, kb |-> term[t].kb, path |-> term[t].path,
                     copy |-> Fresh]
  <1>1. term[t].at \in Stages /\ term[t] \in Command /\ term[t] # Idle
    BY Busy DEF PostUpdate, Stages, Sound
  <1>2. FitCommand(term[t], pressed)
    BY DEF Pairs
  <1>3. term[t].path \in pressed[term[t].kb]
    BY <1>1, <1>2 DEF PostUpdate, FitCommand, Chosen
  <1>4. FitCommand([term[t] EXCEPT !.at = "posted"], pressed)
    BY <1>1, <1>2, FitMoved DEF PostUpdate, Chosen, Stages
  <1>5. \A u \in Terminals : FitCommand(term'[u], pressed)
    BY <1>4, TermsFit DEF PostUpdate, Goto
  <1>6. FitPost(new, pressed)
    BY <1>3, PairedFiles DEF FitPost
  <1>7. \A n \in Posts : post'[n] = new \/ post'[n] = post[n]
    BY DEF PostUpdate, Sound, TypeOK
  <1>8. \A n \in Posts : FitPost(post'[n], pressed)
    BY <1>6, <1>7 DEF Pairs
  <1>9. QED
    BY <1>5, <1>8 DEF PostUpdate, Pairs

LEMMA PairsLeave ==
  ASSUME Sound, Pairs, NEW t \in Terminals, Timeout(t) \/ KillCommand(t)
  PROVE  Pairs'
  <1>1. /\ FitCommand(CommandAt("next", term[t].op, term[t].todo), pressed)
        /\ FitCommand(Idle, pressed)
    BY FitNew DEF Chosen
  <1>2. \A u \in Terminals : FitCommand(term'[u], pressed)
    BY <1>1, TermsFit DEF Timeout, KillCommand, AddEnds, End, NextProcess
  <1>3. post' = Detached(t) /\ UNCHANGED <<server, detector, pressed>>
    BY DEF Timeout, KillCommand
  <1>4. QED
    BY <1>2, <1>3, PostsFit DEF Pairs

LEMMA PairsServe ==
  ASSUME Sound, Pairs, NEW m \in Posts,
         LoadConfig(m) \/ EmptyConfig(m) \/ FillConfig(m) \/ AnswerOK(m) \/ Lose(m) \/ KillServer
  PROVE  Pairs'
  <1>1. UNCHANGED <<detector, pressed>>
    BY DEF LoadConfig, EmptyConfig, FillConfig, AnswerOK, Lose, KillServer
  <1>2. CASE Lose(m) \/ KillServer
    BY <1>2 DEF Lose, KillServer, Pairs, FitPost, Sound, TypeOK
  <1>3. CASE ~(Lose(m) \/ KillServer)
    <2>1. post[m] \in Post /\ post[m] # NoPost
      BY <1>3, InService DEF LoadConfig, EmptyConfig, FillConfig, AnswerOK, Sound
    <2>2. FitPost(post[m], pressed) /\ PairedTo(post[m].copy, pressed)
      BY <2>1 DEF Pairs, FitPost
    <2>3. PairedTo(server', pressed)
      BY <1>3, <2>2, PairedFiles DEF LoadConfig, EmptyConfig, FillConfig, AnswerOK, Pairs
    <2>4. \A u \in Terminals : FitCommand(term'[u], pressed)
      <3>1. CASE AnswerOK(m)
        <4> DEFINE t == post[m].from
        <4>1. /\ FitCommand(CommandAt("next", term[t].op, term[t].todo), pressed)
              /\ FitCommand(Idle, pressed)
          BY FitNew DEF Chosen
        <4>2. t # NoTerminal => t \in Terminals
          BY <2>1 DEF Post
        <4>3. QED
          BY <3>1, <4>1, <4>2, TermsFit DEF AnswerOK, AddEnds, End, NextProcess, Pairs
      <3>2. CASE ~AnswerOK(m)
        BY <1>3, <3>2 DEF LoadConfig, EmptyConfig, FillConfig, Pairs
      <3>3. QED
        BY <3>1, <3>2
    <2> DEFINE x == WithPath(server, post[m].kb, post[m].path)
    <2> DEFINE read == [post[m] EXCEPT !.at = "read", !.copy = x]
    <2> DEFINE moved(at) == [post[m] EXCEPT !.at = at]
    <2>5. server \in Config => FitPost(read, pressed)
      <3>1. SUFFICES ASSUME server \in Config
                     PROVE  FitPost(read, pressed)
        OBVIOUS
      <3>2. post[m].kb \in Keyboards /\ post[m].path \in pressed[post[m].kb]
        BY <2>1, <2>2 DEF Post, FitPost
      <3>3. PairedTo(x, pressed)
        BY <3>1, <3>2, PairedWithPath DEF Pairs
      <3>4. read.copy = x /\ read.path = post[m].path /\ read.kb = post[m].kb
        BY <2>1 DEF Post
      <3>5. QED
        BY <3>2, <3>3, <3>4 DEF FitPost
    <2>6. FitPost(moved("emptied"), pressed) /\ FitPost(moved("written"), pressed)
      <3>1. \A at \in {"emptied", "written"} :
              /\ moved(at).copy = post[m].copy /\ moved(at).path = post[m].path
              /\ moved(at).kb = post[m].kb
        BY <2>1 DEF Post
      <3>2. QED
        BY <2>1, <2>2, <3>1 DEF FitPost
    <2>7. post'[m] \in {moved("emptied"), moved("written"), NoPost}
            \/ (server \in Config /\ post'[m] = read)
      BY <1>3 DEF LoadConfig, EmptyConfig, FillConfig, AnswerOK, Sound, TypeOK
    <2>8. \A n \in Posts \ {m} : post'[n] = post[n]
      BY <1>3 DEF LoadConfig, EmptyConfig, FillConfig, AnswerOK, Sound, TypeOK
    <2>9. FitPost(NoPost, pressed)
      BY DEF FitPost
    <2> HIDE DEF read, moved
    <2>10. FitPost(post'[m], pressed)
      BY <2>5, <2>6, <2>7, <2>9
    <2>11. \A n \in Posts : FitPost(post'[n], pressed)
      BY <2>8, <2>10 DEF Pairs
    <2>12. QED
      BY <1>1, <2>3, <2>4, <2>11 DEF Pairs
  <1>4. QED
    BY <1>2, <1>3

LEMMA PairsStep ==
  ASSUME Sound, Pairs, [Next]_vars
  PROVE  Pairs'
  <1>1. ASSUME NEW force \in BOOLEAN, OpenServer(force) \/ WriteServerConfig \/ AbandonInit
        PROVE  Pairs'
    <2>1. \A m \in Posts : FitPost(post'[m], pressed)
      BY <1>1 DEF OpenServer, WriteServerConfig, AbandonInit, Pairs, FitPost, Sound
    <2>2. PairedTo(server', pressed)
      BY <1>1, PairedFiles DEF OpenServer, WriteServerConfig, AbandonInit, Pairs
    <2>3. QED
      BY <1>1, <2>1, <2>2 DEF OpenServer, WriteServerConfig, AbandonInit, Pairs
  <1>2. ASSUME NEW t \in Terminals, NEW K \in {{}, Keyboards}, StartInit(t, K)
        PROVE  Pairs'
    BY <1>2, KeyboardsAssumption, PairsStart
  <1>3. ASSUME NEW t \in Terminals, NEW k \in Keyboards, StartAdd(t, k) \/ NextKeyboard(t, k)
        PROVE  Pairs'
    BY <1>3, PairsStart, PairsAdd
  <1>4. ASSUME NEW t \in Terminals, StartSync(t) \/ StartAddAll(t)
        PROVE  Pairs'
    BY <1>4, KeyboardsAssumption, PairsStart
  <1>5. ASSUME NEW t \in Terminals,
               GetConfig(t) \/ Refused(t) \/ GetGarbled(t) \/ OpenFetched(t) \/ WriteFetched(t)
        PROVE  Pairs'
    BY <1>5, PairsFetch
  <1>6. ASSUME NEW t \in Terminals, NEW f \in Paths, Press(t, f)
        PROVE  Pairs'
    BY <1>6, PairsPress
  <1>7. ASSUME NEW t \in Terminals,
               \/ NoMoreKeyboards(t) \/ Unreadable(t) \/ ReadConfig(t) \/ OpenConfig(t)
               \/ WriteConfig(t) \/ PostFails(t) \/ GenerateDaemon(t) \/ HungEnds(t)
        PROVE  Pairs'
    BY <1>7, KeyboardsAssumption, PairsAdd
  <1>8. ASSUME NEW t \in Terminals, NEW m \in Posts, PostUpdate(t, m)
        PROVE  Pairs'
    BY <1>8, PairsPost
  <1>9. ASSUME NEW t \in Terminals, Timeout(t) \/ KillCommand(t)
        PROVE  Pairs'
    BY <1>9, PairsLeave
  <1>10. ASSUME NEW m \in Posts, Serve(m) \/ Lose(m)
         PROVE  Pairs'
    BY <1>10, PairsServe DEF Serve
  <1>11. CASE KillServer
    BY <1>11, PairsServe DEF KillServer
  <1>12. CASE UNCHANGED vars
    BY <1>12 DEF vars, Pairs
  <1>13. QED
    BY <1>1, <1>2, <1>3, <1>4, <1>5, <1>6, <1>7, <1>8, <1>9, <1>10, <1>11, <1>12
    DEF Next, Fetch, Continue

LEMMA PairsInit == Init => Pairs
  BY PairedFiles DEF Init, Pairs, FitCommand, FitPost

\* No keyboard ever gets a path in either copy of the config that no key was
\* pressed of for it, however many commands and requests overlap.
THEOREM PathsStayPressed == Spec => []PathsArePressed
  <1>1. Init => Sound /\ Pairs
    BY SoundInit, PairsInit
  <1>2. Sound /\ Pairs /\ [Next]_vars => (Sound /\ Pairs)'
    BY SoundStep, PairsStep
  <1>3. Sound /\ Pairs => PathsArePressed
    BY DEF Pairs, PathsArePressed, Paired, PairedTo
  <1>4. QED
    BY <1>1, <1>2, <1>3, PTL DEF Spec
-----------------------------------------------------------------------------
(* The config of the detector is not lost in any other way than those      *)
(* ConfigKept names: a command about to write holds a config.              *)

Holds == \A t \in Terminals : term[t].at \in {"read", "opened"} => term[t].copy \in Config

LEMMA NewCopies ==
  ASSUME NEW stage, stage \notin {"read", "opened"}, NEW op, NEW todo
  PROVE  CommandAt(stage, op, todo).at \notin {"read", "opened"}
  BY DEF CommandAt

\* A step of one command that does not write.
LEMMA HoldsOther ==
  ASSUME Sound, Holds, NEW t \in Terminals, NEW c, term' = [term EXCEPT ![t] = c],
         c.at \in {"read", "opened"} => c.copy \in Config
  PROVE  Holds'
  BY DEF Sound, TypeOK, Holds

LEMMA HoldsStep ==
  ASSUME Sound, Holds, [Next]_vars
  PROVE  Holds'
  <1> USE DEF Sound
  <1>1. ASSUME NEW t \in Terminals, NEW stage \in Stages, NEW op, NEW todo,
               term' = [term EXCEPT ![t] = CommandAt(stage, op, todo)],
               stage \notin {"read", "opened"}
        PROVE  Holds'
    BY <1>1, HoldsOther, NewCopies
  <1>2. ASSUME NEW t \in Terminals, End(t)
        PROVE  Holds'
    BY <1>2, HoldsOther DEF End, Idle
  <1>3. ASSUME NEW t \in Terminals, term[t].at \in Stages, NEW stage \in Stages, Goto(t, stage),
               stage \in {"read", "opened"} => term[t].at = "read"
        PROVE  Holds'
    <2>1. term[t] \in Command
      BY <1>3, Busy
    <2> DEFINE c == [term[t] EXCEPT !.at = stage]
    <2>2. c.at = stage /\ c.copy = term[t].copy
      BY <2>1 DEF Command
    <2>3. c.at \in {"read", "opened"} => c.copy \in Config
      BY <1>3, <2>2 DEF Holds
    <2>4. QED
      BY <1>3, <2>3, HoldsOther DEF Goto
  <1>4. ASSUME NEW t \in Terminals,
               \/ StartSync(t) \/ StartAddAll(t) \/ \E K \in {{}, Keyboards} : StartInit(t, K)
        PROVE  Holds'
    BY <1>1, <1>4 DEF StartSync, StartAddAll, StartInit, Stages
  <1>5. ASSUME NEW t \in Terminals, NEW k \in Keyboards, StartAdd(t, k)
        PROVE  Holds'
    <2> DEFINE c == [CommandAt("waiting", "add", {}) EXCEPT !.kb = k]
    <2>1. c.at = "waiting"
      BY DEF CommandAt
    <2>2. QED
      BY <1>5, <2>1, HoldsOther DEF StartAdd
  <1>6. ASSUME NEW t \in Terminals, NEW k \in Keyboards, NextKeyboard(t, k)
        PROVE  Holds'
    <2>1. term[t] \in Command
      BY <1>6, Busy DEF NextKeyboard, Stages
    <2> DEFINE at == IF detector \in Config THEN "waiting" ELSE "next"
    <2> DEFINE c == [term[t] EXCEPT !.at = at, !.kb = k, !.todo = @ \ {k}]
    <2>2. c.at \in {"waiting", "next"}
      BY <2>1 DEF Command
    <2>3. term' = [term EXCEPT ![t] = c]
      BY <1>6 DEF NextKeyboard
    <2>4. QED
      BY <2>2, <2>3, HoldsOther
  <1>7. ASSUME NEW t \in Terminals, NEW f \in Paths, Press(t, f)
        PROVE  Holds'
    <2>1. term[t] \in Command
      BY <1>7, Busy DEF Press, Stages
    <2> DEFINE c == [term[t] EXCEPT !.at = "pressed", !.path = f]
    <2>2. c.at = "pressed"
      BY <2>1 DEF Command
    <2>3. QED
      <3>1. term' = [term EXCEPT ![t] = c]
        BY <1>7 DEF Press
      <3> HIDE DEF c
      <3>2. QED
        BY <2>2, <3>1, HoldsOther
  <1>8. ASSUME NEW t \in Terminals, GetConfig(t)
        PROVE  Holds'
    <2>1. term[t] \in Command
      BY <1>8, Busy DEF GetConfig, Stages
    <2> DEFINE c == [term[t] EXCEPT !.at = "answered", !.copy = server]
    <2>2. c.at = "answered"
      BY <2>1 DEF Command
    <2>3. QED
      <3>1. term' = [term EXCEPT ![t] = c]
        BY <1>8 DEF GetConfig
      <3> HIDE DEF c
      <3>2. QED
        BY <2>2, <3>1, HoldsOther
  <1>9. ASSUME NEW t \in Terminals, ReadConfig(t)
        PROVE  Holds'
    <2>1. term[t] \in Command
      BY <1>9, Busy DEF ReadConfig, Stages
    <2> DEFINE x == WithPath(detector, term[t].kb, term[t].path)
    <2> DEFINE c == [term[t] EXCEPT !.at = "read", !.copy = x]
    <2>2. x \in Config
      BY <1>9, <2>1, WithPathType DEF ReadConfig, Command
    <2>3. c.copy = x
      BY <2>1 DEF Command
    <2>4. QED
      <3>1. term' = [term EXCEPT ![t] = c]
        BY <1>9 DEF ReadConfig
      <3> HIDE DEF c, x
      <3>2. QED
        BY <2>2, <2>3, <3>1, HoldsOther
  <1>10. ASSUME NEW t \in Terminals,
                \/ OpenFetched(t) \/ Unreadable(t) \/ OpenConfig(t) \/ WriteConfig(t)
                \/ \E m \in Posts : PostUpdate(t, m)
         PROVE  Holds'
    BY <1>3, <1>10 DEF OpenFetched, Unreadable, OpenConfig, WriteConfig, PostUpdate, Stages
  <1>11. ASSUME NEW t \in Terminals, AddEnds(t)
         PROVE  Holds'
    BY <1>1, <1>2, <1>11 DEF AddEnds, NextProcess, Stages
  <1>12. ASSUME NEW t \in Terminals, NoMoreKeyboards(t)
         PROVE  Holds'
    BY <1>2, <1>3, <1>12 DEF NoMoreKeyboards, Stages
  <1>13. ASSUME NEW t \in Terminals, WriteFetched(t)
         PROVE  Holds'
    BY <1>1, <1>2, <1>13 DEF WriteFetched, NextProcess, Stages
  <1>14. ASSUME NEW t \in Terminals,
                \/ Refused(t) \/ GetGarbled(t) \/ PostFails(t) \/ GenerateDaemon(t) \/ HungEnds(t)
                \/ Timeout(t) \/ KillCommand(t)
         PROVE  Holds'
    BY <1>2, <1>11, <1>14
    DEF Refused, GetGarbled, PostFails, GenerateDaemon, HungEnds, Timeout, KillCommand
  <1>15. ASSUME NEW m \in Posts, AnswerOK(m)
         PROVE  Holds'
    <2>1. post[m].from \in Terminals \cup {NoTerminal}
      BY <1>15, InService DEF AnswerOK, Post
    <2>2. QED
      BY <1>11, <1>15, <2>1 DEF AnswerOK, Holds
  <1>16. ASSUME term' = term
         PROVE  Holds'
    BY <1>16 DEF Holds
  <1>17. CASE \/ \E force \in BOOLEAN : OpenServer(force)
              \/ WriteServerConfig \/ AbandonInit \/ KillServer \/ UNCHANGED vars
              \/ \E m \in Posts : LoadConfig(m) \/ EmptyConfig(m) \/ FillConfig(m) \/ Lose(m)
    BY <1>16, <1>17 DEF OpenServer, WriteServerConfig, AbandonInit, KillServer, vars, LoadConfig,
                        EmptyConfig, FillConfig, Lose
  <1>18. QED
    BY <1>4, <1>5, <1>6, <1>7, <1>8, <1>9, <1>10, <1>12, <1>13, <1>14, <1>15, <1>17
    DEF Next, Fetch, Continue, Serve

\* A command not about to write moves, the file stays.
LEMMA KeptFrame ==
  ASSUME Sound, ConfigKept, detector' = detector, lost \subseteq lost',
         \/ term' = term
         \/ \E t \in Terminals : /\ term[t].at \notin {"opened", "emptied"}
                                 /\ \E c : term' = [term EXCEPT ![t] = c]
  PROVE  ConfigKept'
  <1>1. \A t \in Terminals : term[t].at \in {"opened", "emptied"} => term'[t] = term[t]
    BY DEF Sound, TypeOK
  <1>2. QED
    BY <1>1 DEF ConfigKept

LEMMA KeptStep ==
  ASSUME Sound, Holds, ConfigKept, [Next]_vars
  PROVE  ConfigKept'
  <1> USE DEF Sound
  <1>1. ASSUME NEW t \in Terminals, OpenFetched(t) \/ OpenConfig(t)
        PROVE  ConfigKept'
    <2>1. term[t] \in Command
      BY <1>1, Busy DEF OpenFetched, OpenConfig, Stages
    <2>2. PICK stage \in {"opened", "emptied"} : Goto(t, stage)
      BY <1>1 DEF OpenFetched, OpenConfig
    <2>3. [term[t] EXCEPT !.at = stage].at = stage
      BY <2>1 DEF Command
    <2>4. term'[t].at = stage
      BY <2>2, <2>3 DEF Goto, TypeOK
    <2>5. Empty # Garbled
      BY DEF Empty, Garbled
    <2>6. QED
      BY <1>1, <2>4, <2>5 DEF OpenFetched, OpenConfig, ConfigKept
  <1>2. ASSUME NEW t \in Terminals, WriteFetched(t)
        PROVE  ConfigKept'
    <2>1. term[t].copy \in Config \cup {Empty}
      BY <1>2, Busy DEF WriteFetched, Stages, Command
    <2>2. detector' = Garbled \/ detector' = term[t].copy
      BY <1>2, <2>1, WrittenType DEF WriteFetched
    <2>3. Empty # Garbled /\ Empty \notin Config /\ Garbled \notin Config
      BY FilesAssumption DEF Empty, Garbled
    <2>4. detector' = Empty => "null" \in lost'
      BY <1>2, <2>2, <2>3 DEF WriteFetched
    <2>5. detector' = Garbled => "mixed" \in lost'
      BY <1>2 DEF WriteFetched
    <2>6. QED
      BY <2>4, <2>5 DEF ConfigKept
  <1>3. ASSUME NEW t \in Terminals, WriteConfig(t)
        PROVE  ConfigKept'
    <2>1. term[t].copy \in Config
      BY <1>3 DEF WriteConfig, Holds
    <2>2. detector' = Garbled \/ detector' = term[t].copy
      BY <1>3, <2>1, WrittenType DEF WriteConfig
    <2>3. Empty # Garbled /\ Empty \notin Config
      BY FilesAssumption DEF Empty, Garbled
    <2>4. detector' = Garbled => "mixed" \in lost'
      BY <1>3 DEF WriteConfig
    <2>5. QED
      BY <2>1, <2>2, <2>3, <2>4 DEF ConfigKept
  <1>4. ASSUME NEW t \in Terminals, KillCommand(t)
        PROVE  ConfigKept'
    <2>1. CASE term[t].at \in {"opened", "emptied"}
      BY <1>4, <2>1 DEF KillCommand, ConfigKept
    <2>2. CASE term[t].at \notin {"opened", "emptied"}
      BY <1>4, <2>2, KeptFrame DEF KillCommand, AddEnds, NextProcess, End
    <2>3. QED
      BY <2>1, <2>2
  <1>5. ASSUME NEW t \in Terminals,
               \/ StartSync(t) \/ StartAddAll(t) \/ GetConfig(t) \/ Refused(t) \/ GetGarbled(t)
               \/ \E K \in {{}, Keyboards} : StartInit(t, K)
               \/ \E k \in Keyboards : StartAdd(t, k) \/ NextKeyboard(t, k)
               \/ \E f \in Paths : Press(t, f)
        PROVE  ConfigKept'
    <2>1. detector' = detector /\ lost' = lost
      BY <1>5 DEF StartSync, StartAddAll, GetConfig, Refused, GetGarbled, StartInit, StartAdd,
                  NextKeyboard, Press
    <2>2. term[t].at \notin {"opened", "emptied"}
      <3>1. term[t] = Idle \/ term[t].at \in {"asking", "next", "waiting"}
        BY <1>5 DEF StartSync, StartAddAll, GetConfig, Refused, GetGarbled, StartInit, StartAdd,
                    NextKeyboard, Press, Begin
      <3>2. QED
        BY <3>1 DEF Idle
    <2>3. \E c : term' = [term EXCEPT ![t] = c]
      BY <1>5, Zenon DEF StartSync, StartAddAll, GetConfig, Refused, GetGarbled, StartInit, StartAdd,
                         NextKeyboard, Press, End
    <2>4. QED
      BY <2>1, <2>2, <2>3, KeptFrame
  <1>6. ASSUME NEW t \in Terminals,
               \/ NoMoreKeyboards(t) \/ Unreadable(t) \/ ReadConfig(t) \/ PostFails(t)
               \/ GenerateDaemon(t) \/ HungEnds(t) \/ Timeout(t) \/ \E m \in Posts : PostUpdate(t, m)
        PROVE  ConfigKept'
    <2>1. detector' = detector /\ lost' = lost
      BY <1>6 DEF NoMoreKeyboards, Unreadable, ReadConfig, PostFails, GenerateDaemon, HungEnds, Timeout,
                  PostUpdate
    <2>2. (\E c : term' = [term EXCEPT ![t] = c]) /\ term[t].at \notin {"opened", "emptied"}
      BY <1>6 DEF NoMoreKeyboards, Unreadable, ReadConfig, PostFails, GenerateDaemon, HungEnds, Timeout,
                  PostUpdate, Goto, End, AddEnds, NextProcess
    <2>3. QED
      BY <2>1, <2>2, KeptFrame
  <1>7. ASSUME NEW m \in Posts, AnswerOK(m)
        PROVE  ConfigKept'
    <2> DEFINE t == post[m].from
    <2>1. post[m] \in Post /\ post[m] # NoPost
      BY <1>7, InService DEF AnswerOK
    <2>2. t # NoTerminal => t \in Terminals /\ term[t].at = "posted"
      BY <2>1 DEF Post, Waits
    <2>3. detector' = detector /\ lost' = lost
      BY <1>7 DEF AnswerOK
    <2>4. term' = term \/ (t # NoTerminal /\ \E c : term' = [term EXCEPT ![t] = c])
      BY <1>7 DEF AnswerOK, AddEnds, End, NextProcess
    <2>5. QED
      BY <2>2, <2>3, <2>4, KeptFrame
  <1>8. CASE \/ \E force \in BOOLEAN : OpenServer(force)
             \/ WriteServerConfig \/ AbandonInit \/ KillServer \/ UNCHANGED vars
             \/ \E m \in Posts : LoadConfig(m) \/ EmptyConfig(m) \/ FillConfig(m) \/ Lose(m)
    BY <1>8, KeptFrame DEF OpenServer, WriteServerConfig, AbandonInit, KillServer, vars, LoadConfig,
                           EmptyConfig, FillConfig, Lose
  <1>9. QED
    BY <1>1, <1>2, <1>3, <1>4, <1>5, <1>6, <1>7, <1>8 DEF Next, Fetch, Continue, Serve

\* The detector loses its config only by a kill between two writes, by the null
\* of an empty file of the server, or by two commands writing at once.
THEOREM ConfigStaysKept == Spec => []ConfigKept
  <1>1. Init => Holds /\ ConfigKept
    <2>1. Init => Holds
      BY DEF Init, Holds, Idle
    <2>2. Missing \notin {Empty, Garbled} /\ Fresh \notin {Empty, Garbled}
      BY FreshType, FilesAssumption DEF Missing, Empty, Garbled
    <2>3. Init => ConfigKept
      BY <2>2 DEF Init, ConfigKept
    <2>4. QED
      BY <2>1, <2>3
  <1>2. Sound /\ Holds /\ ConfigKept /\ [Next]_vars => (Sound /\ Holds /\ ConfigKept)'
    BY SoundStep, HoldsStep, KeptStep
  <1>3. QED
    BY <1>1, <1>2, SoundInit, PTL DEF Spec
-----------------------------------------------------------------------------
(* What an add that is alone has done so far: it waits with the path in    *)
(* its copy, then in the config of the detector, and then its request      *)
(* takes it to the server.                                                 *)

\* The request of command c, in a server whose config is x.
Carried(q, c, x) ==
  /\ q.kb = c.kb /\ q.path = c.path
  /\ q.at \in {"read", "emptied"} => q.copy \in Config /\ q.copy[c.kb] = c.path
  /\ q.at = "emptied" => x = Empty
  /\ q.at = "written" => x \in Config /\ x[c.kb] = c.path

\* Command c of terminal t, before its request and while it waits for the answer.
Ahead(c) ==
  /\ c.at \in {"read", "opened"} => c.copy \in Config /\ c.copy[c.kb] = c.path
  /\ c.at = "opened" => detector = Empty
  /\ c.at \in {"saved", "posted"} => detector \in Config /\ detector[c.kb] = c.path

Requested(t) ==
  /\ term[t].at \in {"read", "opened", "saved"} => \A m \in Posts : post[m] = NoPost
  /\ term[t].at = "posted" =>
       \A m \in Posts : post[m] # NoPost => post[m].from = t /\ Carried(post[m], term[t], server)

OthersIdle(t) == ~initing /\ \A u \in Terminals \ {t} : term[u] = Idle

Undisturbed ==
  alone # NoTerminal => OthersIdle(alone) /\ Ahead(term[alone]) /\ Requested(alone)

\* Stages at which Ahead and Requested say something.
Telling == {"read", "opened", "saved", "posted"}

LEMMA Silent ==
  ASSUME Sound, Undisturbed, NEW t \in Terminals, alone' = alone, initing' = initing,
         NEW c, c.at \notin Telling, term' = [term EXCEPT ![t] = c],
         term[t] # Idle
  PROVE  Undisturbed'
  <1>1. CASE alone = NoTerminal
    BY <1>1 DEF Undisturbed
  <1>2. CASE alone # NoTerminal
    <2>1. alone \in Terminals /\ OthersIdle(alone)
      BY <1>2 DEF Undisturbed, Sound, TypeOK
    <2>2. t = alone
      BY <2>1 DEF OthersIdle
    <2>3. term'[t] = c /\ \A u \in Terminals \ {t} : term'[u] = term[u]
      BY DEF Sound, TypeOK
    <2>4. QED
      BY <2>1, <2>2, <2>3 DEF Undisturbed, OthersIdle, Ahead, Requested, Telling
  <1>3. QED
    BY <1>1, <1>2

\* A command that goes on is the one that is alone, if one is.
LEMMA OnlyOne ==
  ASSUME Sound, Undisturbed, alone # NoTerminal, NEW t \in Terminals, term[t] # Idle
  PROVE  /\ t = alone /\ OthersIdle(t) /\ Ahead(term[t]) /\ Requested(t)
         /\ \A m \in Posts : post[m] # NoPost /\ term[t].at \in Telling => term[t].at = "posted"
  BY DEF Undisturbed, OthersIdle, Requested, Telling

\* The steps of an add from its reading of the config to its request.
LEMMA AddAlone ==
  ASSUME Sound, Undisturbed, NEW t \in Terminals,
         \/ ReadConfig(t) \/ OpenConfig(t) \/ WriteConfig(t) \/ \E m \in Posts : PostUpdate(t, m)
  PROVE  Undisturbed'
  <1> USE DEF Sound
  <1>1. term[t] \in Command /\ term[t] # Idle
    BY Busy DEF ReadConfig, OpenConfig, WriteConfig, PostUpdate, Stages
  <1> SUFFICES ASSUME alone' # NoTerminal
               PROVE  OthersIdle(alone)' /\ Ahead(term[alone])' /\ Requested(alone)'
    BY DEF Undisturbed
  <1> DEFINE at(stage) == [term[t] EXCEPT !.at = stage]
  <1>2. \A stage : /\ at(stage).at = stage /\ at(stage).kb = term[t].kb
                   /\ at(stage).path = term[t].path /\ at(stage).copy = term[t].copy
    BY <1>1 DEF Command
  <1>3. \A c : term' = [term EXCEPT ![t] = c] =>
                 term'[t] = c /\ \A u \in Terminals \ {t} : term'[u] = term[u]
    BY DEF TypeOK
  <1>4. CASE ReadConfig(t)
    <2> DEFINE x == WithPath(detector, term[t].kb, term[t].path)
    <2> DEFINE c == [term[t] EXCEPT !.at = "read", !.copy = x]
    <2>1. alone' = t /\ Quiet(t)
      BY <1>4 DEF ReadConfig
    <2>2. c.at = "read" /\ c.copy = x /\ c.kb = term[t].kb /\ c.path = term[t].path
      BY <1>1 DEF Command
    <2>3. x \in Config /\ x[term[t].kb] = term[t].path
      BY <1>1, <1>4, WithPathType DEF ReadConfig, Command, WithPath, Config
    <2>4. term'[t] = c /\ \A u \in Terminals \ {t} : term'[u] = term[u]
      <3>1. term' = [term EXCEPT ![t] = c]
        BY <1>4 DEF ReadConfig
      <3> HIDE DEF c
      <3>2. QED
        BY <1>3, <3>1
    <2>5. post' = post /\ initing' = initing
      BY <1>4 DEF ReadConfig
    <2> HIDE DEF x, c
    <2>6. QED
      BY <2>1, <2>2, <2>3, <2>4, <2>5 DEF Quiet, OthersIdle, Ahead, Requested
  <1>5. CASE OpenConfig(t) \/ WriteConfig(t)
    <2>1. PICK stage \in {"opened", "saved"} :
            /\ Goto(t, stage)
            /\ term[t].at = IF stage = "opened" THEN "read" ELSE "opened"
            /\ IF stage = "opened" THEN detector' = Empty
                                   ELSE detector' \in Written(detector, term[t].copy)
      BY <1>5 DEF OpenConfig, WriteConfig
    <2>2. UNCHANGED <<server, initing, post, alone>>
      BY <1>5 DEF OpenConfig, WriteConfig
    <2>3. t = alone /\ OthersIdle(t) /\ Ahead(term[t]) /\ Requested(t)
      BY <1>1, <2>2, OnlyOne
    <2>4. term'[t] = at(stage) /\ \A u \in Terminals \ {t} : term'[u] = term[u]
      BY <1>3, <2>1 DEF Goto
    <2>5. stage = "saved" => detector' = term[t].copy
      BY <2>1, <2>3 DEF Ahead, Written
    <2> HIDE DEF at
    <2>6. QED
      BY <1>2, <2>1, <2>2, <2>3, <2>4, <2>5 DEF OthersIdle, Ahead, Requested
  <1>6. ASSUME NEW m \in Posts, PostUpdate(t, m)
        PROVE  OthersIdle(alone)' /\ Ahead(term[alone])' /\ Requested(alone)'
    <2> DEFINE new == [at |-> "sent", from |-> t, kb |-> term[t].kb, path |-> term[t].path,
                       copy |-> Fresh]
    <2>1. /\ term[t].at = "saved" /\ term' = [term EXCEPT ![t] = at("posted")]
          /\ post' = [post EXCEPT ![m] = new]
          /\ UNCHANGED <<server, detector, initing, alone>>
      BY <1>6 DEF PostUpdate, Goto
    <2>2. t = alone /\ OthersIdle(t) /\ Ahead(term[t]) /\ Requested(t)
      BY <1>1, <2>1, OnlyOne
    <2>3. term'[t] = at("posted") /\ \A u \in Terminals \ {t} : term'[u] = term[u]
      BY <1>3, <2>1
    <2>4. \A n \in Posts : post'[n] # NoPost => n = m /\ post'[n] = new
      BY <2>1, <2>2 DEF TypeOK, Requested
    <2>5. /\ new.at = "sent" /\ new.from = t /\ new.kb = term[t].kb /\ new.path = term[t].path
      OBVIOUS
    <2> HIDE DEF at, new
    <2>6. Carried(new, at("posted"), server)
      BY <1>2, <2>5 DEF Carried
    <2>7. Requested(alone)'
      BY <1>2, <2>1, <2>2, <2>3, <2>4, <2>5, <2>6 DEF Requested
    <2>8. QED
      BY <1>2, <2>1, <2>2, <2>3, <2>7 DEF OthersIdle, Ahead
  <1>7. QED
    BY <1>4, <1>5, <1>6

\* The server reads, empties and writes its file for the request, or the
\* request is over.
LEMMA ServeAlone ==
  ASSUME Sound, Undisturbed, NEW m \in Posts,
         LoadConfig(m) \/ EmptyConfig(m) \/ FillConfig(m) \/ Lose(m)
  PROVE  Undisturbed'
  <1> USE DEF Sound
  <1>1. post[m] \in Post /\ post[m] # NoPost
    BY InService DEF LoadConfig, EmptyConfig, FillConfig, Lose
  <1>2. /\ UNCHANGED <<detector, initing, term, alone>>
        /\ \A n \in Posts \ {m} : post'[n] = post[n]
    BY DEF LoadConfig, EmptyConfig, FillConfig, Lose, TypeOK
  <1> SUFFICES ASSUME alone # NoTerminal, term[alone].at \in Telling
               PROVE  Requested(alone)'
    BY <1>2 DEF Undisturbed, OthersIdle, Ahead, Requested, Telling
  <1> DEFINE t == alone
             c == term[t]
  <1>3. t \in Terminals /\ Requested(t) /\ c.at = "posted"
    BY <1>1 DEF TypeOK, Undisturbed, Requested, Telling
  <1>4. post[m].from = t /\ Carried(post[m], c, server)
    BY <1>1, <1>3 DEF Requested
  <1>5. \A n \in Posts \ {m} : post[n] = NoPost
    BY <1>1, <1>3, <1>4, NamesAssumption DEF Requested, Waits
  <1>6. post'[m] # NoPost => post'[m].from = t /\ Carried(post'[m], c, server')
    <2>1. CASE LoadConfig(m)
      <3> SUFFICES ASSUME server \in Config
                   PROVE  post'[m].from = t /\ Carried(post'[m], c, server)
        BY <2>1 DEF LoadConfig, TypeOK
      <3> DEFINE x == WithPath(server, post[m].kb, post[m].path)
      <3>1. post'[m] = [post[m] EXCEPT !.at = "read", !.copy = x]
        BY <2>1 DEF LoadConfig, TypeOK
      <3>2. /\ post'[m].at = "read" /\ post'[m].copy = x /\ post'[m].from = post[m].from
            /\ post'[m].kb = post[m].kb /\ post'[m].path = post[m].path
        BY <1>1, <3>1 DEF Post
      <3>3. x \in Config /\ x[post[m].kb] = post[m].path
        BY <1>1, WithPathType DEF Post, WithPath, Config
      <3> HIDE DEF x
      <3>4. QED
        BY <1>4, <3>2, <3>3 DEF Carried
    <2>2. CASE EmptyConfig(m) \/ FillConfig(m)
      <3>1. PICK stage \in {"emptied", "written"} :
              /\ post'[m] = [post[m] EXCEPT !.at = stage]
              /\ post[m].at = IF stage = "emptied" THEN "read" ELSE "emptied"
              /\ IF stage = "emptied" THEN server' = Empty
                                      ELSE server' \in Written(server, post[m].copy)
        BY <2>2 DEF EmptyConfig, FillConfig, TypeOK
      <3>2. /\ post'[m].at = stage /\ post'[m].copy = post[m].copy /\ post'[m].from = post[m].from
            /\ post'[m].kb = post[m].kb /\ post'[m].path = post[m].path
        BY <1>1, <3>1 DEF Post
      <3>3. stage = "written" => server' = post[m].copy
        BY <1>4, <3>1 DEF Carried, Written
      <3>4. QED
        BY <1>4, <3>1, <3>2, <3>3 DEF Carried
    <2>3. CASE Lose(m)
      BY <2>3 DEF Lose, TypeOK
    <2>4. QED
      BY <2>1, <2>2, <2>3
  <1>7. QED
    BY <1>2, <1>3, <1>5, <1>6 DEF Requested

LEMMA UndisturbedStep ==
  ASSUME Sound, Undisturbed, [Next]_vars
  PROVE  Undisturbed'
  <1> USE DEF Sound
  <1>1. ASSUME NEW force \in BOOLEAN, OpenServer(force)
        PROVE  Undisturbed'
    BY <1>1 DEF OpenServer, Undisturbed
  <1>2. CASE WriteServerConfig \/ AbandonInit
    <2>1. initing /\ alone' = alone
      BY <1>2 DEF WriteServerConfig, AbandonInit
    <2>2. QED
      BY <2>1 DEF Undisturbed, OthersIdle
  <1>3. ASSUME NEW t \in Terminals, NEW k, NEW K,
               StartSync(t) \/ StartInit(t, K) \/ StartAdd(t, k) \/ StartAddAll(t)
        PROVE  Undisturbed'
    BY <1>3 DEF StartSync, StartInit, StartAdd, StartAddAll, Begin, Undisturbed
  <1>4. ASSUME NEW t \in Terminals, term[t].at \in Stages, alone' = alone, initing' = initing,
               \/ End(t) \/ NextProcess(t)
               \/ \E stage \in Stages : Goto(t, stage) /\ stage \notin Telling
        PROVE  Undisturbed'
    <2>1. term[t] \in Command /\ term[t] # Idle
      BY <1>4, Busy
    <2>2. PICK c : term' = [term EXCEPT ![t] = c] /\ c.at \notin Telling
      <3>1. Idle.at \notin Telling
        BY DEF Idle, Telling
      <3>2. CommandAt("next", term[t].op, term[t].todo).at \notin Telling
        BY DEF CommandAt, Telling
      <3>3. \A stage \in Stages : [term[t] EXCEPT !.at = stage].at = stage
        BY <2>1 DEF Command
      <3>4. CASE End(t)
        BY <3>1, <3>4 DEF End
      <3>5. CASE NextProcess(t)
        BY <3>2, <3>5 DEF NextProcess
      <3>6. ASSUME NEW stage \in Stages, Goto(t, stage), stage \notin Telling
            PROVE  term' = [term EXCEPT ![t] = [term[t] EXCEPT !.at = stage]]
        BY <3>6 DEF Goto
      <3>7. QED
        BY <1>4, <3>3, <3>4, <3>5, <3>6
    <2>3. QED
      BY <1>4, <2>1, <2>2, Silent
  <1>5. ASSUME NEW t \in Terminals,
               \/ NoMoreKeyboards(t) \/ Unreadable(t) \/ Refused(t) \/ GetGarbled(t)
               \/ OpenFetched(t) \/ WriteFetched(t) \/ PostFails(t) \/ GenerateDaemon(t)
               \/ HungEnds(t) \/ Timeout(t)
        PROVE  Undisturbed'
    <2>1. term[t].at \in Stages /\ alone' = alone /\ initing' = initing
      BY <1>5 DEF NoMoreKeyboards, Unreadable, Refused, GetGarbled, OpenFetched, WriteFetched,
                  PostFails, GenerateDaemon, HungEnds, Timeout, Stages
    <2>2. \/ End(t) \/ NextProcess(t)
          \/ \E stage \in Stages : Goto(t, stage) /\ stage \notin Telling
      BY <1>5 DEF NoMoreKeyboards, Unreadable, Refused, GetGarbled, OpenFetched, WriteFetched,
                  PostFails, GenerateDaemon, HungEnds, Timeout, AddEnds, Stages, Telling
    <2>3. QED
      BY <1>4, <2>1, <2>2
  <1>6. ASSUME NEW t \in Terminals, KillCommand(t)
        PROVE  Undisturbed'
    <2>1. term[t].at \in Stages
      BY <1>6, IdleStage DEF KillCommand, TypeOK, Command
    <2>2. alone' = alone /\ initing' = initing /\ (End(t) \/ NextProcess(t))
      BY <1>6 DEF KillCommand, AddEnds
    <2>3. QED
      BY <1>4, <2>1, <2>2
  <1>7. ASSUME NEW t \in Terminals, NEW k \in Keyboards, NextKeyboard(t, k)
        PROVE  Undisturbed'
    <2>1. term[t] \in Command /\ term[t] # Idle
      BY <1>7, Busy DEF NextKeyboard, Stages
    <2> DEFINE at == IF detector \in Config THEN "waiting" ELSE "next"
    <2> DEFINE c == [term[t] EXCEPT !.at = at, !.kb = k, !.todo = @ \ {k}]
    <2>2. c.at \notin Telling
      BY <2>1 DEF Command, Telling
    <2>3. term' = [term EXCEPT ![t] = c] /\ alone' = alone /\ initing' = initing
      BY <1>7 DEF NextKeyboard
    <2>4. QED
      BY <2>1, <2>2, <2>3, Silent
  <1>8. ASSUME NEW t \in Terminals, NEW f \in Paths, Press(t, f)
        PROVE  Undisturbed'
    <2>1. term[t] \in Command /\ term[t] # Idle
      BY <1>8, Busy DEF Press, Stages
    <2> DEFINE c == [term[t] EXCEPT !.at = "pressed", !.path = f]
    <2>2. c.at \notin Telling
      BY <2>1 DEF Command, Telling
    <2>3. term' = [term EXCEPT ![t] = c] /\ alone' = alone /\ initing' = initing
      BY <1>8 DEF Press
    <2>4. QED
      BY <2>1, <2>2, <2>3, Silent
  <1>9. ASSUME NEW t \in Terminals, GetConfig(t)
        PROVE  Undisturbed'
    <2>1. term[t] \in Command /\ term[t] # Idle
      BY <1>9, Busy DEF GetConfig, Stages
    <2> DEFINE c == [term[t] EXCEPT !.at = "answered", !.copy = server]
    <2>2. c.at \notin Telling
      BY <2>1 DEF Command, Telling
    <2>3. term' = [term EXCEPT ![t] = c] /\ alone' = alone /\ initing' = initing
      BY <1>9 DEF GetConfig
    <2>4. QED
      BY <2>1, <2>2, <2>3, Silent
  <1>10. ASSUME NEW t \in Terminals,
                \/ ReadConfig(t) \/ OpenConfig(t) \/ WriteConfig(t)
                \/ \E m \in Posts : PostUpdate(t, m)
         PROVE  Undisturbed'
    BY <1>10, AddAlone
  <1>11. ASSUME NEW m \in Posts, LoadConfig(m) \/ EmptyConfig(m) \/ FillConfig(m) \/ Lose(m)
         PROVE  Undisturbed'
    BY <1>11, ServeAlone
  <1>12. ASSUME NEW m \in Posts, AnswerOK(m)
         PROVE  Undisturbed'
    <2> DEFINE t == post[m].from
    <2>1. post[m] \in Post /\ post[m] # NoPost /\ alone' = alone /\ initing' = initing
      BY <1>12, InService DEF AnswerOK
    <2>2. CASE t = NoTerminal
      <3>1. \A n \in Posts : post'[n] = post[n] \/ post'[n] = NoPost
        BY <1>12 DEF AnswerOK, TypeOK
      <3>2. UNCHANGED <<term, server, detector>>
        BY <1>12, <2>2 DEF AnswerOK
      <3>3. QED
        BY <2>1, <3>1, <3>2 DEF Undisturbed, OthersIdle, Ahead, Requested
    <2>3. CASE t # NoTerminal
      <3>1. t \in Terminals /\ term[t].at \in Stages
        BY <2>1, <2>3 DEF Post, Waits, Stages
      <3>2. End(t) \/ NextProcess(t)
        BY <1>12, <2>3 DEF AnswerOK, AddEnds
      <3>3. QED
        BY <1>4, <2>1, <3>1, <3>2
    <2>4. QED
      BY <2>2, <2>3
  <1>13. CASE KillServer
    BY <1>13 DEF KillServer, Undisturbed, OthersIdle, Ahead, Requested
  <1>14. CASE UNCHANGED vars
    BY <1>14 DEF vars, Undisturbed, OthersIdle, Ahead, Requested
  <1>15. QED
    BY <1>1, <1>2, <1>3, <1>5, <1>6, <1>7, <1>8, <1>9, <1>10, <1>11, <1>12, <1>13, <1>14
    DEF Next, Fetch, Continue, Serve

\* The answer to an add beside which nothing has gone on since it read the
\* config comes when both copies have its path, for any number of terminals,
\* keyboards and requests, whatever was killed, lost or left half-done before.
THEOREM AnsweredIsAdded == Spec => AddedOnBothSides
  <1> DEFINE Told == \A t \in Terminals, m \in Posts :
               AnswerOK(m) /\ post[m].from = t /\ alone = t =>
                 \A x \in {server, detector} :
                   x \in Config /\ x[term[t].kb] = term[t].path
  <1>1. Init => Undisturbed
    BY DEF Init, Undisturbed
  <1>2. Sound /\ Undisturbed /\ [Next]_vars => (Sound /\ Undisturbed)'
    BY SoundStep, UndisturbedStep
  <1>3. Sound /\ Undisturbed /\ [Next]_vars => [Told]_vars
    <2> SUFFICES ASSUME Sound, Undisturbed, NEW t \in Terminals, NEW m \in Posts,
                        AnswerOK(m), post[m].from = t, alone = t
                 PROVE  \A x \in {server, detector} : x \in Config /\ x[term[t].kb] = term[t].path
      OBVIOUS
    <2>1. post[m].at = "written" /\ post[m] # NoPost
      BY DEF AnswerOK, NoPost
    <2>2. t # NoTerminal /\ term[t].at = "posted"
      BY <2>1, NamesAssumption DEF Sound, Waits
    <2>3. Ahead(term[t]) /\ Requested(t)
      BY <2>2 DEF Undisturbed
    <2>4. Carried(post[m], term[t], server)
      BY <2>1, <2>2, <2>3 DEF Requested
    <2>5. QED
      BY <2>1, <2>2, <2>3, <2>4 DEF Ahead, Carried
  <1>4. QED
    BY <1>1, <1>2, <1>3, SoundInit, PTL DEF Spec, AddedOnBothSides
=============================================================================
