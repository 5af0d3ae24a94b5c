----------------------------- MODULE HotkeyRuns -----------------------------
(***************************************************************************)
(* From a key to a script, with the legacy server: the process of each     *)
(* keyboard on the Pi posts the events of its hotkey one by one, with a    *)
(* timeout; the server answers, runs the hotkey without waiting for the    *)
(* run, and is blocked while AutoHotkey has its thread.                    *)
(*                                                                         *)
(* A keyboard has one hotkey.  Its events are numbered: the odd ones are   *)
(* presses, the even ones releases.                                        *)
(***************************************************************************)
EXTENDS Naturals, Sequences, Functions

CONSTANTS
  Keyboards, \* keyboards of the detector
  Type,      \* keyboard -> the type its process knows its hotkey by
  Entries,   \* what the config of the server may say of a hotkey
  MaxEvents, \* bound on the events of a keyboard
  MaxEdits   \* bound on the edits of the config

\* The config of the server may have lost the hotkey.
NoEntry == [entry |-> "none"]

\* A hotkey with a function for every event, or one for each of some; and
\* whether its functions have names run_hotkey takes.
ASSUME EntriesAssumption ==
  /\ NoEntry \notin Entries
  /\ \A e \in Entries : e.multi \in BOOLEAN /\ e.valid \in BOOLEAN /\ e.parts \subseteq {"down", "up"}
ASSUME TypeAssumption == Type \in [Keyboards -> {"down", "up", "multi"}]
ASSUME BoundsAssumption == MaxEvents \in Nat /\ MaxEdits \in Nat

VARIABLES
  read,     \* number of events the process of each keyboard has read
  watcher,  \* is the process reading, or waiting for the server?
  at,       \* how far the request of each event is
  got,      \* the version of the config it was served from
  posted,   \* history: the version when it was posted
  config,   \* versions of the config: what each says of every hotkey
  dll,      \* is the library of AutoHotkey in the config, and can it be loaded?
  ran       \* history: the events of each keyboard, as their scripts started

vars == <<read, watcher, at, got, posted, config, dll, ran>>
pi == <<read, watcher>>

-----------------------------------------------------------------------------
Events == 1 .. MaxEvents
Part(i) == IF i % 2 = 1 THEN "down" ELSE "up"
Current == Len(config)

Stages == {"none", "sent", "fetched", "access", "software", "script", "over"}

TypeOK ==
  /\ read \in [Keyboards -> 0 .. MaxEvents]
  /\ watcher \in [Keyboards -> {"reading", "posting"}]
  /\ at \in [Keyboards -> [Events -> Stages]]
  /\ got \in [Keyboards -> [Events -> 0 .. Current]]
  /\ posted \in [Keyboards -> [Events -> 0 .. Current]]
  /\ config \in Seq([Keyboards -> Entries \cup {NoEntry}])
  /\ dll \in {"there", "missing"}
  /\ ran \in [Keyboards -> Seq(Events)]

Init ==
  /\ read = [k \in Keyboards |-> 0]
  /\ watcher = [k \in Keyboards |-> "reading"]
  /\ at = [k \in Keyboards |-> [i \in Events |-> "none"]]
  /\ got = [k \in Keyboards |-> [i \in Events |-> 0]]
  /\ posted = [k \in Keyboards |-> [i \in Events |-> 0]]
  /\ \E e \in Entries : config = <<[k \in Keyboards |-> e]>>
  /\ dll \in {"there", "missing"}
  /\ ran = [k \in Keyboards |-> <<>>]

\* One script has the thread of the server, and Node runs nothing.
Free == \A k \in Keyboards, i \in Events : at[k][i] # "script"

Goto(k, i, stage) == at' = [at EXCEPT ![k][i] = stage]

-----------------------------------------------------------------------------
(* The keyboard and its process on the Pi.                                 *)

Posts(k, i) == Type[k] \in {"multi", Part(i)}

\* Slip: nothing catches the error of a post that finds no server.
ReadEventUnguarded(k, connected) ==
  /\ watcher[k] = "reading"
  /\ read[k] + 1 \in Events
  /\ read' = [read EXCEPT ![k] = @ + 1]
  /\ watcher' = [watcher EXCEPT ![k] = IF ~Posts(k, read'[k]) THEN @
                                      ELSE IF connected THEN "posting" ELSE "ended"]
  /\ UNCHANGED <<at, got, posted, config, dll, ran>>

\* watch_keyboard, for the next event of the hotkey, the kernel keeping those
\* that come meanwhile; the post may find no server.
ReadEvent(k, connected) ==
  LET i == read[k] + 1 IN
  /\ watcher[k] = "reading"
  /\ i \in Events
  /\ read' = [read EXCEPT ![k] = i]
  /\ IF Posts(k, i) /\ connected
     THEN /\ watcher' = [watcher EXCEPT ![k] = "posting"]
          /\ Goto(k, i, "sent")
          /\ posted' = [posted EXCEPT ![k][i] = Current]
     ELSE UNCHANGED <<watcher, at, posted>>
  /\ UNCHANGED <<got, config, dll, ran>>

\* Slip: a post that times out is sent again.
TimeoutRetrying(k) ==
  /\ watcher[k] = "posting"
  /\ at' = [at EXCEPT ![k][read[k]] = IF @ = "over" THEN "sent" ELSE @]
  /\ UNCHANGED <<pi, got, posted, config, dll, ran>>

\* Slip: the timeout covers the connection, and not the answer.
TimeoutConnecting(k) ==
  /\ watcher[k] = "posting"
  /\ at[k][read[k]] = "sent"
  /\ watcher' = [watcher EXCEPT ![k] = "reading"]
  /\ UNCHANGED <<read, at, got, posted, config, dll, ran>>

\* After two seconds: the server may still run the hotkey.
Timeout(k) ==
  /\ watcher[k] = "posting"
  /\ watcher' = [watcher EXCEPT ![k] = "reading"]
  /\ UNCHANGED <<read, at, got, posted, config, dll, ran>>

\* The connection breaks before the server has the request.
Lose(k, i) ==
  /\ at[k][i] = "sent"
  /\ Goto(k, i, "over")
  /\ UNCHANGED <<pi, got, posted, config, dll, ran>>

-----------------------------------------------------------------------------
(* The server: POST /post/trigger and run_hotkey.                          *)

\* The user, in config.yml.
EditConfig(k, e) ==
  /\ Current <= MaxEdits
  /\ config' = Append(config, [config[Current] EXCEPT ![k] = e])
  /\ UNCHANGED <<pi, at, got, posted, dll, ran>>

\* Slip: the config is the one read for the first request.
FetchCached(k, i) ==
  /\ at[k][i] = "sent"
  /\ Goto(k, i, "fetched")
  /\ got' = [got EXCEPT ![k][i] = 1]
  /\ UNCHANGED <<pi, posted, config, dll, ran>>

\* config_loader: a read, which goes on while a script runs.
Fetch(k, i) ==
  /\ at[k][i] = "sent"
  /\ Goto(k, i, "fetched")
  /\ got' = [got EXCEPT ![k][i] = Current]
  /\ UNCHANGED <<pi, posted, config, dll, ran>>

Entry(k, i) == config[got[k][i]][k]
HasFunction(e, i) == e # NoEntry /\ (e.multi => Part(i) \in e.parts)

\* The process goes on, unless it has already, or misses the answer.
Answer(k, i, delivered) ==
  watcher' = IF delivered /\ watcher[k] = "posting" /\ read[k] = i
             THEN [watcher EXCEPT ![k] = "reading"] ELSE watcher

\* Slip: nothing is run for a process that does not wait any more.
RespondWaited(k, i, delivered) ==
  /\ Free
  /\ at[k][i] = "fetched"
  /\ Goto(k, i, IF HasFunction(Entry(k, i), i) /\ watcher[k] = "posting" /\ read[k] = i
                THEN "access" ELSE "over")
  /\ Answer(k, i, delivered)
  /\ UNCHANGED <<read, got, posted, config, dll, ran>>

\* 500 for a hotkey that is not in the config, 404 for one without a function
\* for the event, and 200 for one whose run has been started.
Respond(k, i, delivered) ==
  /\ Free
  /\ at[k][i] = "fetched"
  /\ Goto(k, i, IF HasFunction(Entry(k, i), i) THEN "access" ELSE "over")
  /\ Answer(k, i, delivered)
  /\ UNCHANGED <<read, got, posted, config, dll, ran>>

\* run_hotkey: a file that cannot be read is only logged, a function without a
\* proper name is not run.
Access(k, i) ==
  /\ Free
  /\ at[k][i] = "access"
  /\ Goto(k, i, IF Entry(k, i).valid THEN "software" ELSE "over")
  /\ UNCHANGED <<pi, got, posted, config, dll, ran>>

\* AHK_NAPI throws the error of a library that cannot be loaded, and run_hotkey
\* logs it, as it does for a config without the library.
LoadLibrary == dll = "there"

\* The library runs the script on the thread of the server.
RunText(k, i) ==
  /\ Free
  /\ at[k][i] = "software"
  /\ IF LoadLibrary
     THEN Goto(k, i, "script") /\ ran' = [ran EXCEPT ![k] = Append(@, i)]
     ELSE Goto(k, i, "over") /\ UNCHANGED ran
  /\ UNCHANGED <<pi, got, posted, config, dll>>

EndScript(k, i) ==
  /\ at[k][i] = "script"
  /\ Goto(k, i, "over")
  /\ UNCHANGED <<pi, got, posted, config, dll, ran>>

-----------------------------------------------------------------------------
User == \E k \in Keyboards, e \in Entries \cup {NoEntry} : EditConfig(k, e)

Serve(k, i) == \/ Fetch(k, i) \/ Access(k, i) \/ RunText(k, i) \/ EndScript(k, i)
               \/ \E delivered \in BOOLEAN : Respond(k, i, delivered)

Next ==
  \/ User
  \/ \E k \in Keyboards : Timeout(k) \/ \E connected \in BOOLEAN : ReadEvent(k, connected)
  \/ \E k \in Keyboards, i \in Events : Lose(k, i) \/ Serve(k, i)

Spec == Init /\ [][Next]_vars

\* The process of a keyboard has its timeouts; Node does not stop while there
\* is something to do; scripts end.
FairSpec ==
  /\ Spec
  /\ \A k \in Keyboards : WF_vars(Timeout(k))
  /\ WF_vars(\E k \in Keyboards, i \in Events : Serve(k, i))

-----------------------------------------------------------------------------
\* A key that is pressed once runs its hotkey once at most, although posts time
\* out while the server is blocked, and answers are lost.
RunOnce == \A k \in Keyboards : IsInjective(ran[k])

\* What is run is a function with a proper name, of this event, that the config
\* of the server had for the hotkey after the event was posted, whatever the
\* process on the Pi knows of the hotkey.
RunsWhatConfigSaid ==
  \A k \in Keyboards : \A i \in Range(ran[k]) :
    /\ got[k][i] >= posted[k][i]
    /\ HasFunction(Entry(k, i), i) /\ Entry(k, i).valid

\* A hotkey the server has begun to serve is run in the end, if its function can
\* be, although its process has given up: "the hotkey may still execute after the
\* server has finished running the hotkeys it is currently running"
\* (watch_keyboard.py:230).
ServedIsRun ==
  <>[]\A k \in Keyboards, i \in Events :
        (/\ got[k][i] # 0 /\ dll = "there"
         /\ HasFunction(Entry(k, i), i) /\ Entry(k, i).valid) => i \in Range(ran[k])

\* Whatever becomes of a post, its process goes on to the next key.
KeyboardsKeepReading == \A k \in Keyboards : []<>(watcher[k] = "reading")

=============================================================================
