-------------------------- MODULE KeyboardWatcher --------------------------
(***************************************************************************)
(* The hotkey watcher of the Raspberry Pi detector (class Keyboard of      *)
(* detector-pi): it reads the events of one keyboard, keeps the candidate  *)
(* spellings of the keys that are down, and posts the hotkeys it           *)
(* recognises to the server.                                               *)
(*                                                                         *)
(* A spelling is a sequence of characters, as Python strings are: the code *)
(* compares lengths and sets of characters and removes substrings, so the  *)
(* characters are what matters.  The post is synchronous and its errors    *)
(* are only logged, so it appears as the message sent.                     *)
(***************************************************************************)
EXTENDS Naturals, Sequences, SequencesExt, FiniteSets

Char == STRING
Text == Seq(Char) \* a string of the code, character by character

\* The brackets of a name are characters; the provers know nothing of STRING.
ASSUME BracketsAssumption == {"(", ")"} \subseteq Char

CONSTANT Keyboards \* keyboards, with the table of spellings and the config of each

\* keys     the keys of the keyboard
\* none     those that the table maps to None
\* table    key -> its spellings; several when `several`, as for modifiers
\* maps     key -> the name the config gives it
\* hotkeys  the hotkeys of the config, in their order: spelling and form
ASSUME KeyboardsAssumption ==
  \A kb \in Keyboards :
    /\ DOMAIN kb.table \cup kb.none \subseteq kb.keys
    /\ DOMAIN kb.maps \subseteq DOMAIN kb.table \cup kb.none
    /\ kb.table \in [DOMAIN kb.table -> [several : BOOLEAN, spellings : Seq(Text) \ {<<>>}]]
    /\ \A k \in DOMAIN kb.table :
         ~kb.table[k].several => Len(kb.table[k].spellings) = 1
    /\ kb.maps \in [DOMAIN kb.maps -> Text]
    /\ kb.hotkeys \in
         Seq([spelling : Text, form : {"function name", "down", "up", "multi", "func", "funcs"}])

VARIABLES
  keyboard, \* the keyboard watched
  held,    \* the keys that are physically down
  running, \* is the watcher process alive?
  keys,    \* self.keys: the candidate spellings
  sent,    \* the message posted for the last event, or NoMessage
  missed   \* history: held keys that went down before the watcher started

vars == <<keyboard, held, running, keys, sent, missed>>

-----------------------------------------------------------------------------
Keys == keyboard.keys
Hotkeys == keyboard.hotkeys

\* apply_mappings: a key with a name is spelled by it, in brackets.
MapOf(kb) == [k \in DOMAIN kb.table \cup DOMAIN kb.maps |->
  IF k \in DOMAIN kb.maps
  THEN [several |-> FALSE, spellings |-> << <<"(">> \o kb.maps[k] \o <<")">> >>]
  ELSE kb.table[k]]

KeyMap == MapOf(keyboard)

\* Keys without a spelling: those that stay None, those with codes beyond the table.
Unspelled == Keys \ DOMAIN KeyMap
Beyond == Unspelled \ keyboard.none

Spellings == UNION {ToSet(KeyMap[k].spellings) : k \in DOMAIN KeyMap}
Alphabet == UNION {ToSet(s) : s \in Spellings}

NoMessage == [hotkey |-> 0, value |-> 0]
Message == [hotkey : DOMAIN Hotkeys, value : {0, 1}]

\* There is always a candidate: with none, no key could be added again.
TypeOK ==
  /\ keyboard \in Keyboards
  /\ held \subseteq Keys
  /\ running \in BOOLEAN
  /\ keys \in Seq(Seq(Alphabet)) \ {<<>>}
  /\ sent \in Message \cup {NoMessage}
  /\ missed \subseteq held

Init ==
  /\ keyboard \in Keyboards
  /\ held = {}
  /\ running = FALSE
  /\ keys = << <<>> >>
  /\ sent = NoMessage
  /\ missed = {}

-----------------------------------------------------------------------------
\* standardise_hotkeys: a bare function name, or a func that is a string, makes
\* a "down" hotkey; a func that is an object a "multi" one.
Type(h) == CASE h.form \in {"function name", "func"} -> "down"
             [] h.form = "funcs"                     -> "multi"
             [] OTHER                                -> h.form

\* s stands in combo at position i.
StandsAt(s, combo, i) ==
  /\ i + Len(s) <= Len(combo) + 1
  /\ \A j \in 1 .. Len(s) : combo[i + j - 1] = s[j]

\* combo.find(s) >= 0
Occurs(s, combo) == \E i \in 1 .. Len(combo) + 1 : StandsAt(s, combo, i)

\* combo.replace(s, ""): the occurrences of s, from the left.
Without(combo, s) ==
  LET from[i \in 1 .. Len(combo) + 1] ==
        IF i > Len(combo) THEN <<>>
        ELSE IF s # <<>> /\ StandsAt(s, combo, i) THEN from[i + Len(s)]
        ELSE <<combo[i]>> \o from[i + 1]
  IN from[1]

\* change_key_state(code, 1): every candidate, followed by every spelling.
Press(combos, k) ==
  FlattenSeq([i \in DOMAIN combos |->
    [j \in DOMAIN KeyMap[k].spellings |-> combos[i] \o KeyMap[k].spellings[j]]])

\* One round of the loop over the spellings of a modifier: candidates without
\* the spelling are dropped, and so are those it leaves empty.
Strip(combos, s) ==
  LET left[i \in 0 .. Len(combos)] ==
        IF i = 0 THEN <<>>
        ELSE IF Occurs(s, combos[i]) /\ Without(combos[i], s) # <<>>
          THEN Append(left[i - 1], Without(combos[i], s))
        ELSE left[i - 1]
  IN left[Len(combos)]

StripAll(combos, spellings) ==
  LET after[j \in 0 .. Len(spellings)] ==
        IF j = 0 THEN combos ELSE Strip(after[j - 1], spellings[j])
  IN after[Len(spellings)]

WithoutEach(combos, s) == [i \in DOMAIN combos |-> Without(combos[i], s)]

\* Slips: no candidate is put back; the last key of the candidate is taken off.
ReleaseAll(combos, k) ==
  IF KeyMap[k].several THEN StripAll(combos, KeyMap[k].spellings)
  ELSE WithoutEach(combos, KeyMap[k].spellings[1])

ReleaseLast(combos, k) ==
  [i \in DOMAIN combos |-> IF combos[i] = <<>> THEN <<>> ELSE Front(combos[i])]

\* change_key_state(code, 0)
Release(combos, k) ==
  IF ~KeyMap[k].several THEN WithoutEach(combos, KeyMap[k].spellings[1])
  ELSE LET left == StripAll(combos, KeyMap[k].spellings)
       IN IF left = <<>> THEN << <<>> >> ELSE left

\* Slip: one common character is enough.
MatchesLoosely(h, combo) ==
  Len(h) = Len(combo) /\ (h = combo \/ ToSet(h) \cap ToSet(combo) # {})

\* The two steps of check_for_hotkey.
Matches(h, combo) ==
  /\ Len(h) = Len(combo)
  /\ \/ ToSet(h) \subseteq ToSet(combo)
     \/ ToSet(combo) \subseteq ToSet(h)

\* The first candidate that matches, and the first hotkey it matches; 0 if none.
CheckForHotkey(combos) ==
  LET hits == {x \in (DOMAIN combos) \X (DOMAIN Hotkeys) :
                 Matches(Hotkeys[x[2]].spelling, combos[x[1]])}
  IN IF hits = {} THEN 0
     ELSE (CHOOSE x \in hits : \A y \in hits :
             x[1] < y[1] \/ (x[1] = y[1] /\ x[2] <= y[2]))[2]

\* What is posted for an event of the given value (1 down, 0 up).
Post(combos, value) ==
  LET h == CheckForHotkey(combos) IN
  IF h # 0 /\ \/ Type(Hotkeys[h]) = "down" /\ value = 1
              \/ Type(Hotkeys[h]) = "up" /\ value = 0
              \/ Type(Hotkeys[h]) = "multi"
  THEN [hotkey |-> h, value |-> value]
  ELSE NoMessage

-----------------------------------------------------------------------------
\* `2Keys watch`: a new Keyboard object, whatever is held at that time.
Start ==
  /\ ~running
  /\ running' = TRUE
  /\ keys' = << <<>> >>
  /\ sent' = NoMessage
  /\ missed' = held
  /\ UNCHANGED held

Stop ==
  /\ running
  /\ running' = FALSE
  /\ sent' = NoMessage
  /\ UNCHANGED <<held, keys, missed>>

\* A key without a spelling raises an error that nothing catches: when the event is
\* logged if it is beyond the table, otherwise when the key is added or removed.
Dies ==
  /\ running' = FALSE
  /\ UNCHANGED keys

DownDies(k) == k \in Unspelled /\ Dies /\ sent' = NoMessage

UpDies(k) ==
  /\ k \in Unspelled
  /\ Dies
  /\ sent' = IF k \in Beyond THEN NoMessage ELSE Post(keys, 0)

Ignored ==
  /\ ~running
  /\ sent' = NoMessage
  /\ UNCHANGED <<running, keys>>

\* Slip: hotkeys are checked before the key is added.
KeyDownChecked(k) ==
  /\ k \notin held
  /\ held' = held \cup {k}
  /\ \/ Ignored
     \/ running /\ DownDies(k)
     \/ /\ running /\ k \notin Unspelled
        /\ keys' = Press(keys, k)
        /\ sent' = Post(keys, 1)
        /\ UNCHANGED running
  /\ UNCHANGED missed

\* The key is added, then hotkeys are checked.
KeyDown(k) ==
  /\ k \notin held
  /\ held' = held \cup {k}
  /\ \/ Ignored
     \/ running /\ DownDies(k)
     \/ /\ running /\ k \notin Unspelled
        /\ keys' = Press(keys, k)
        /\ sent' = Post(keys', 1)
        /\ UNCHANGED running
  /\ UNCHANGED missed

\* The key repeats: value 2 changes nothing.
KeyRepeat(k) ==
  /\ k \in held
  /\ running
  /\ running' = (k \notin Beyond)
  /\ sent' = NoMessage
  /\ UNCHANGED <<held, keys, missed>>

\* Slip: the key is not removed when its release fires a hotkey.
KeyUpOrHotkey(k) ==
  /\ k \in held
  /\ held' = held \ {k}
  /\ \/ Ignored
     \/ running /\ UpDies(k)
     \/ /\ running /\ k \notin Unspelled
        /\ sent' = Post(keys, 0)
        /\ keys' = IF sent' = NoMessage THEN Release(keys, k) ELSE keys
        /\ UNCHANGED running
  /\ missed' = missed \ {k}

\* Hotkeys are checked, then the key is removed.
KeyUp(k) ==
  /\ k \in held
  /\ held' = held \ {k}
  /\ \/ Ignored
     \/ running /\ UpDies(k)
     \/ /\ running /\ k \notin Unspelled
        /\ sent' = Post(keys, 0)
        /\ keys' = Release(keys, k)
        /\ UNCHANGED running
  /\ missed' = missed \ {k}

Next ==
  /\ \/ Start
     \/ Stop
     \/ \E k \in Keys : KeyDown(k) \/ KeyRepeat(k) \/ KeyUp(k)
  /\ UNCHANGED keyboard

Spec == Init /\ [][Next]_vars

-----------------------------------------------------------------------------
(* The wordings of a set of keys: one spelling of each, chosen in every     *)
(* way.  A hotkey is spelled by keys when its characters are those of a     *)
(* wording of theirs, in any order.                                         *)
Wordings(kb, S) ==
  LET choices == {f \in [S -> UNION {DOMAIN MapOf(kb)[k].spellings : k \in S}] :
                    \A k \in S : f[k] \in DOMAIN MapOf(kb)[k].spellings}
  IN {[k \in S |-> MapOf(kb)[k].spellings[f[k]]] : f \in choices}

Places(nm) == UNION {{k} \X DOMAIN nm[k] : k \in DOMAIN nm}
Characters(nm) == {nm[p[1]][p[2]] : p \in Places(nm)}
Count(s, ch) == Cardinality({i \in DOMAIN s : s[i] = ch})

SameCharacters(h, nm) ==
  \A ch \in ToSet(h) \cup Characters(nm) :
    Count(h, ch) = Cardinality({p \in Places(nm) : nm[p[1]][p[2]] = ch})

SpelledBy(h, S) == \E nm \in Wordings(keyboard, S) : SameCharacters(h, nm)

\* s, laid over t from its place i, agrees with it as far as both go.
Meets(s, t, i) == \A j \in 1 .. Len(s) : i + j - 1 <= Len(t) => t[i + j - 1] = s[j]

\* A keyboard whose keys can be told apart in a candidate: a spelling neither lies in
\* that of another key nor begins in one, unless no spelling begins as it goes on after
\* that one ($UP$ begins where $LEFT$ ends, but no key begins with U); and the first
\* spelling of a key lies not even in its other ones.
Apart(kb) ==
  LET spellings(k) == ToSet(MapOf(kb)[k].spellings) IN
  \A k \in DOMAIN MapOf(kb) :
    /\ <<>> \notin spellings(k)
    /\ MapOf(kb)[k].several => Len(MapOf(kb)[k].spellings) > 1
    /\ \A l \in DOMAIN MapOf(kb) :
         \A s \in spellings(k), t \in spellings(l) :
           \A i \in DOMAIN t :
             Meets(s, t, i) =>
               \/ k = l /\ (s = MapOf(kb)[k].spellings[1] => t = s /\ i = 1)
               \/ /\ i + Len(s) - 1 > Len(t)
                  /\ \A m \in DOMAIN MapOf(kb) :
                       \A u \in spellings(m) : u[1] # s[Len(t) - i + 2]

\* check_for_hotkey, of a hotkey and a candidate of that wording.
LooksLike(h, nm) ==
  /\ Len(h) = Cardinality(Places(nm))
  /\ \/ ToSet(h) \subseteq Characters(nm)
     \/ Characters(nm) \subseteq ToSet(h)

\* A keyboard on which no wording looks like a hotkey with other characters, as that of
\* F12 looks like the hotkey F11.
Unambiguous(kb) ==
  \A h \in DOMAIN kb.hotkeys, S \in SUBSET DOMAIN MapOf(kb) :
    \A nm \in Wordings(kb, S) :
      LooksLike(kb.hotkeys[h].spelling, nm) => SameCharacters(kb.hotkeys[h].spelling, nm)

\* No two hotkeys of a keyboard have the same characters.
NoAnagrams(kb) ==
  \A g, h \in DOMAIN kb.hotkeys :
    LET s == kb.hotkeys[g].spelling
        t == kb.hotkeys[h].spelling
    IN (\A ch \in ToSet(s) \cup ToSet(t) : Count(s, ch) = Count(t, ch)) => g = h

\* The keys down around a step that the watcher has seen go down.
Seen == (held \cup held') \ (missed \cup Unspelled)

\* Every key of the keyboard has one spelling.
Single == \A k \in DOMAIN KeyMap : ~KeyMap[k].several

\* Keys with one spelling each: every candidate spells what is held, whatever
\* the order in which keys go down and up.
CandidatesMatchHeld ==
  running /\ Single => \A i \in DOMAIN keys :
               SpelledBy(keys[i], held \ (missed \cup Unspelled))

\* Keys with one spelling each: an event posts the hotkey that the keys down at
\* that time spell, when its type asks for the event, and posts nothing else.
HotkeyFiresExactly ==
  [][Single /\ running /\ running' /\ held' # held =>
       LET value == IF held \subseteq held' THEN 1 ELSE 0 IN
       \A h \in DOMAIN Hotkeys :
         sent' = [hotkey |-> h, value |-> value]
           <=> /\ SpelledBy(Hotkeys[h].spelling, Seen)
               /\ Type(Hotkeys[h]) \in {"multi", IF value = 1 THEN "down" ELSE "up"}]_vars

\* "Current keys being pressed" (watch_keyboard.py:55): with no key down the
\* watcher remembers none, so that the next hotkey is recognised.
ReleasedKeysForgotten == running /\ held = {} => ToSet(keys) = {<<>>}

\* "fire this hotkey when control + A is pushed" (docs/MAPPINGS.md:7): whatever
\* is posted is spelled by keys that are down.
SentKeysAreHeld ==
  [][sent' # NoMessage =>
       \E S \in SUBSET Seen : SpelledBy(Hotkeys[sent'.hotkey].spelling, S)]_vars
=============================================================================
