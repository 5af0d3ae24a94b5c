------------------------- MODULE MCKeyboardWatcher -------------------------
\* Small instances of KeyboardWatcher.
EXTENDS KeyboardWatcher

One(s) == [several |-> FALSE, spellings |-> <<s>>]
Two(s, t) == [several |-> TRUE, spellings |-> <<s, t>>]

\* The entries of keyboard_map.py for the keys used here.
Table(k) ==
  CASE k = "leftctrl"  -> Two(<<"<", "^">>, <<"^">>)
    [] k = "leftshift" -> Two(<<"<", "+">>, <<"+">>)
    [] k = "up"        -> One(<<"$", "U", "P", "$">>)
    [] k = "left"      -> One(<<"$", "L", "E", "F", "T", "$">>)
    [] k = "f1"        -> One(<<"F", "1">>)
    [] OTHER           -> One(<<k>>)

Hotkey(spelling, form) == [spelling |-> spelling, form |-> form]

Letters == <<Hotkey(<<"A">>, "function name"), Hotkey(<<"A", "B">>, "up"),
             Hotkey(<<"C", "A">>, "funcs"), Hotkey(<<"B", "C", "A">>, "multi"),
             Hotkey(<<"(", "x", ")">>, "func"), Hotkey(<<"(", "x", ")", "B">>, "down")>>

Modified == <<Hotkey(<<"^", "A">>, "function name"), Hotkey(<<"<", "^", "B">>, "up"),
              Hotkey(<<"A">>, "up"), Hotkey(<<"+", "^", "A">>, "multi"),
              Hotkey(<<"^", ">", "A">>, "down")>>

Special == <<Hotkey(<<"$", "U", "P", "$">>, "function name"),
             Hotkey(<<"$", "L", "E", "F", "T", "$", "C">>, "multi"),
             Hotkey(<<"$", "U", "P", "$", "$", "L", "E", "F", "T", "$">>, "up"),
             Hotkey(<<"F", "1", "C">>, "down")>>

Board(mapped, none, beyond, names, list) ==
  [keys |-> mapped \cup none \cup beyond, none |-> none,
   table |-> [k \in mapped |-> Table(k)], maps |-> names, hotkeys |-> list]

\* Letters, a None key that the config calls x, and one beyond the table; modifiers; the
\* $KEY$s of docs/MAPPINGS.md and the power key, None in the table.
ThreeKeyboards ==
  {Board({"A", "B", "C"}, {"reserved"}, {"touch"}, [k \in {"reserved"} |-> <<"x">>], Letters),
   Board({"leftctrl", "leftshift", "A", "B", "C"}, {}, {}, <<>>, Modified),
   Board({"up", "left", "f1", "C"}, {"power"}, {}, <<>>, Special)}

\* The hypotheses of the theorems about keyboards hold of these.
ASSUME KeyboardsApart ==
  \A kb \in ThreeKeyboards : Apart(kb) /\ Unambiguous(kb) /\ NoAnagrams(kb)
=============================================================================
