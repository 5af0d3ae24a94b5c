--------------------------- MODULE MCHotkeyServer ---------------------------
\* Small instances of HotkeyServer.
EXTENDS HotkeyServer, TLC

Plain(n, e) == [name |-> n, hotkey |-> [multi |-> FALSE, events |-> {}, executor |-> e]]
Multi(n, E) == [name |-> n, hotkey |-> [multi |-> TRUE, events |-> E, executor |-> "ahk"]]
Without(n, what) == [name |-> n, hotkey |-> what]

\* Files that keep the name of their detector while its hotkey changes, and is
\* missing in what is there before all of the file is.
Kept == ("f1" :> {Plain("d1", "ahk"), Plain("d1", "gone")}) @@
        ("f2" :> {Plain("d2", "ahk"), Multi("d2", {"up"})})

\* A file whose detector is renamed, and whose hotkey changes in every way.
Renamed == "f1" :> {Plain("d1", "ahk"), Plain("d1", "gone"), Multi("d2", {"up"}),
                    Without("d2", NoHotkey), Without("d3", NoKeyboard)}

AtFirst == [f \in Files |-> IF f = "f1" THEN Plain("d1", "ahk") ELSE Plain("d2", "ahk")]

NoRequests == {}
Ask(d, h, e) == [detector |-> d, hotkey |-> h, event |-> e]
AllRequests == {Ask("d1", "given", ""), Ask("d1", "missing", ""), Ask("d1", "given", "bad"),
                Ask("d2", "given", "up"), Ask("d2", "given", "hold"), Ask("d3", "given", "down")}
=============================================================================
