---------------------------- MODULE MCHotkeyRuns ----------------------------
\* Small instances of HotkeyRuns.
EXTENDS HotkeyRuns, TLC

Single(valid) == [multi |-> FALSE, parts |-> {}, valid |-> valid]
Split(P) == [multi |-> TRUE, parts |-> P, valid |-> TRUE]
AllEntries == {Single(TRUE), Single(FALSE), Split({"up"})}

Types == [k \in Keyboards |-> IF k = "k1" THEN "multi" ELSE "down"]
=============================================================================
