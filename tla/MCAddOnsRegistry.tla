-------------------------- MODULE MCAddOnsRegistry --------------------------
\* Small instances of AddOnsRegistry.
EXTENDS AddOnsRegistry, TLC

CONSTANTS c1, c2, p1, p2

\* p1 loses its entry points in version 2.
Broken == p1 :> [v \in Versions |-> IF v = 1 THEN "add-on" ELSE "entryless"]

\* The contents on which no call throws.
Mixed == (p1 :> [v \in Versions |-> IF v = 1 THEN "add-on" ELSE "undescribed"]) @@
         (p2 :> [v \in Versions |-> IF v = 1 THEN "plain" ELSE "add-on"])

Interchangeable == Permutations(Callers)

Plainly == [force : {FALSE}, link : {FALSE}]
AnyOption == [force : BOOLEAN, link : BOOLEAN]
=============================================================================
