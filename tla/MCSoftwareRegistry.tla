------------------------- MODULE MCSoftwareRegistry -------------------------
(* Small instances of SoftwareRegistry for TLC. *)
EXTENDS SoftwareRegistry, TLC

CONSTANTS c1, c2, p1, p2, n1, n2, e1, e2

\* Two instances, each for an add-on of its own; or two for one add-on.
OnePackageEach == [c \in Callers |-> IF c = c1 THEN p1 ELSE p2]
OnePackage == [c \in Callers |-> p1]

Distinct == {<<e1, e2>>}
Single == {<<e1>>}
Repeated == {<<e1>>, <<e1, e2, e1>>}

\* Edits that reach every branch of an update: nothing but the name, executables
\* with and without a path, a reinstall, a reinstall of what is made manual or
\* automatic.
Given(e, path) == [name |-> e, path |-> path]
Edit(set, na, list, re) == [setNoAuto |-> set, noAuto |-> na, list |-> list, reinstall |-> re]
SomeEdits == {Edit(FALSE, FALSE, <<>>, FALSE), Edit(FALSE, FALSE, <<Given(e1, FALSE)>>, FALSE),
              Edit(FALSE, FALSE, <<Given(e1, TRUE), Given(e2, TRUE)>>, TRUE),
              Edit(TRUE, TRUE, <<>>, TRUE), Edit(TRUE, FALSE, <<>>, TRUE)}

\* Edits whose list may be rejected in part, for a name inserted meanwhile or a
\* path that is missing.
PartialEdits == {Edit(FALSE, FALSE, <<>>, FALSE),
                 Edit(FALSE, FALSE, <<Given(e2, TRUE), Given(e2, FALSE)>>, FALSE)}

Interchangeable == Permutations(Ids)
=============================================================================
