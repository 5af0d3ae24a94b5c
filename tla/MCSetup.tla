------------------------------ MODULE MCSetup ------------------------------
\* Small instances of Setup.
EXTENDS Setup

\* An add-on with a controller, and a package that is none; or nothing to install.
TwoOrNone == {<<"detector-desktop", "debug">>, <<>>}
OneAddOn == {"detector-desktop"}

\* One client of each.
AClient == {[id |-> 1, controller |-> "detector-desktop"], [id |-> 2, controller |-> "debug"]}
=============================================================================
