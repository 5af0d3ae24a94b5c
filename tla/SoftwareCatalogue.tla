-------------------------- MODULE SoftwareCatalogue --------------------------
(***************************************************************************)
(* What the software table promises, whatever calls run and however they   *)
(* interleave: software is registered, renamed and removed one piece at a  *)
(* time, a uuid stands for one piece of software of one package for as     *)
(* long as it is registered, and no package has two pieces of one name.    *)
(***************************************************************************)
CONSTANTS Ids, Packages, Names, NoEntry

VARIABLE entry   \* uuid -> <<package, name>>, or NoEntry

Free(p, n) == \A id \in Ids : entry[id] # <<p, n>>

Init == entry = [id \in Ids |-> NoEntry]

Register(id, p, n) ==
  /\ entry[id] = NoEntry
  /\ Free(p, n)
  /\ entry' = [entry EXCEPT ![id] = <<p, n>>]

Rename(id, n) ==
  /\ entry[id] # NoEntry
  /\ Free(entry[id][1], n)
  /\ entry' = [entry EXCEPT ![id] = <<entry[id][1], n>>]

Remove(id) ==
  /\ entry[id] # NoEntry
  /\ entry' = [entry EXCEPT ![id] = NoEntry]

Next ==
  \E id \in Ids :
    \/ Remove(id)
    \/ \E n \in Names : Rename(id, n)
    \/ \E p \in Packages, n \in Names : Register(id, p, n)

Spec == Init /\ [][Next]_entry
=============================================================================
