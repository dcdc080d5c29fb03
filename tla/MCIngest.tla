-------------------------------- MODULE MCIngest --------------------------------
(* The documents upstream serves to a small instance of Ingest.            *)
EXTENDS Ingest, TLC

Item(id, hash) == [id |-> id, hash |-> hash]

(* Nothing; an item without identity; one identity twice; more items than   *)
(* a fetch keeps.                                                          *)
Served == {<<>>,
           <<Item("g1", "h1"), Item("none", "h1"), Item("g2", "h2")>>,
           <<Item("g1", "h1"), Item("g1", "h2")>>,
           <<Item("g2", "h1"), Item("g1", "h2"), Item("g3", "h1"), Item("g4", "h1")>>}

=================================================================================
