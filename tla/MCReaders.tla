-------------------------------- MODULE MCReaders --------------------------------
(* The articles of a small instance of Readers, and what the indexes find.  *)
EXTENDS Readers, MCArticlePipeline

(* The third hit is beyond the keyword candidates of a hybrid query, and   *)
(* the nearest of the semantic ones.                                       *)
ByKeyword  == <<1, 2, 3>>
ByNearness == <<3, 1>>

(* Two articles of one topic the user likes; both recalls find the first.  *)
OneTopic == [i \in {1, 2} |-> 1]
Recalled == {[bm |-> {1}, knn |-> {1, 2}]}
==================================================================================
