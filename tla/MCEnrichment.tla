---------------------------- MODULE MCEnrichment ----------------------------
(* Small instances of Enrichment.                                          *)
EXTENDS Enrichment

(* Both stages; a new generation profile while embedding is switched off;  *)
(* embedding with a new profile.                                           *)
Upgrades == <<[gen |-> 1, emb |-> 1], [gen |-> 2, emb |-> 0], [gen |-> 2, emb |-> 2]>>

(* One configuration for good.                                             *)
Steady == <<[gen |-> 1, emb |-> 1]>>
=============================================================================
