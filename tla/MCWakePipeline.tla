--------------------------- MODULE MCWakePipeline ---------------------------
(* Instances of WakePipeline for TLC. *)
EXTENDS WakePipeline, TLC

ShortAndLong == [by : {"api"}, ensure : {TRUE}, timeout : {1, 2}]
DirectOnly   == [by : {"direct"}, ensure : {TRUE}, timeout : {1}]

\* The direct wake does the same whatever its ensure_online says.
AllKinds     == [by : {"api"}, ensure : BOOLEAN, timeout : {1}] \union DirectOnly

Symmetry == Permutations(Client) \union Permutations(Worker)
=============================================================================
