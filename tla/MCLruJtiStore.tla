---------------------------- MODULE MCLruJtiStore ----------------------------
(***************************************************************************)
(* Three entries over two shards (2 + 1): k1, k2 and k3 compete for two    *)
(* slots, k4 and k5 for one.                                               *)
(***************************************************************************)
EXTENDS LruJtiStore

MCKeys == {"k1", "k2", "k3", "k4", "k5", "long"}
MCShardOf == [k \in MCKeys |-> IF k \in {"k1", "k2", "k3"} THEN 0 ELSE 1]
MCIats == {0}
=============================================================================
