-------------------------- MODULE MCStrictJtiStore --------------------------
(***************************************************************************)
(* Small instances of StrictJtiStore: three ordinary keys over two shards. *)
(***************************************************************************)
EXTENDS StrictJtiStore, TLC

CONSTANTS k1, k2, k3, kLong

MCKeys == {k1, k2, k3, kLong}
\* k1 and k2 collide on a shard; k3 is alone on the other.
MCShardOf == k1 :> 0 @@ k2 :> 0 @@ k3 :> 1 @@ kLong :> 1
MCIats == {0, 1}
MCSweepAges == {1, 2}
=============================================================================
