------------------------------ MODULE PatternMap ------------------------------
(***************************************************************************)
(* What PrefixTrie and SuffixTrie promise: a map from patterns to values   *)
(* in which remove says whether the pattern was there. The patterns of     *)
(* Permanent cannot be removed.                                            *)
(***************************************************************************)
CONSTANTS MapPatterns, MapValues, Permanent

VARIABLES
    map,     \* the stored patterns and their values
    answer   \* what the last remove returned

MapInit == map = [p \in {} |-> p] /\ answer = FALSE

MapInsert(p, v) ==
    /\ map' = [q \in DOMAIN map \cup {p} |-> IF q = p THEN v ELSE map[q]]
    /\ UNCHANGED answer

MapRemove(p) ==
    /\ answer' = (p \in DOMAIN map \ Permanent)
    /\ map' = [q \in DOMAIN map \ ({p} \ Permanent) |-> map[q]]

MapNext == \E p \in MapPatterns : MapRemove(p) \/ \E v \in MapValues : MapInsert(p, v)

MapSpec == MapInit /\ [][MapNext]_<<map, answer>>
=============================================================================
