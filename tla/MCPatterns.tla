------------------------------ MODULE MCPatterns ------------------------------
(***************************************************************************)
(* Small tries and matchers. "e-acute" takes two bytes. A behaviour is     *)
(* about a trie or about a matcher, not about both (a bound).              *)
(***************************************************************************)
EXTENDS PatternIndex, UriMatcher, TLC

MCChars == {"a", "b", "e-acute"}
MCBytesOf == ("a" :> <<97>>) @@ ("b" :> <<98>>) @@ ("e-acute" :> <<195, 169>>) @@ ("*" :> <<42>>)

MCTexts ==
    UNION {[1 .. n -> MCChars] : n \in 0 .. 2} \cup {<<"a", "b", c>> : c \in MCChars}
MCIndexPatterns == {<<>>, <<"a">>, <<"a", "b">>, <<"b", "a">>, <<"a", "e-acute">>, <<"a", "b", "a">>}
MCValues == {"v", "w"}

Text(kind, text) == [kind |-> kind, text |-> text]
Hex(bytes, spelling) ==
    [kind |-> "hash", hex |-> [bytes |-> bytes, spelling |-> spelling, digest |-> Digest("Sha256", <<"a", "b">>)]]
MCMatcherPatterns ==
    {Text("exact", <<"a", "b">>)}
    \cup {Text(kind, text) : kind \in {"prefix", "suffix"}, text \in {<<>>, <<"a", "b">>, <<"e-acute">>}}
    \cup {Text("regex", text) : text \in {<<"b">>, <<"*">>, <<"a", "e-acute">>}}
    \cup {Hex(32, "lower"), Hex(32, "upper"), Hex(16, "lower"), Hex(0, "lower")}

PatternsInit == IInit /\ MInit

PatternsSpec ==
    /\ PatternsInit
    /\ [][\/ INext /\ added = {} /\ UNCHANGED matcherVars
          \/ MNext /\ side = "prefix" /\ tree = EmptyTree /\ removed = [tree |-> FALSE, qp |-> FALSE]
                   /\ UNCHANGED indexVars]_<<indexVars, matcherVars>>
=============================================================================
