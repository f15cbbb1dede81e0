------------------------------ MODULE TextMatch ------------------------------
(***************************************************************************)
(* What the code takes from libraries to handle texts: splitting, joining  *)
(* and searching, regular expressions (the regex crate), digests. A text   *)
(* is a sequence.                                                          *)
(***************************************************************************)
EXTENDS Naturals, Sequences, SequencesExt

Digest(algorithm, text) == [algorithm |-> algorithm, text |-> text]

\* str::split and join.
SplitOn(text, sep) ==
    FoldLeft(LAMBDA parts, a : IF a = sep THEN Append(parts, <<>>)
                               ELSE [parts EXCEPT ![Len(parts)] = Append(@, a)],
             << <<>> >>, text)
JoinWith(parts, sep) ==
    FoldLeft(LAMBDA text, i : text \o (IF i = 1 THEN <<>> ELSE <<sep>>) \o parts[i],
             <<>>, [i \in DOMAIN parts |-> i])

\* str::split_once: the text before the first separator and, if there is one,
\* the text after it.
SplitOnce(text, sep) ==
    LET at == {i \in DOMAIN text : text[i] = sep}
        first == CHOOSE i \in at : \A j \in at : i <= j
    IN  IF at = {} THEN <<text>>
        ELSE <<SubSeq(text, 1, first - 1), SubSeq(text, first + 1, Len(text))>>

\* str::contains.
Occurs(part, text) == \E k \in 1 .. Len(text) + 1 : IsPrefix(part, SubSeq(text, k, Len(text)))

\* The regex crate, for patterns without operators: such a pattern matches
\* wherever it occurs. A pattern that starts with "*" does not compile.
Compiles(pattern) == pattern = <<>> \/ pattern[1] # "*"
RegexMatches(pattern, text) == Occurs(pattern, text)
=============================================================================
