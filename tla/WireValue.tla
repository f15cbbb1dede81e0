------------------------------ MODULE WireValue ------------------------------
(***************************************************************************)
(* What the DPoP proof codecs of src/src/dpop.rs read and write.           *)
(*                                                                         *)
(* Bytes and texts are sequences; a word with a fixed meaning ("EC",       *)
(* "SETUP") is a string. A CBOR or JSON value is a pair <<kind, content>>, *)
(* a map the sequence of its <<key, value>> pairs in wire order, an array  *)
(* that of its values. Integer labels go by their name, those of a         *)
(* COSE_Key by their number because RSA and EC keys give the same numbers  *)
(* different meanings. An "int" fits i64. An encoded blob is its value; a  *)
(* blob with bytes after its value is of kind "trailing". What the code    *)
(* refuses is Refused, whatever the error.                                 *)
(***************************************************************************)
EXTENDS Checks, TextMatch, SequencesExt, TLC

CONSTANT Refused  \* any Err(_)

Integer(n) == <<"int", n>>
Text(t) == <<"text", t>>
ByteString(b) == <<"bytes", b>>
Map(pairs) == <<"map", pairs>>

\* The value of a key, the last one if it is repeated, or Absent.
Get(m, key) ==
    LET at == {i \in DOMAIN m : m[i][1] = key}
    IN  IF at = {} THEN Absent ELSE m[Max(at)][2]

\* Its content if it is of this kind, else Absent.
As(m, key, kind) ==
    LET v == Get(m, key) IN IF v # Absent /\ v[1] = kind THEN v[2] ELSE Absent
AbsentOr(m, key, kind) == Get(m, key) = Absent \/ Get(m, key)[1] = kind
Optional(key, kind, content) ==
    IF content = Absent THEN <<>> ELSE << <<key, <<kind, content>> >> >>

HasUniqueKeys(m) == \A i, j \in DOMAIN m : m[i][1] = m[j][1] => i = j

\* Mutant: a repeated key is accepted, the last one wins.
IntKeyedOnly(m) == \A i \in DOMAIN m : m[i][1] # "decoy"

\* into_int_keyed_map accepts the map. "decoy" is a key that is no integer.
IntKeyed(m) == HasUniqueKeys(m) /\ \A i \in DOMAIN m : m[i][1] # "decoy"

-----------------------------------------------------------------------------
(* Bytes as text.                                                          *)

\* The two hex digits of the bytes there are. "ff" is one no UTF-8 text has.
HexOf == [a |-> <<"6", "1">>] @@ ("-" :> <<"2", "d">>) @@ ("." :> <<"2", "e">>)
         @@ [ff |-> <<"f", "f">>]
HexDigits == {"0", "1", "2", "6", "a", "d", "e", "f"}
IsSafe(byte) == byte \notin {"-", ".", "ff"}
IsUtf8(bytes) == \A i \in DOMAIN bytes : bytes[i] # "ff"

\* moq_canonical_element, moq_canonical_tns.
CanonicalElement(bytes) ==
    FlattenSeq([i \in DOMAIN bytes |->
        IF IsSafe(bytes[i]) THEN <<bytes[i]>> ELSE <<".">> \o HexOf[bytes[i]]])
CanonicalTns(tns) ==
    JoinWith([i \in DOMAIN tns |-> CanonicalElement(tns[i])], "-")

\* moq_element_from_canonical: what follows a "." starts with two hex digits,
\* and everything else is safe.
Unescape(part) ==
    <<CHOOSE b \in DOMAIN HexOf : HexOf[b] = SubSeq(part, 1, 2)>>
    \o SubSeq(part, 3, Len(part))
IsEscape(part) == Len(part) >= 2 /\ {part[1], part[2]} \subseteq HexDigits
PartsToElement(parts) ==
    IF /\ \A k \in DOMAIN parts : \A i \in DOMAIN parts[k] : IsSafe(parts[k][i])
       /\ \A k \in 2 .. Len(parts) : IsEscape(parts[k])
    THEN FlattenSeq([k \in DOMAIN parts |->
                        IF k = 1 THEN parts[1] ELSE Unescape(parts[k])])
    ELSE Refused
ElementFromCanonical(text) == PartsToElement(SplitOn(text, "."))

\* All of a sequence, or Refused if one of its members is.
Collect(seq) == IF \E i \in DOMAIN seq : seq[i] = Refused THEN Refused ELSE seq

\* moq_tns_from_canonical: like str::split, an empty text is one empty segment.
SegmentsToTns(segments) ==
    Collect([i \in DOMAIN segments |-> ElementFromCanonical(segments[i])])
TnsFromCanonical(text) == SegmentsToTns(SplitOn(text, "-"))

\* base64url without padding: injective, empty for empty, and free of the
\* characters that separate. Every byte of the model has a symbol of its own.
Base64 == [b \in {"a", "ff", "k1", "k2", "-", "."} |->
              CASE b = "a" -> "YQ" [] b = "ff" -> "_w" [] b = "k1" -> "azE"
                [] b = "k2" -> "azI" [] b = "-" -> "LQ" [] b = "." -> "Lg"]
EncodeBase64(bytes) == [i \in DOMAIN bytes |-> Base64[bytes[i]]]
DecodeBase64(text) ==
    IF \E i \in DOMAIN text : \A b \in DOMAIN Base64 : Base64[b] # text[i] THEN Refused
    ELSE [i \in DOMAIN text |-> CHOOSE b \in DOMAIN Base64 : Base64[b] = text[i]]
=============================================================================
