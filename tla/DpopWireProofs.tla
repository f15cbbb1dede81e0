--------------------------- MODULE DpopWireProofs ---------------------------
(***************************************************************************)
(* Theorems about DpopWire, for any contexts, keys, foreign wires and      *)
(* number of steps: what the other end reads is what a proof says now, a   *)
(* proof that verifies says what its holder signed, and no reader of an    *)
(* accepted proof makes something else of its maps.                        *)
(***************************************************************************)
EXTENDS DpopWire, SequenceTheorems, TLAPS

-----------------------------------------------------------------------------
(* Lookups in a map with unique keys.                                      *)

\* Get finds the only value of a key,
LEMMA GetTheOne ==
    ASSUME NEW m, DOMAIN m \subseteq Nat, HasUniqueKeys(m),
           NEW i \in DOMAIN m
    PROVE  Get(m, m[i][1]) = m[i][2]
<1> DEFINE at == {j \in DOMAIN m : m[j][1] = m[i][1]}
<1>1. at = {i}
  BY DEF HasUniqueKeys
<1>2. Max({i}) = i
  BY DEF Max
<1> QED
  BY <1>1, <1>2 DEF Get

\* or nothing if there is none.
LEMMA GetNone ==
    ASSUME NEW m, NEW k, \A i \in DOMAIN m : m[i][1] # k
    PROVE  Get(m, k) = Absent
BY DEF Get

\* A map and the same keys in the opposite order.
Mirrored(m, f, n) ==
    /\ DOMAIN m = 1..n /\ DOMAIN f = 1..n
    /\ \A i \in 1..n : f[i][1] = m[n - i + 1][1]

LEMMA MirroredIsUnique ==
    ASSUME NEW n \in Nat, NEW m, NEW f, Mirrored(m, f, n), HasUniqueKeys(m)
    PROVE  HasUniqueKeys(f)
<1> SUFFICES ASSUME NEW i \in 1..n, NEW j \in 1..n, f[i][1] = f[j][1]
             PROVE  i = j
  BY DEF HasUniqueKeys, Mirrored
<1>1. n - i + 1 \in 1..n /\ n - j + 1 \in 1..n
  OBVIOUS
<1>2. n - i + 1 = n - j + 1
  BY <1>1 DEF HasUniqueKeys, Mirrored
<1> QED
  BY <1>2

LEMMA MirroredGet ==
    ASSUME NEW n \in Nat, NEW m, NEW f, Mirrored(m, f, n), HasUniqueKeys(m),
           NEW i \in 1..n
    PROVE  Get(m, m[i][1]) = m[i][2] /\ Get(f, m[i][1]) = f[n - i + 1][2]
<1>1. n - i + 1 \in 1..n /\ n - (n - i + 1) + 1 = i
  OBVIOUS
<1>2. f[n - i + 1][1] = m[i][1]
  BY <1>1 DEF Mirrored
<1>3. HasUniqueKeys(f) /\ DOMAIN f \subseteq Nat /\ DOMAIN m \subseteq Nat
  BY MirroredIsUnique DEF Mirrored
<1>4. Get(f, f[n - i + 1][1]) = f[n - i + 1][2]
  BY <1>1, <1>3, GetTheOne DEF Mirrored
<1>5. Get(m, m[i][1]) = m[i][2]
  BY <1>3, GetTheOne DEF Mirrored
<1> QED
  BY <1>2, <1>4, <1>5

LEMMA MirroredNone ==
    ASSUME NEW n \in Nat, NEW m, NEW f, Mirrored(m, f, n), NEW k,
           \A i \in 1..n : m[i][1] # k
    PROVE  Get(m, k) = Absent /\ Get(f, k) = Absent
<1>1. \A i \in 1..n : n - i + 1 \in 1..n
  OBVIOUS
<1>2. \A i \in DOMAIN f : f[i][1] # k
  BY <1>1 DEF Mirrored
<1> QED
  BY <1>2, GetNone DEF Mirrored

\* A list read backwards.
LEMMA ReversedList ==
    ASSUME NEW m, IsList(m)
    PROVE  /\ Len(m) \in Nat /\ DOMAIN m = 1..Len(m)
           /\ DOMAIN Reverse(m) = 1..Len(m)
           /\ \A i \in 1..Len(m) : Reverse(m)[i] = m[Len(m) - i + 1]
BY DEF IsList, Reverse

\* Reading a map with unique keys backwards changes nothing.
LEMMA GetReversed ==
    ASSUME NEW m, IsList(m), HasUniqueKeys(m)
    PROVE  /\ HasUniqueKeys(Reverse(m))
           /\ \A k : Get(Reverse(m), k) = Get(m, k)
           /\ (\A i \in DOMAIN m : m[i][1] # "decoy") =>
                \A i \in DOMAIN Reverse(m) : Reverse(m)[i][1] # "decoy"
<1> DEFINE n == Len(m)
           f == Reverse(m)
<1>1. /\ n \in Nat /\ DOMAIN m = 1..n /\ DOMAIN f = 1..n
      /\ \A i \in 1..n : f[i] = m[n - i + 1]
  BY ReversedList
<1> HIDE DEF n, f
<1>2. Mirrored(m, f, n)
  BY <1>1 DEF Mirrored
<1>3. ASSUME NEW k
      PROVE  Get(f, k) = Get(m, k)
  <2>1. CASE \A i \in 1..n : m[i][1] # k
    BY <1>1, <1>2, <2>1, MirroredNone
  <2>2. ASSUME NEW i \in 1..n, m[i][1] = k
        PROVE  Get(f, k) = Get(m, k)
    <3>1. Get(m, m[i][1]) = m[i][2] /\ Get(f, m[i][1]) = f[n - i + 1][2]
      BY <1>1, <1>2, MirroredGet
    <3>2. f[n - i + 1] = m[i]
      <4>1. n - i + 1 \in 1..n /\ n - (n - i + 1) + 1 = i
        BY <1>1
      <4> QED
        BY <1>1, <4>1
    <3> QED
      BY <2>2, <3>1, <3>2
  <2> QED
    BY <2>1, <2>2
<1>4. HasUniqueKeys(f)
  BY <1>1, <1>2, MirroredIsUnique
<1>5. \A i \in 1..n : n - i + 1 \in 1..n
  BY <1>1
<1>6. (\A i \in DOMAIN m : m[i][1] # "decoy") => \A i \in DOMAIN f : f[i][1] # "decoy"
  BY <1>1, <1>5
<1> QED
  BY <1>3, <1>4, <1>6 DEF f

-----------------------------------------------------------------------------
(* A blob and its image under BackToFront.                                 *)

\* The image as a list of pairs.
Image(m, inner) == BackToFront(<<"map", m>>, inner)[2]

LEMMA ImageOfBlob ==
    ASSUME NEW blob, NEW inner
    PROVE  BackToFront(blob, inner) = <<"map", Image(blob[2], inner)>>
BY DEF BackToFront, Image, Map

LEMMA ImagePairs ==
    ASSUME NEW m, IsList(m), NEW inner
    PROVE  /\ Len(m) \in Nat /\ DOMAIN m = 1..Len(m)
           /\ DOMAIN Image(m, inner) = 1..Len(m)
           /\ \A i \in 1..Len(m) : Image(m, inner)[i] = Turned(m[Len(m) - i + 1], inner)
<1> DEFINE n == Len(m)
           g == [i \in DOMAIN m |-> Turned(m[i], inner)]
<1>1. n \in Nat /\ DOMAIN m = 1..n
  BY DEF IsList
<1>2. g \in Seq({Turned(m[i], inner) : i \in DOMAIN m})
  BY <1>1
<1>3. DOMAIN g = 1..n /\ Len(g) = n
  BY <1>1, <1>2
<1>4. Image(m, inner) = Reverse(g)
  BY DEF Image, BackToFront, Map
<1> HIDE DEF g, n
<1>5. DOMAIN Reverse(g) = 1..n /\ \A i \in 1..n : Reverse(g)[i] = g[n - i + 1]
  BY <1>3 DEF Reverse
<1>6. \A i \in 1..n : g[n - i + 1] = Turned(m[n - i + 1], inner)
  <2>1. \A i \in 1..n : n - i + 1 \in DOMAIN m
    BY <1>1
  <2> QED
    BY <2>1 DEF g
<1> QED
  BY <1>1, <1>4, <1>5, <1>6 DEF n

LEMMA ImageIsMirrored ==
    ASSUME NEW m, IsList(m), NEW inner
    PROVE  Mirrored(m, Image(m, inner), Len(m))
<1>1. \A pair : Turned(pair, inner)[1] = pair[1]
  BY DEF Turned
<1>2. ASSUME NEW i \in 1..Len(m)
      PROVE  Image(m, inner)[i][1] = m[Len(m) - i + 1][1]
  BY <1>1, ImagePairs
<1> QED
  BY <1>2, ImagePairs DEF Mirrored

\* A map that is accepted has an accepted image,
LEMMA ImageIsUnique ==
    ASSUME NEW m, IsList(m), NEW inner, HasUniqueKeys(m)
    PROVE  HasUniqueKeys(Image(m, inner))
BY ImageIsMirrored, ImagePairs, MirroredIsUnique

LEMMA ImageIsIntKeyed ==
    ASSUME NEW m, IsList(m), NEW inner, IntKeyed(m)
    PROVE  IntKeyed(Image(m, inner))
<1>1. HasUniqueKeys(Image(m, inner))
  BY ImageIsUnique DEF IntKeyed
<1>2. \A i \in 1..Len(m) : Len(m) - i + 1 \in 1..Len(m)
  BY ImagePairs
<1>3. \A i \in DOMAIN Image(m, inner) : Image(m, inner)[i][1] # "decoy"
  BY <1>2, ImageIsMirrored DEF Mirrored, IntKeyed
<1> QED
  BY <1>1, <1>3 DEF IntKeyed

\* in which every key but `inner` has the value it had,
LEMMA ImageGet ==
    ASSUME NEW m, IsList(m), NEW inner, HasUniqueKeys(m), NEW k, k # inner
    PROVE  Get(Image(m, inner), k) = Get(m, k)
<1> DEFINE n == Len(m)
           f == Image(m, inner)
<1>1. n \in Nat /\ Mirrored(m, f, n) /\ \A i \in 1..n : f[i] = Turned(m[n - i + 1], inner)
  BY ImagePairs, ImageIsMirrored
<1> HIDE DEF n, f
<1>2. CASE \A i \in 1..n : m[i][1] # k
  BY <1>1, <1>2, MirroredNone DEF f
<1>3. ASSUME NEW i \in 1..n, m[i][1] = k
      PROVE  Get(f, k) = Get(m, k)
  <2>1. Get(m, m[i][1]) = m[i][2] /\ Get(f, m[i][1]) = f[n - i + 1][2]
    BY <1>1, MirroredGet
  <2>2. n - i + 1 \in 1..n /\ n - (n - i + 1) + 1 = i
    BY <1>1
  <2>3. f[n - i + 1] = Turned(m[i], inner)
    BY <1>1, <2>2
  <2>4. Turned(m[i], inner) = m[i]
    BY <1>3 DEF Turned
  <2> QED
    BY <1>3, <2>1, <2>3, <2>4
<1> QED
  BY <1>2, <1>3 DEF f

\* and a map under `inner` is turned as well.
LEMMA ImageGetInner ==
    ASSUME NEW m, IsList(m), NEW inner, HasUniqueKeys(m),
           Get(m, inner) # Absent, Get(m, inner)[1] = "map"
    PROVE  Get(Image(m, inner), inner) = <<"map", Reverse(Get(m, inner)[2])>>
<1> DEFINE n == Len(m)
           f == Image(m, inner)
<1>1. n \in Nat /\ Mirrored(m, f, n) /\ \A i \in 1..n : f[i] = Turned(m[n - i + 1], inner)
  BY ImagePairs, ImageIsMirrored
<1> HIDE DEF n, f
<1>2. PICK i \in 1..n : m[i][1] = inner
  BY <1>1, MirroredNone
<1>3. Get(m, m[i][1]) = m[i][2] /\ Get(f, m[i][1]) = f[n - i + 1][2]
  BY <1>1, MirroredGet
<1>4. n - i + 1 \in 1..n /\ n - (n - i + 1) + 1 = i
  BY <1>1
<1>5. f[n - i + 1] = Turned(m[i], inner)
  BY <1>1, <1>4
<1>6. Turned(m[i], inner) = <<inner, <<"map", Reverse(m[i][2][2])>> >>
  BY <1>2, <1>3 DEF Turned, Map
<1>7. Get(f, inner) = <<"map", Reverse(m[i][2][2])>>
  BY <1>2, <1>3, <1>5, <1>6
<1> QED
  BY <1>2, <1>3, <1>7 DEF f

\* What Get returns is the value of a pair.
LEMMA GetIsOfAPair ==
    ASSUME NEW m, IsList(m), NEW k, HasUniqueKeys(m), Get(m, k) # Absent
    PROVE  \E i \in DOMAIN m : m[i][1] = k /\ Get(m, k) = m[i][2]
<1>1. PICK i \in DOMAIN m : m[i][1] = k
  BY GetNone
<1>2. DOMAIN m \subseteq Nat
  BY ImagePairs
<1> QED
  BY <1>1, <1>2, GetTheOne

\* So the content of a map that IsListed says something about is a list.
LEMMA InnerIsList ==
    ASSUME NEW m, NEW inner, IsListed(m, inner), HasUniqueKeys(m),
           Get(m, inner) # Absent, Get(m, inner)[1] = "map"
    PROVE  IsList(Get(m, inner)[2])
<1>1. PICK i \in DOMAIN m : m[i][1] = inner /\ Get(m, inner) = m[i][2]
  BY GetIsOfAPair DEF IsListed
<1> QED
  BY <1>1 DEF IsListed

-----------------------------------------------------------------------------
(* The decoders of dpop.rs, module cwt.                                    *)

\* Two maps that give the same answers, both accepted or both not.
Alike(m, f) == (IntKeyed(f) <=> IntKeyed(m)) /\ \A k : Get(f, k) = Get(m, k)

LEMMA AlikeAs ==
    ASSUME NEW m, NEW f, Alike(m, f), NEW k, NEW kind
    PROVE  As(f, k, kind) = As(m, k, kind) /\ (AbsentOr(f, k, kind) <=> AbsentOr(m, k, kind))
<1>1. Get(f, k) = Get(m, k)
  BY DEF Alike
<1> QED
  BY <1>1 DEF As, AbsentOr

LEMMA ReversedIsList ==
    ASSUME NEW c, IsList(c)
    PROVE  IsList(Reverse(c))
<1> DEFINE r == Reverse(c)
           S == {r[i] : i \in DOMAIN r}
<1>1. c \in Seq({c[i] : i \in DOMAIN c})
  BY DEF IsList
<1>2. r = [i \in 1..Len(c) |-> c[Len(c) - i + 1]] /\ Len(c) \in Nat
  BY <1>1 DEF Reverse
<1>3. r = [i \in 1..Len(c) |-> r[i]] /\ \A i \in 1..Len(c) : r[i] \in S
  BY <1>2
<1> HIDE DEF r, S
<1>4. r \in Seq(S)
  BY <1>2, <1>3
<1> QED
  BY <1>4 DEF r, S, IsList

LEMMA PairIsList ==
    ASSUME NEW a, NEW b
    PROVE  IsList(<<a, b>>)
BY DEF IsList

LEMMA ReversedIsAlike ==
    ASSUME NEW c, IsList(c), IntKeyed(c)
    PROVE  Alike(c, Reverse(c))
<1>1. IntKeyed(Reverse(c))
  BY GetReversed DEF IntKeyed
<1>2. \A k : Get(Reverse(c), k) = Get(c, k)
  BY GetReversed DEF IntKeyed
<1> QED
  BY <1>1, <1>2 DEF Alike

\* cose_key_to_jwk does not look at the order of the members.
LEMMA CoseKeyOfAlike ==
    ASSUME NEW v, NEW u, v[1] = "map", u[1] = "map", Alike(v[2], u[2])
    PROVE  CoseKeyToJwk(u) = CoseKeyToJwk(v)
<1>1. \A k, kind : As(u[2], k, kind) = As(v[2], k, kind)
  BY AlikeAs
<1>2. EcJwk(u[2]) = EcJwk(v[2])
  BY <1>1 DEF EcJwk
<1>3. RsaJwk(u[2]) = RsaJwk(v[2])
  BY <1>1 DEF RsaJwk
<1>4. IntKeyed(u[2]) <=> IntKeyed(v[2])
  BY DEF Alike
<1> QED
  BY <1>1, <1>2, <1>3, <1>4 DEF CoseKeyToJwk

\* Nor does cbor_to_actx.
LEMMA ActxOfAlike ==
    ASSUME NEW v, NEW u, v[1] = "map", u[1] = "map", Alike(v[2], u[2])
    PROVE  CborToActx(u) = CborToActx(v)
<1>1. \A k, kind : As(u[2], k, kind) = As(v[2], k, kind)
  BY AlikeAs
<1>2. AbsentOr(u[2], "tn", "text") <=> AbsentOr(v[2], "tn", "text")
  BY AlikeAs
<1>3. CborResource(u[2]) = CborResource(v[2])
  BY <1>1 DEF CborResource
<1>4. IntKeyed(u[2]) <=> IntKeyed(v[2])
  BY DEF Alike
<1> QED
  BY <1>1, <1>2, <1>3, <1>4 DEF CborToActx

\* Option::None and a refusal are no data: no sequence, no record.
Apart == \A v : v = [i \in DOMAIN v |-> v[i]] => v # Absent /\ v # Refused

LEMMA ListIsApart ==
    ASSUME Apart, NEW m, IsList(m)
    PROVE  m # Absent /\ m # Refused
<1>1. m = [i \in DOMAIN m |-> m[i]]
  BY DEF IsList
<1> QED
  BY <1>1 DEF Apart

\* The other keys of a map.
LEMMA ImageAs ==
    ASSUME NEW m, IsList(m), NEW inner, HasUniqueKeys(m), NEW k, k # inner, NEW kind
    PROVE  /\ As(Image(m, inner), k, kind) = As(m, k, kind)
           /\ AbsentOr(Image(m, inner), k, kind) <=> AbsentOr(m, k, kind)
<1>1. Get(Image(m, inner), k) = Get(m, k)
  BY ImageGet
<1> QED
  BY <1>1 DEF As, AbsentOr

\* The map under `inner` is the same map read backwards.
LEMMA ImageInner ==
    ASSUME Apart, NEW m, NEW inner, IsListed(m, inner), HasUniqueKeys(m),
           Get(m, inner) # Absent, Get(m, inner)[1] = "map", IntKeyed(Get(m, inner)[2])
    PROVE  /\ Get(Image(m, inner), inner) # Absent
           /\ Get(Image(m, inner), inner)[1] = "map"
           /\ Get(m, inner)[2] # Absent /\ Get(Image(m, inner), inner)[2] # Absent
           /\ Alike(Get(m, inner)[2], Get(Image(m, inner), inner)[2])
<1> DEFINE v == Get(m, inner)
           u == Get(Image(m, inner), inner)
<1>1. IsList(v[2])
  BY InnerIsList
<1>2. u = <<"map", Reverse(v[2])>>
  BY ImageGetInner DEF IsListed
<1>3. Alike(v[2], Reverse(v[2]))
  BY <1>1, ReversedIsAlike
<1> HIDE DEF u, v
<1>4. u # Absent /\ u[1] = "map" /\ u[2] = Reverse(v[2])
  BY <1>2, PairIsList, ListIsApart
<1>5. v[2] # Absent /\ Reverse(v[2]) # Absent
  BY <1>1, ReversedIsList, ListIsApart
<1> QED
  BY <1>3, <1>4, <1>5 DEF u, v

LEMMA CwtHeaderTurned ==
    ASSUME Apart, NEW blob, IsListed(blob[2], "COSE_Key"), CwtDecodeHeader(blob) # Refused
    PROVE  CwtDecodeHeader(BackToFront(blob, "COSE_Key")) = CwtDecodeHeader(blob)
<1> DEFINE m == blob[2]
           f == Image(m, "COSE_Key")
           v == Get(m, "COSE_Key")
           u == Get(f, "COSE_Key")
<1>1. blob[1] = "map" /\ IntKeyed(m) /\ v # Absent /\ IsList(m) /\ HasUniqueKeys(m)
  BY DEF CwtDecodeHeader, IsListed, IntKeyed
<1>2. CoseKeyToJwk(v) # Refused
  BY <1>1 DEF CwtDecodeHeader, Header, Unless
<1>3. v[1] = "map" /\ IntKeyed(v[2])
  BY <1>2 DEF CoseKeyToJwk
<1>4. u # Absent /\ u[1] = "map" /\ Alike(v[2], u[2])
  BY <1>1, <1>3, ImageInner
<1>5. IntKeyed(f)
  BY <1>1, ImageIsIntKeyed
<1>6. As(f, "alg", "int") = As(m, "alg", "int") /\ As(f, "typ", "text") = As(m, "typ", "text")
  BY <1>1, ImageAs
<1>7. CoseKeyToJwk(u) = CoseKeyToJwk(v)
  BY <1>3, <1>4, CoseKeyOfAlike
<1>8. BackToFront(blob, "COSE_Key") = <<"map", f>>
  BY ImageOfBlob
<1> HIDE DEF m, f, u, v
<1>9. CwtDecodeHeader(<<"map", f>>)
        = Header(As(f, "alg", "int"), As(f, "typ", "text"), CoseKeyToJwk(u))
  BY <1>4, <1>5 DEF CwtDecodeHeader, u
<1>10. CwtDecodeHeader(blob)
        = Header(As(m, "alg", "int"), As(m, "typ", "text"), CoseKeyToJwk(v))
  BY <1>1 DEF CwtDecodeHeader, m, v
<1> QED
  BY <1>6, <1>7, <1>8, <1>9, <1>10

LEMMA CwtPayloadTurned ==
    ASSUME Apart, NEW blob, IsListed(blob[2], "actx"), CwtDecodePayload(blob) # Refused
    PROVE  CwtDecodePayload(BackToFront(blob, "actx")) = CwtDecodePayload(blob)
<1> DEFINE m == blob[2]
           f == Image(m, "actx")
           v == Get(m, "actx")
           u == Get(f, "actx")
<1>1. blob[1] = "map" /\ IntKeyed(m) /\ v # Absent /\ IsList(m) /\ HasUniqueKeys(m)
  BY DEF CwtDecodePayload, IsListed, IntKeyed
<1>2. CborToActx(v) # Refused
  BY <1>1 DEF CwtDecodePayload, Payload, Unless
<1>3. v[1] = "map" /\ IntKeyed(v[2])
  BY <1>2 DEF CborToActx
<1>4. u # Absent /\ u[1] = "map" /\ Alike(v[2], u[2])
  BY <1>1, <1>3, ImageInner
<1>5. IntKeyed(f)
  BY <1>1, ImageIsIntKeyed
<1>6. /\ As(f, "cti", "bytes") = As(m, "cti", "bytes")
      /\ As(f, "iat", "int") = As(m, "iat", "int")
      /\ As(f, "ath", "bytes") = As(m, "ath", "bytes")
      /\ As(f, "nonce", "text") = As(m, "nonce", "text")
  BY <1>1, ImageAs
<1>7. /\ AbsentOr(f, "cti", "bytes") <=> AbsentOr(m, "cti", "bytes")
      /\ AbsentOr(f, "ath", "bytes") <=> AbsentOr(m, "ath", "bytes")
      /\ AbsentOr(f, "nonce", "text") <=> AbsentOr(m, "nonce", "text")
  BY <1>1, ImageAs
<1>8. CborToActx(u) = CborToActx(v)
  BY <1>3, <1>4, ActxOfAlike
<1>9. BackToFront(blob, "actx") = <<"map", f>>
  BY ImageOfBlob
<1>10. /\ AbsentOr(m, "cti", "bytes") /\ AbsentOr(m, "ath", "bytes")
       /\ AbsentOr(m, "nonce", "text")
  BY <1>1 DEF CwtDecodePayload
<1> HIDE DEF m, f, u, v
<1>11. CwtDecodePayload(<<"map", f>>)
        = Payload(As(f, "cti", "bytes"), As(f, "iat", "int"), CborToActx(u),
                  As(f, "ath", "bytes"), As(f, "nonce", "text"))
  BY <1>4, <1>5, <1>7, <1>10 DEF CwtDecodePayload, u
<1>12. CwtDecodePayload(blob)
        = Payload(As(m, "cti", "bytes"), As(m, "iat", "int"), CborToActx(v),
                  As(m, "ath", "bytes"), As(m, "nonce", "text"))
  BY <1>1, <1>10 DEF CwtDecodePayload, m, v
<1> QED
  BY <1>6, <1>8, <1>9, <1>11, <1>12

-----------------------------------------------------------------------------
(* The decoders of dpop.rs, module jwt.                                    *)

LEMMA JwtHeaderTurned ==
    ASSUME NEW blob, IsList(blob[2]), JwtDecodeHeader(blob) # Refused
    PROVE  JwtDecodeHeader(BackToFront(blob, "")) = JwtDecodeHeader(blob)
<1> DEFINE m == blob[2]
           f == Image(m, "")
<1>1. blob[1] = "map" /\ IsList(m) /\ HasUniqueKeys(m)
  BY DEF JwtDecodeHeader
<1>2. HasUniqueKeys(f)
  BY <1>1, ImageIsUnique
<1>3. Get(f, "alg") = Get(m, "alg") /\ Get(f, "typ") = Get(m, "typ") /\ Get(f, "jwk") = Get(m, "jwk")
  BY <1>1, ImageGet
<1>4. As(f, "alg", "text") = As(m, "alg", "text") /\ As(f, "typ", "text") = As(m, "typ", "text")
  BY <1>3 DEF As
<1>5. BackToFront(blob, "") = <<"map", f>>
  BY ImageOfBlob
<1> HIDE DEF m, f
<1>6. JwtDecodeHeader(<<"map", f>>) = JwtDecodeHeader(<<"map", m>>)
  BY <1>1, <1>2, <1>3, <1>4 DEF JwtDecodeHeader
<1>7. JwtDecodeHeader(<<"map", m>>) = JwtDecodeHeader(blob)
  BY <1>1 DEF JwtDecodeHeader, m
<1> QED
  BY <1>5, <1>6, <1>7

LEMMA JwtPayloadTurned ==
    ASSUME NEW blob, IsList(blob[2]), JwtDecodePayload(blob) # Refused
    PROVE  JwtDecodePayload(BackToFront(blob, "")) = JwtDecodePayload(blob)
<1> DEFINE m == blob[2]
           f == Image(m, "")
<1>1. blob[1] = "map" /\ IsList(m) /\ HasUniqueKeys(m)
  BY DEF JwtDecodePayload
<1>2. HasUniqueKeys(f)
  BY <1>1, ImageIsUnique
<1>3. /\ Get(f, "jti") = Get(m, "jti") /\ Get(f, "iat") = Get(m, "iat")
      /\ Get(f, "ath") = Get(m, "ath") /\ Get(f, "nonce") = Get(m, "nonce")
      /\ Get(f, "actx") = Get(m, "actx")
  BY <1>1, ImageGet
<1>4. /\ As(f, "jti", "text") = As(m, "jti", "text")
      /\ As(f, "iat", "int") = As(m, "iat", "int")
      /\ As(f, "ath", "text") = As(m, "ath", "text")
      /\ As(f, "nonce", "text") = As(m, "nonce", "text")
  BY <1>3 DEF As
<1>5. /\ AbsentOr(f, "jti", "text") <=> AbsentOr(m, "jti", "text")
      /\ AbsentOr(f, "ath", "text") <=> AbsentOr(m, "ath", "text")
  BY <1>3 DEF AbsentOr
<1>6. BackToFront(blob, "") = <<"map", f>>
  BY ImageOfBlob
<1> HIDE DEF m, f
<1>7. JwtDecodePayload(<<"map", f>>) = JwtDecodePayload(<<"map", m>>)
  BY <1>1, <1>2, <1>3, <1>4, <1>5 DEF JwtDecodePayload
<1>8. JwtDecodePayload(<<"map", m>>) = JwtDecodePayload(blob)
  BY <1>1 DEF JwtDecodePayload, m
<1> QED
  BY <1>6, <1>7, <1>8

-----------------------------------------------------------------------------
(* A wire and the same wire with its maps read backwards.                  *)

Flipped(signed, nested) ==
    <<BackToFront(signed[1], IF nested THEN "COSE_Key" ELSE ""),
      BackToFront(signed[2], IF nested THEN "actx" ELSE "")>>

\* The size of a wire does not depend on the order,
LEMMA JwtSizeTurned ==
    ASSUME NEW m, IsList(m), HasUniqueKeys(m)
    PROVE  As(Image(m, ""), "actx", "map") = As(m, "actx", "map")
<1>1. Get(Image(m, ""), "actx") = Get(m, "actx")
  BY ImageGet
<1> QED
  BY <1>1 DEF As

LEMMA CwtSizeTurned ==
    ASSUME Apart, NEW m, IsListed(m, "actx"), HasUniqueKeys(m),
           Get(m, "actx") # Absent, Get(m, "actx")[1] = "map", IntKeyed(Get(m, "actx")[2])
    PROVE  /\ As(m, "actx", "map") # Absent /\ As(Image(m, "actx"), "actx", "map") # Absent
           /\ As(As(Image(m, "actx"), "actx", "map"), "tn", "text")
                = As(As(m, "actx", "map"), "tn", "text")
<1> DEFINE v == Get(m, "actx")
           u == Get(Image(m, "actx"), "actx")
<1>1. u # Absent /\ u[1] = "map" /\ Alike(v[2], u[2]) /\ v[2] # Absent /\ u[2] # Absent
  BY ImageInner
<1>2. As(m, "actx", "map") = v[2] /\ As(Image(m, "actx"), "actx", "map") = u[2]
  BY <1>1 DEF As
<1>3. As(u[2], "tn", "text") = As(v[2], "tn", "text")
  BY <1>1, AlikeAs
<1> QED
  BY <1>1, <1>2, <1>3

\* and nor does anything else that is read.
LEMMA ProofIsApart ==
    ASSUME Apart, NEW h, NEW p, NEW g, NEW b, NEW f
    PROVE  [header |-> h, payload |-> p, signature |-> g,
            signed_bytes |-> b, wire_format |-> f] # Refused
BY DEF Apart

LEMMA CwtTurned ==
    ASSUME Apart, NEW s, IsSigned(s), NEW g,
           Decode([frame |-> "sign1", signed |-> s, signature |-> g]) # Refused
    PROVE  LET w == [frame |-> "sign1", signed |-> s, signature |-> g]
               t == [frame |-> "sign1", signed |-> Flipped(s, TRUE), signature |-> g]
           IN  /\ Decode(t) # Refused
               /\ Decode(t).header = Decode(w).header /\ Decode(t).payload = Decode(w).payload
<1> DEFINE w == [frame |-> "sign1", signed |-> s, signature |-> g]
           t == [frame |-> "sign1", signed |-> Flipped(s, TRUE), signature |-> g]
           h == CwtDecodeHeader(s[1])
           p == CwtDecodePayload(s[2])
<1>1. /\ ~(WireSize(w) > MAX_DPOP_WIRE_SIZE)
      /\ Decode(w) = Decoded(w, "Cwt", h, p)
  BY DEF Decode, LooksLikeJwt
<1>2. h # Refused /\ p # Refused
  BY <1>1 DEF Decoded, Unless
<1>3. IsListed(s[1][2], "COSE_Key") /\ IsListed(s[2][2], "actx")
  BY DEF IsSigned
<1>4. CwtDecodeHeader(BackToFront(s[1], "COSE_Key")) = h
  BY <1>2, <1>3, CwtHeaderTurned
<1>5. CwtDecodePayload(BackToFront(s[2], "actx")) = p
  BY <1>2, <1>3, CwtPayloadTurned
<1>6. WireSize(t) = WireSize(w)
  <2> DEFINE m == s[2][2]
  <2>1. IntKeyed(m) /\ HasUniqueKeys(m) /\ Get(m, "actx") # Absent
    BY <1>2 DEF CwtDecodePayload, IntKeyed
  <2>2. CborToActx(Get(m, "actx")) # Refused
    BY <1>2 DEF CwtDecodePayload, Payload, Unless
  <2>3. Get(m, "actx")[1] = "map" /\ IntKeyed(Get(m, "actx")[2])
    BY <2>2 DEF CborToActx
  <2>4. /\ As(m, "actx", "map") # Absent /\ As(Image(m, "actx"), "actx", "map") # Absent
        /\ As(As(Image(m, "actx"), "actx", "map"), "tn", "text")
             = As(As(m, "actx", "map"), "tn", "text")
    BY <1>3, <2>1, <2>3, CwtSizeTurned
  <2>5. BackToFront(s[2], "actx")[2] = Image(m, "actx")
    BY ImageOfBlob
  <2>6. t.signed[2][2] = Image(m, "actx") /\ w.signed[2][2] = m
    BY <2>5 DEF Flipped
  <2> QED
    BY <2>4, <2>6 DEF WireSize
<1>7. t.signed[1] = BackToFront(s[1], "COSE_Key") /\ t.signed[2] = BackToFront(s[2], "actx")
  BY DEF Flipped
<1>8. Decode(t) = Decoded(t, "Cwt", h, p)
  BY <1>1, <1>4, <1>5, <1>6, <1>7 DEF Decode, LooksLikeJwt
<1> HIDE DEF h, p
<1>9. /\ Decoded(t, "Cwt", h, p) # Refused
      /\ Decoded(t, "Cwt", h, p).header = h /\ Decoded(t, "Cwt", h, p).payload = p
      /\ Decoded(w, "Cwt", h, p).header = h /\ Decoded(w, "Cwt", h, p).payload = p
  BY <1>2, ProofIsApart DEF Decoded, Unless
<1> QED
  BY <1>1, <1>8, <1>9

LEMMA JwtTurned ==
    ASSUME Apart, NEW s, IsSigned(s), NEW g,
           Decode([frame |-> "compact", signed |-> s, signature |-> g]) # Refused
    PROVE  LET w == [frame |-> "compact", signed |-> s, signature |-> g]
               t == [frame |-> "compact", signed |-> Flipped(s, FALSE), signature |-> g]
           IN  /\ Decode(t) # Refused
               /\ Decode(t).header = Decode(w).header /\ Decode(t).payload = Decode(w).payload
<1> DEFINE w == [frame |-> "compact", signed |-> s, signature |-> g]
           t == [frame |-> "compact", signed |-> Flipped(s, FALSE), signature |-> g]
           h == JwtDecodeHeader(s[1])
           p == JwtDecodePayload(s[2])
<1>1. /\ ~(WireSize(w) > MAX_DPOP_WIRE_SIZE)
      /\ Decode(w) = Decoded(w, "Jwt", h, p)
  BY DEF Decode, LooksLikeJwt
<1>2. h # Refused /\ p # Refused
  BY <1>1 DEF Decoded, Unless
<1>3. IsList(s[1][2]) /\ IsList(s[2][2])
  BY DEF IsSigned, IsListed
<1>4. JwtDecodeHeader(BackToFront(s[1], "")) = h
  BY <1>2, <1>3, JwtHeaderTurned
<1>5. JwtDecodePayload(BackToFront(s[2], "")) = p
  BY <1>2, <1>3, JwtPayloadTurned
<1>6. WireSize(t) = WireSize(w)
  <2> DEFINE m == s[2][2]
  <2>1. HasUniqueKeys(m)
    BY <1>2 DEF JwtDecodePayload
  <2>2. As(Image(m, ""), "actx", "map") = As(m, "actx", "map")
    BY <1>3, <2>1, JwtSizeTurned
  <2>3. BackToFront(s[2], "")[2] = Image(m, "")
    BY ImageOfBlob
  <2>4. t.signed[2][2] = Image(m, "") /\ w.signed[2][2] = m
    BY <2>3 DEF Flipped
  <2> QED
    BY <2>2, <2>4 DEF WireSize
<1>7. t.signed[1] = BackToFront(s[1], "") /\ t.signed[2] = BackToFront(s[2], "")
  BY DEF Flipped
<1>8. Decode(t) = Decoded(t, "Jwt", h, p)
  BY <1>1, <1>4, <1>5, <1>6, <1>7 DEF Decode, LooksLikeJwt
<1> HIDE DEF h, p
<1>9. /\ Decoded(t, "Jwt", h, p) # Refused
      /\ Decoded(t, "Jwt", h, p).header = h /\ Decoded(t, "Jwt", h, p).payload = p
      /\ Decoded(w, "Jwt", h, p).header = h /\ Decoded(w, "Jwt", h, p).payload = p
  BY <1>2, ProofIsApart DEF Decoded, Unless
<1> QED
  BY <1>1, <1>8, <1>9

-----------------------------------------------------------------------------
(* What the encoders write is a header map and a payload map.              *)

LEMMA ListIn ==
    ASSUME NEW S, NEW m \in Seq(S)
    PROVE  IsList(m)
BY DEF IsList

LEMMA ConcatListed ==
    ASSUME NEW inner, NEW a, NEW b, IsListed(a, inner), IsListed(b, inner)
    PROVE  IsListed(a \o b, inner)
<1> DEFINE A == {a[i] : i \in DOMAIN a}
           B == {b[i] : i \in DOMAIN b}
           c == a \o b
<1>1. a \in Seq(A) /\ b \in Seq(B)
  BY DEF IsListed, IsList
<1>2. \A i \in DOMAIN a : a[i] \in A
  OBVIOUS
<1> HIDE DEF A, B
<1>3. a \in Seq(A \cup B) /\ b \in Seq(A \cup B)
  BY <1>1
<1>4. c \in Seq(A \cup B)
  BY <1>3
<1>5. \A i \in DOMAIN c :
         \/ i \in DOMAIN a /\ c[i] = a[i]
         \/ i - Len(a) \in DOMAIN b /\ c[i] = b[i - Len(a)]
  BY <1>3, ConcatProperties
<1> HIDE DEF c
<1>6. IsList(c)
  BY <1>4, ListIn
<1>7. ASSUME NEW i \in DOMAIN c, c[i][1] = inner, c[i][2][1] = "map"
      PROVE  IsList(c[i][2][2])
  <2>1. CASE i \in DOMAIN a /\ c[i] = a[i]
    BY <1>7, <2>1 DEF IsListed
  <2>2. CASE i - Len(a) \in DOMAIN b /\ c[i] = b[i - Len(a)]
    BY <1>7, <2>2 DEF IsListed
  <2> QED
    BY <1>5, <2>1, <2>2
<1> QED
  BY <1>6, <1>7 DEF IsListed, c

LEMMA EmptyListed ==
    ASSUME NEW inner
    PROVE  IsListed(<<>>, inner)
BY DEF IsListed, IsList

LEMMA SingleListed ==
    ASSUME NEW inner, NEW k, NEW v, k = inner /\ v[1] = "map" => IsList(v[2])
    PROVE  IsListed(<< <<k, v>> >>, inner)
<1> DEFINE m == << <<k, v>> >>
<1>1. DOMAIN m = {1} /\ m[1] = <<k, v>> /\ m \in Seq({<<k, v>>})
  OBVIOUS
<1> HIDE DEF m
<1>2. IsList(m)
  BY <1>1, ListIn
<1>3. ASSUME NEW i \in DOMAIN m, m[i][1] = inner, m[i][2][1] = "map"
      PROVE  IsList(m[i][2][2])
  BY <1>1, <1>3
<1> QED
  BY <1>2, <1>3 DEF m, IsListed

LEMMA OptionalListed ==
    ASSUME NEW inner, NEW k, NEW kind, NEW content, k # inner
    PROVE  IsListed(Optional(k, kind, content), inner)
<1>1. IsListed(<< <<k, <<kind, content>> >> >>, inner)
  BY SingleListed
<1> QED
  BY <1>1, EmptyListed DEF Optional

LEMMA TripleListed ==
    ASSUME NEW inner, NEW k1, NEW k2, NEW k3, NEW v1, NEW v2, NEW v3,
           k1 # inner, k3 # inner,
           k2 = inner /\ v2[1] = "map" => IsList(v2[2])
    PROVE  IsListed(<< <<k1, v1>>, <<k2, v2>>, <<k3, v3>> >>, inner)
<1> DEFINE m == << <<k1, v1>>, <<k2, v2>>, <<k3, v3>> >>
<1>1. /\ DOMAIN m = {1, 2, 3} /\ m[1] = <<k1, v1>> /\ m[2] = <<k2, v2>> /\ m[3] = <<k3, v3>>
      /\ m \in Seq({<<k1, v1>>, <<k2, v2>>, <<k3, v3>>})
  OBVIOUS
<1> HIDE DEF m
<1>2. IsList(m)
  BY <1>1, ListIn
<1>3. ASSUME NEW i \in DOMAIN m, m[i][1] = inner, m[i][2][1] = "map"
      PROVE  IsList(m[i][2][2])
  BY <1>1, <1>3
<1> QED
  BY <1>2, <1>3 DEF m, IsListed

LEMMA ActxToCborIsList ==
    ASSUME NEW actx
    PROVE  IsList(ActxToCbor(actx)[2])
<1> DEFINE a == << <<"type", Text(actx.ctx_type)>>,
                   <<"action", Text(ActionWireName(actx.action))>>,
                   <<"tns", Text(CanonicalTns(actx.tns))>> >>
           b == IF actx.tn = <<>> THEN <<>>
                ELSE << <<"tn", Text(CanonicalElement(actx.tn))>> >>
           c == IF actx.resource = Absent THEN <<>>
                ELSE << <<"parameters", Map(<< <<"resource", Text(actx.resource)>> >>)>> >>
<1>1. IsListed(a, "actx")
  BY TripleListed
<1>2. IsListed(b, "actx")
  BY SingleListed, EmptyListed
<1>3. IsListed(c, "actx")
  BY SingleListed, EmptyListed
<1>4. ActxToCbor(actx)[2] = (a \o b) \o c
  BY DEF ActxToCbor, Map
<1> HIDE DEF a, b, c
<1>5. IsListed(a \o b, "actx")
  BY <1>1, <1>2, ConcatListed
<1>6. IsListed((a \o b) \o c, "actx")
  BY <1>3, <1>5, ConcatListed
<1> QED
  BY <1>4, <1>6 DEF IsListed

LEMMA ActxToJsonIsList ==
    ASSUME NEW actx
    PROVE  IsList(ActxToJson(actx)[2])
<1> DEFINE a == << <<"type", Text(actx.ctx_type)>>,
                   <<"action", Text(ActionWireName(actx.action))>>,
                   <<"tns", Text(CanonicalTns(actx.tns))>> >>
           b == IF actx.tn = <<>> THEN <<>>
                ELSE << <<"tn", Text(CanonicalElement(actx.tn))>> >>
           c == Optional("resource", "text", actx.resource)
<1>1. IsListed(a, "actx")
  BY TripleListed
<1>2. IsListed(b, "actx")
  BY SingleListed, EmptyListed
<1>3. IsListed(c, "actx")
  BY OptionalListed
<1>4. ActxToJson(actx)[2] = (a \o b) \o c
  BY DEF ActxToJson, Map
<1> HIDE DEF a, b, c
<1>5. IsListed(a \o b, "actx")
  BY <1>1, <1>2, ConcatListed
<1>6. IsListed((a \o b) \o c, "actx")
  BY <1>3, <1>5, ConcatListed
<1> QED
  BY <1>4, <1>6 DEF IsListed

LEMMA CoseKeyIsList ==
    ASSUME NEW jwk, JwkToCoseKey(jwk) # Refused
    PROVE  IsList(JwkToCoseKey(jwk)[2])
<1> DEFINE ec == << <<"1", Integer(2)>>, <<"3", Integer(ALG_ES256)>>, <<"-1", Integer(1)>>,
                    <<"-2", ByteString(DecodeBase64(OrEmpty(jwk.x)))>>,
                    <<"-3", ByteString(DecodeBase64(OrEmpty(jwk.y)))>> >>
           rsa == << <<"1", Integer(3)>>, <<"3", Integer(ALG_PS256)>>,
                     <<"-1", ByteString(DecodeBase64(OrEmpty(jwk.n)))>>,
                     <<"-2", ByteString(DecodeBase64(OrEmpty(jwk.e)))>> >>
<1>1. ec \in Seq({ec[1], ec[2], ec[3], ec[4], ec[5]}) /\ rsa \in Seq({rsa[1], rsa[2], rsa[3], rsa[4]})
  OBVIOUS
<1>2. IsList(ec) /\ IsList(rsa)
  <2> HIDE DEF ec, rsa
  <2> QED
    BY <1>1, ListIn
<1>3. JwkToCoseKey(jwk) \in {CoseKey(ec), CoseKey(rsa), Refused}
  BY DEF JwkToCoseKey
<1> HIDE DEF ec, rsa
<1> QED
  BY <1>2, <1>3 DEF CoseKey, Map

LEMMA CwtHeaderIsListed ==
    ASSUME NEW h, CwtEncodeHeader(h) # Refused
    PROVE  IsListed(CwtEncodeHeader(h)[2], "COSE_Key")
<1> DEFINE key == JwkToCoseKey(h.jwk)
           m == << <<"alg", Integer(h.alg)>>, <<"COSE_Key", key>>, <<"typ", Text(h.typ)>> >>
<1>1. key # Refused /\ CwtEncodeHeader(h)[2] = m
  BY DEF CwtEncodeHeader, Unless, Map
<1>2. IsList(key[2])
  BY <1>1, CoseKeyIsList
<1> HIDE DEF key
<1>3. IsListed(m, "COSE_Key")
  BY <1>2, TripleListed
<1> QED
  BY <1>1, <1>3

LEMMA JwtHeaderIsListed ==
    ASSUME NEW h, JwtEncodeHeader(h) # Refused
    PROVE  IsListed(JwtEncodeHeader(h)[2], "COSE_Key")
<1> DEFINE m == << <<"alg", Text(CoseToJose(h.alg))>>, <<"typ", Text(h.typ)>>,
                   <<"jwk", JwkToJson(h.jwk)>> >>
<1>1. JwtEncodeHeader(h)[2] = m
  BY DEF JwtEncodeHeader, Unless, Map
<1>2. IsListed(m, "COSE_Key")
  BY TripleListed
<1> QED
  BY <1>1, <1>2

\* Both payloads are five parts, the third of them the actx.
LEMMA PayloadIsListed ==
    ASSUME NEW a, NEW b, NEW c, NEW d, NEW e, IsListed(a, "actx"), IsListed(b, "actx"),
           IsListed(c, "actx"), IsListed(d, "actx"), IsListed(e, "actx")
    PROVE  IsListed(a \o b \o c \o d \o e, "actx")
<1>1. IsListed(a \o b, "actx")
  BY ConcatListed
<1>2. IsListed((a \o b) \o c, "actx")
  BY <1>1, ConcatListed
<1>3. IsListed(((a \o b) \o c) \o d, "actx")
  BY <1>2, ConcatListed
<1> QED
  BY <1>3, ConcatListed

LEMMA CwtPayloadIsListed ==
    ASSUME NEW p
    PROVE  IsListed(CwtEncodePayload(p)[2], "actx")
<1> DEFINE a == << <<"iat", Integer(p.iat)>> >>
           b == Optional("cti", "bytes", p.cti)
           c == << <<"actx", ActxToCbor(p.actx)>> >>
           d == Optional("nonce", "text", p.nonce)
           e == Optional("ath", "bytes", p.ath)
<1>1. IsListed(a, "actx")
  BY SingleListed
<1>2. IsListed(b, "actx") /\ IsListed(d, "actx") /\ IsListed(e, "actx")
  BY OptionalListed
<1>3. IsListed(c, "actx")
  BY ActxToCborIsList, SingleListed
<1>4. CwtEncodePayload(p)[2] = a \o b \o c \o d \o e
  BY DEF CwtEncodePayload, Map
<1> HIDE DEF a, b, c, d, e
<1> QED
  BY <1>1, <1>2, <1>3, <1>4, PayloadIsListed

LEMMA JwtPayloadIsListed ==
    ASSUME NEW p, JwtEncodePayload(p) # Refused
    PROVE  IsListed(JwtEncodePayload(p)[2], "actx")
<1> DEFINE a == << <<"iat", Integer(p.iat)>> >>
           b == Optional("jti", "text", p.cti)
           c == << <<"actx", ActxToJson(p.actx)>> >>
           d == Optional("nonce", "text", p.nonce)
           ath == IF p.ath = Absent THEN Absent ELSE EncodeBase64(p.ath)
           e == Optional("ath", "text", ath)
<1>1. IsListed(a, "actx")
  BY SingleListed
<1>2. IsListed(b, "actx") /\ IsListed(d, "actx")
  BY OptionalListed
<1>3. IsListed(e, "actx")
  <2> HIDE DEF ath
  <2> QED
    BY OptionalListed
<1>4. IsListed(c, "actx")
  BY ActxToJsonIsList, SingleListed
<1>5. JwtEncodePayload(p)[2] = a \o b \o c \o d \o e
  BY DEF JwtEncodePayload, Unless, Map
<1> HIDE DEF a, b, c, d, e
<1> QED
  BY <1>1, <1>2, <1>3, <1>4, <1>5, PayloadIsListed

LEMMA EncodedIsSigned ==
    ASSUME NEW format, NEW h, NEW p, EncodeHeaderAndPayload(format, h, p) # Refused
    PROVE  IsSigned(EncodeHeaderAndPayload(format, h, p))
<1> DEFINE H == IF format = "Cwt" THEN CwtEncodeHeader(h) ELSE JwtEncodeHeader(h)
           P == IF format = "Cwt" THEN CwtEncodePayload(p) ELSE JwtEncodePayload(p)
<1>1. EncodeHeaderAndPayload(format, h, p) = Collect(<<H, P>>)
  BY DEF EncodeHeaderAndPayload
<1>2. IsListed(H[2], "COSE_Key") \/ H = Refused
  BY CwtHeaderIsListed, JwtHeaderIsListed
<1>3. IsListed(P[2], "actx") \/ P = Refused
  BY CwtPayloadIsListed, JwtPayloadIsListed
<1> HIDE DEF H, P
<1>4. H # Refused /\ P # Refused /\ Collect(<<H, P>>) = <<H, P>>
  BY <1>1 DEF Collect
<1> QED
  BY <1>1, <1>2, <1>3, <1>4 DEF IsSigned

-----------------------------------------------------------------------------
(* The theorem.                                                            *)

Fields == {"header", "payload", "signature", "signed_bytes", "wire_format"}

\* The invariant of one proof.
ProofInv(p) ==
    /\ DOMAIN p = Fields
    /\ p.wire_format \in {"Cwt", "Jwt"}
    /\ p.signed_bytes # <<>> => p.signed_bytes # Refused /\ IsSigned(p.signed_bytes)

LEMMA CoveredIsSigned ==
    ASSUME NEW p, ProofInv(p), Covered(p) # Refused
    PROVE  IsSigned(Covered(p))
BY EncodedIsSigned DEF Covered, ProofInv

LEMMA DecodedIsSigned ==
    ASSUME NEW w, Decode(w) # Refused, w.signed # Refused, IsSigned(w.signed)
    PROVE  ProofInv(Decode(w))
<1>1. PICK f \in {"Cwt", "Jwt"} :
            \E h, p : Decode(w) = Decoded(w, f, h, p)
  BY DEF Decode
<1>2. PICK h, p : Decode(w) = Decoded(w, f, h, p)
  BY <1>1
<1>3. Decode(w) = [header |-> h, payload |-> p, signature |-> w.signature,
                   signed_bytes |-> w.signed, wire_format |-> f]
  BY <1>2 DEF Decoded, Unless
<1> QED
  BY <1>3 DEF ProofInv, Fields

LEMMA ShapeHolds == WSpec => []ShapeInv
<1>1. WInit => ShapeInv
  BY DEF WInit, ShapeInv
<1>2. ShapeInv /\ [WNext]_wvars => ShapeInv'
  <2> SUFFICES ASSUME ShapeInv, [WNext]_wvars
               PROVE  ShapeInv'
    OBVIOUS
  <2>0. ShapeInv <=> (proof # Absent => ProofInv(proof))
    BY DEF ShapeInv, ProofInv, Fields
  <2>00. ProofInv(proof') => ShapeInv'
    BY DEF ShapeInv, ProofInv, Fields
  <2>1. ASSUME NEW c, NEW holder, CreateForMoqt(c, holder)
        PROVE  ShapeInv'
    BY <2>00, <2>1 DEF CreateForMoqt, ProofInv, Fields
  <2>2. CASE New
    BY <2>0, <2>00, <2>2 DEF New, ProofInv, Fields
  <2>3. ASSUME NEW payload, proof # Absent, WithPayload(payload)
        PROVE  ShapeInv'
    BY <2>0, <2>00, <2>3 DEF WithPayload, ProofInv, Fields
  <2>4. ASSUME NEW format \in {"Cwt", "Jwt"}, WithWireFormat(format)
        PROVE  ShapeInv'
    BY <2>0, <2>00, <2>4 DEF WithWireFormat, ProofInv, Fields
  <2>5. ASSUME NEW signer, Sign(signer)
        PROVE  ShapeInv'
    <3> DEFINE bytes == EncodeHeaderAndPayload(proof.wire_format, proof.header, proof.payload)
               signature == [by |-> signer.by,
                             over |-> SignatureInput(proof.wire_format, proof.header.alg, bytes)]
    <3>1. /\ proof # Absent /\ bytes # Refused
          /\ proof' = [proof EXCEPT !.signature = signature, !.signed_bytes = bytes]
      BY <2>5 DEF Sign
    <3>2. IsSigned(bytes)
      BY <3>1, EncodedIsSigned
    <3> HIDE DEF bytes, signature
    <3> QED
      BY <2>0, <2>00, <3>1, <3>2 DEF ProofInv, Fields
  <2>6. CASE Deliver
    <3>1. proof # Absent /\ Encode(proof) # Refused /\ Decode(Encode(proof)) # Refused
          /\ proof' = Decode(Encode(proof))
      BY <2>6 DEF Deliver
    <3>2. Encode(proof).signed = Covered(proof) /\ Covered(proof) # Refused
      BY <3>1 DEF Encode, Unless
    <3> QED
      BY <2>0, <2>00, <3>1, <3>2, CoveredIsSigned, DecodedIsSigned
  <2>7. ASSUME NEW w \in ForeignWires, NEW by, Receive(w, by)
        PROVE  ShapeInv'
    <3> DEFINE p == Decode(w)
               over == SignatureInput(p.wire_format, p.header.alg, w.signed)
    <3>1. p # Refused /\ proof' = [p EXCEPT !.signature = [by |-> by, over |-> over]]
      BY <2>7 DEF Receive
    <3>2. ProofInv(p)
      BY <3>1, WireConstants, DecodedIsSigned DEF IsForeign
    <3> HIDE DEF p, over
    <3> QED
      BY <2>00, <3>1, <3>2 DEF ProofInv, Fields
  <2>8. CASE UNCHANGED wvars
    BY <2>8 DEF ShapeInv, wvars
  <2>9. CASE Step
    <3>1. CASE \E id \in Ids : WithReplayId(id)
      BY <2>3, <3>1 DEF WithReplayId
    <3>2. CASE \E endpoint \in Endpoints, named \in {"endpoint", "namespace", "track"} :
                  WithResource(endpoint, named)
      BY <2>3, <3>2 DEF WithResource
    <3>3. CASE \E ath \in Hashes : WithAccessTokenHash(ath)
      BY <2>3, <3>3 DEF WithAccessTokenHash
    <3>4. CASE \E text \in HashTexts : WithAccessTokenHashB64(text)
      BY <2>3, <3>4 DEF WithAccessTokenHashB64
    <3>5. CASE \E nonce \in Nonces : WithNonce(nonce)
      BY <2>3, <3>5 DEF WithNonce
    <3> QED
      BY <2>1, <2>2, <2>4, <2>5, <2>6, <2>7, <2>9, <3>1, <3>2, <3>3, <3>4, <3>5 DEF Step
  <2> QED
    BY <2>8, <2>9 DEF WNext
<1> QED
  BY <1>1, <1>2, PTL DEF WSpec

\* For proofs with any number of steps behind them, whatever another encoder
\* wrote: a reader that resolves repeated keys the other way round agrees with
\* decode() about every proof that decode() accepts (into_int_keyed_map,
\* dpop.rs 817-841; reject_duplicate_top_level_keys, 1548-1554).
THEOREM ReadersAgree ==
    ASSUME Apart
    PROVE  WSpec => []AcceptedIsUnambiguous
<1>1. ShapeInv => AcceptedIsUnambiguous
  <2> SUFFICES ASSUME ShapeInv, proof # Absent, proof.signed_bytes # <<>>,
                      Decode(Encode(proof)) # Refused
               PROVE  LET nested == proof.wire_format = "Cwt"
                          flipped == Decode([Encode(proof) EXCEPT !.signed =
                                        <<BackToFront(@[1], IF nested THEN "COSE_Key" ELSE ""),
                                          BackToFront(@[2], IF nested THEN "actx" ELSE "")>>])
                      IN  flipped # Refused /\ Content(flipped) = Content(Decode(Encode(proof)))
    BY DEF AcceptedIsUnambiguous
  <2> DEFINE s == proof.signed_bytes
             g == proof.signature
  <2>1. s # Refused /\ IsSigned(s) /\ proof.wire_format \in {"Cwt", "Jwt"}
    BY DEF ShapeInv
  <2>2. CASE proof.wire_format = "Cwt"
    <3> DEFINE w == [frame |-> "sign1", signed |-> s, signature |-> g]
               t == [frame |-> "sign1", signed |-> Flipped(s, TRUE), signature |-> g]
    <3>1. Encode(proof) = w
      BY <2>1, <2>2 DEF Encode, Covered, Unless
    <3>2. Flipped(s, TRUE) = <<BackToFront(s[1], "COSE_Key"), BackToFront(s[2], "actx")>>
      BY DEF Flipped
    <3> HIDE DEF s, g
    <3>3. [w EXCEPT !.signed = <<BackToFront(@[1], "COSE_Key"), BackToFront(@[2], "actx")>>] = t
      <4>1. \A x : [w EXCEPT !.signed = x] = [frame |-> "sign1", signed |-> x, signature |-> g]
        OBVIOUS
      <4>2. w.signed = s
        OBVIOUS
      <4> HIDE DEF w
      <4> QED
        BY <3>2, <4>1, <4>2
    <3>4. Decode(w) # Refused
      BY <3>1
    <3>5. /\ Decode(t) # Refused
          /\ Decode(t).header = Decode(w).header /\ Decode(t).payload = Decode(w).payload
      BY <2>1, <3>4, CwtTurned
    <3> HIDE DEF w, t
    <3>6. Content(Decode(t)) = Content(Decode(w))
      BY <3>5 DEF Content
    <3> QED
      BY <2>2, <3>1, <3>3, <3>5, <3>6
  <2>3. CASE proof.wire_format = "Jwt"
    <3> DEFINE w == [frame |-> "compact", signed |-> s, signature |-> g]
               t == [frame |-> "compact", signed |-> Flipped(s, FALSE), signature |-> g]
    <3>1. Encode(proof) = w
      BY <2>1, <2>3 DEF Encode, Covered, Unless
    <3>2. Flipped(s, FALSE) = <<BackToFront(s[1], ""), BackToFront(s[2], "")>>
      BY DEF Flipped
    <3> HIDE DEF s, g
    <3>3. [w EXCEPT !.signed = <<BackToFront(@[1], ""), BackToFront(@[2], "")>>] = t
      <4>1. \A x : [w EXCEPT !.signed = x] = [frame |-> "compact", signed |-> x, signature |-> g]
        OBVIOUS
      <4>2. w.signed = s
        OBVIOUS
      <4> HIDE DEF w
      <4> QED
        BY <3>2, <4>1, <4>2
    <3>4. Decode(w) # Refused
      BY <3>1
    <3>5. /\ Decode(t) # Refused
          /\ Decode(t).header = Decode(w).header /\ Decode(t).payload = Decode(w).payload
      BY <2>1, <3>4, JwtTurned
    <3> HIDE DEF w, t
    <3>6. Content(Decode(t)) = Content(Decode(w))
      BY <3>5 DEF Content
    <3> QED
      BY <2>3, <3>1, <3>3, <3>5, <3>6
  <2> QED
    BY <2>1, <2>2, <2>3
<1> QED
  BY <1>1, ShapeHolds, PTL

-----------------------------------------------------------------------------
(* Lookups in what the encoders write: a concatenation of maps that have   *)
(* no key in common.                                                       *)

Keys(m) == {m[i][1] : i \in DOMAIN m}
Tidy(m) == IsList(m) /\ HasUniqueKeys(m)

LEMMA TidyGet ==
    ASSUME NEW m, Tidy(m), NEW i \in DOMAIN m
    PROVE  Get(m, m[i][1]) = m[i][2]
<1>1. DOMAIN m \subseteq Nat
  BY ImagePairs DEF Tidy
<1> QED
  BY <1>1, GetTheOne DEF Tidy

LEMMA GetNoKey ==
    ASSUME NEW m, NEW k, k \notin Keys(m)
    PROVE  Get(m, k) = Absent
BY GetNone DEF Keys

LEMMA ConcatPairs ==
    ASSUME NEW a, NEW b, IsList(a), IsList(b)
    PROVE  /\ IsList(a \o b)
           /\ \A i \in DOMAIN a : i \in DOMAIN (a \o b) /\ (a \o b)[i] = a[i]
           /\ \A i \in DOMAIN b : i + Len(a) \in DOMAIN (a \o b) /\ (a \o b)[i + Len(a)] = b[i]
           /\ \A i \in DOMAIN (a \o b) :
                 \/ i \in DOMAIN a
                 \/ i - Len(a) \in DOMAIN b /\ i = (i - Len(a)) + Len(a)
<1> DEFINE A == {a[i] : i \in DOMAIN a}
           B == {b[i] : i \in DOMAIN b}
           c == a \o b
<1>1. a \in Seq(A) /\ b \in Seq(B)
  BY DEF IsList
<1> HIDE DEF A, B
<1>2. a \in Seq(A \cup B) /\ b \in Seq(A \cup B)
  BY <1>1
<1>3. /\ c \in Seq(A \cup B) /\ Len(c) = Len(a) + Len(b)
      /\ \A i \in 1 .. Len(a) + Len(b) : c[i] = IF i <= Len(a) THEN a[i] ELSE b[i - Len(a)]
  BY <1>2, ConcatProperties
<1>4. /\ Len(a) \in Nat /\ Len(b) \in Nat /\ DOMAIN a = 1 .. Len(a) /\ DOMAIN b = 1 .. Len(b)
  BY <1>2
<1> HIDE DEF c
<1>5. DOMAIN c = 1 .. Len(a) + Len(b)
  BY <1>3
<1>6. IsList(c)
  BY <1>3, ListIn
<1>7. \A i \in DOMAIN a : i \in DOMAIN c /\ c[i] = a[i]
  BY <1>3, <1>4, <1>5
<1>8. ASSUME NEW i \in DOMAIN b
      PROVE  i + Len(a) \in DOMAIN c /\ c[i + Len(a)] = b[i]
  <2>1. i + Len(a) \in 1 .. Len(a) + Len(b) /\ ~(i + Len(a) <= Len(a)) /\ (i + Len(a)) - Len(a) = i
    BY <1>4
  <2> QED
    BY <1>3, <1>5, <2>1
<1>9. \A i \in DOMAIN c :
         \/ i \in DOMAIN a
         \/ i - Len(a) \in DOMAIN b /\ i = (i - Len(a)) + Len(a)
  BY <1>4, <1>5
<1> QED
  BY <1>6, <1>7, <1>8, <1>9 DEF c

LEMMA ConcatTidy ==
    ASSUME NEW a, NEW b, Tidy(a), Tidy(b), Keys(a) \cap Keys(b) = {}
    PROVE  Tidy(a \o b) /\ Keys(a \o b) = Keys(a) \cup Keys(b)
<1> DEFINE c == a \o b
           n == Len(a)
<1>1. /\ IsList(c)
      /\ \A i \in DOMAIN a : i \in DOMAIN c /\ c[i] = a[i]
      /\ \A i \in DOMAIN b : i + n \in DOMAIN c /\ c[i + n] = b[i]
      /\ \A i \in DOMAIN c : i \in DOMAIN a \/ (i - n \in DOMAIN b /\ i = (i - n) + n)
  BY ConcatPairs DEF Tidy
<1> HIDE DEF c, n
<1>2. \A i \in DOMAIN c : \/ i \in DOMAIN a /\ c[i][1] = a[i][1] /\ c[i][1] \in Keys(a)
                          \/ /\ i - n \in DOMAIN b /\ i = (i - n) + n
                             /\ c[i][1] = b[i - n][1] /\ c[i][1] \in Keys(b)
  BY <1>1 DEF Keys
<1>3. ASSUME NEW i \in DOMAIN c, NEW j \in DOMAIN c, c[i][1] = c[j][1]
      PROVE  i = j
  <2>1. CASE i \in DOMAIN a /\ c[i][1] = a[i][1] /\ c[i][1] \in Keys(a)
    BY <1>2, <1>3, <2>1 DEF Tidy, HasUniqueKeys
  <2>2. CASE i - n \in DOMAIN b /\ i = (i - n) + n /\ c[i][1] = b[i - n][1] /\ c[i][1] \in Keys(b)
    <3>1. j - n \in DOMAIN b /\ j = (j - n) + n /\ c[j][1] = b[j - n][1]
      BY <1>2, <1>3, <2>2
    <3>2. i - n = j - n
      BY <1>3, <2>2, <3>1 DEF Tidy, HasUniqueKeys
    <3> QED
      BY <2>2, <3>1, <3>2
  <2> QED
    BY <1>2, <2>1, <2>2
<1>4. Tidy(c)
  BY <1>1, <1>3 DEF Tidy, HasUniqueKeys
<1>5. Keys(c) \subseteq Keys(a) \cup Keys(b)
  BY <1>2 DEF Keys
<1>6. Keys(a) \subseteq Keys(c)
  BY <1>1 DEF Keys
<1>7. Keys(b) \subseteq Keys(c)
  BY <1>1 DEF Keys
<1> QED
  BY <1>4, <1>5, <1>6, <1>7 DEF c

\* A lookup in the concatenation is one in the part that has the key.
LEMMA ConcatGetLeft ==
    ASSUME NEW a, NEW b, Tidy(a), Tidy(b), Keys(a) \cap Keys(b) = {},
           NEW k, k \notin Keys(b)
    PROVE  Get(a \o b, k) = Get(a, k)
<1> DEFINE c == a \o b
<1>1. Tidy(c) /\ Keys(c) = Keys(a) \cup Keys(b)
  BY ConcatTidy
<1>2. \A i \in DOMAIN a : i \in DOMAIN c /\ c[i] = a[i]
  BY ConcatPairs DEF Tidy
<1> HIDE DEF c
<1>3. CASE k \notin Keys(a)
  BY <1>1, <1>3, GetNoKey DEF c
<1>4. CASE k \in Keys(a)
  <2>1. PICK i \in DOMAIN a : a[i][1] = k
    BY <1>4 DEF Keys
  <2>2. Get(a, a[i][1]) = a[i][2]
    BY TidyGet
  <2>3. Get(c, c[i][1]) = c[i][2]
    BY <1>1, <1>2, TidyGet
  <2> QED
    BY <1>2, <2>1, <2>2, <2>3 DEF c
<1> QED
  BY <1>3, <1>4

LEMMA ConcatGetRight ==
    ASSUME NEW a, NEW b, Tidy(a), Tidy(b), Keys(a) \cap Keys(b) = {},
           NEW k, k \notin Keys(a)
    PROVE  Get(a \o b, k) = Get(b, k)
<1> DEFINE c == a \o b
<1>1. Tidy(c) /\ Keys(c) = Keys(a) \cup Keys(b)
  BY ConcatTidy
<1>2. \A i \in DOMAIN b : i + Len(a) \in DOMAIN c /\ c[i + Len(a)] = b[i]
  BY ConcatPairs DEF Tidy
<1> HIDE DEF c
<1>3. CASE k \notin Keys(b)
  BY <1>1, <1>3, GetNoKey DEF c
<1>4. CASE k \in Keys(b)
  <2>1. PICK i \in DOMAIN b : b[i][1] = k
    BY <1>4 DEF Keys
  <2>2. Get(b, b[i][1]) = b[i][2]
    BY TidyGet
  <2> DEFINE j == i + Len(a)
  <2>3. j \in DOMAIN c /\ c[j] = b[i]
    BY <1>2
  <2> HIDE DEF j
  <2>4. Get(c, c[j][1]) = c[j][2]
    BY <1>1, <2>3, TidyGet
  <2> QED
    BY <2>1, <2>2, <2>3, <2>4 DEF c
<1> QED
  BY <1>3, <1>4

\* The parts.
LEMMA EmptyTidy == Tidy(<<>>) /\ Keys(<<>>) = {}
BY EmptyListed DEF Tidy, Keys, HasUniqueKeys, IsListed

LEMMA SingleTidy ==
    ASSUME NEW k, NEW v
    PROVE  /\ Tidy(<< <<k, v>> >>) /\ Keys(<< <<k, v>> >>) = {k}
           /\ Get(<< <<k, v>> >>, k) = v
<1> DEFINE m == << <<k, v>> >>
<1>1. DOMAIN m = {1} /\ m[1] = <<k, v>> /\ m \in Seq({<<k, v>>})
  OBVIOUS
<1> HIDE DEF m
<1>2. Tidy(m) /\ Keys(m) = {k}
  BY <1>1, ListIn DEF Tidy, HasUniqueKeys, Keys
<1>3. Get(m, m[1][1]) = m[1][2]
  BY <1>1, <1>2, TidyGet
<1> QED
  BY <1>1, <1>2, <1>3 DEF m

LEMMA OptionalTidy ==
    ASSUME NEW k, NEW kind, NEW content
    PROVE  /\ Tidy(Optional(k, kind, content)) /\ Keys(Optional(k, kind, content)) \subseteq {k}
           /\ Get(Optional(k, kind, content), k)
                = IF content = Absent THEN Absent ELSE <<kind, content>>
BY SingleTidy, EmptyTidy, GetNoKey DEF Optional

LEMMA TripleTidy ==
    ASSUME NEW k1, NEW k2, NEW k3, NEW v1, NEW v2, NEW v3, k1 # k2, k1 # k3, k2 # k3
    PROVE  LET m == << <<k1, v1>>, <<k2, v2>>, <<k3, v3>> >>
           IN  /\ Tidy(m) /\ Keys(m) = {k1, k2, k3}
               /\ Get(m, k1) = v1 /\ Get(m, k2) = v2 /\ Get(m, k3) = v3
<1> DEFINE m == << <<k1, v1>>, <<k2, v2>>, <<k3, v3>> >>
<1>1. /\ DOMAIN m = {1, 2, 3} /\ m[1] = <<k1, v1>> /\ m[2] = <<k2, v2>> /\ m[3] = <<k3, v3>>
      /\ m \in Seq({<<k1, v1>>, <<k2, v2>>, <<k3, v3>>})
  OBVIOUS
<1> HIDE DEF m
<1>2. Tidy(m) /\ Keys(m) = {k1, k2, k3}
  BY <1>1, ListIn DEF Tidy, HasUniqueKeys, Keys
<1>3. Get(m, m[1][1]) = m[1][2] /\ Get(m, m[2][1]) = m[2][2] /\ Get(m, m[3][1]) = m[3][2]
  BY <1>1, <1>2, TidyGet
<1> QED
  BY <1>1, <1>2, <1>3 DEF m

-----------------------------------------------------------------------------
(* Keys.                                                                   *)

LEMMA Base64Symbols ==
    ASSUME NEW a \in DOMAIN Base64, NEW b \in DOMAIN Base64, Base64[a] = Base64[b]
    PROVE  a = b
BY DEF Base64

\* What base64 decodes to is encoded as it was,
LEMMA DecodedBase64 ==
    ASSUME NEW x, IsList(x), DecodeBase64(x) # Refused
    PROVE  IsBytes(DecodeBase64(x)) /\ EncodeBase64(DecodeBase64(x)) = x
<1> DEFINE at(i) == CHOOSE b \in DOMAIN Base64 : Base64[b] = x[i]
           d == [i \in DOMAIN x |-> at(i)]
           S == {d[i] : i \in DOMAIN d}
<1>1. \A i \in DOMAIN x : \E b \in DOMAIN Base64 : Base64[b] = x[i]
  BY DEF DecodeBase64
<1>2. \A i \in DOMAIN x : at(i) \in DOMAIN Base64 /\ Base64[at(i)] = x[i]
  BY <1>1
<1>3. DecodeBase64(x) = d
  BY DEF DecodeBase64
<1>4. x = [i \in DOMAIN x |-> x[i]] /\ Len(x) \in Nat /\ DOMAIN x = 1 .. Len(x)
  BY DEF IsList
<1> HIDE DEF at
<1>5. DOMAIN d = DOMAIN x /\ \A i \in DOMAIN x : d[i] \in DOMAIN Base64 /\ Base64[d[i]] = x[i]
  BY <1>2
<1>6. d = [i \in 1 .. Len(x) |-> d[i]] /\ \A i \in 1 .. Len(x) : d[i] \in S
  BY <1>4
<1> HIDE DEF d, S
<1>7. d \in Seq(S)
  BY <1>4, <1>6
<1>8. IsBytes(d)
  BY <1>5, <1>7, ListIn DEF IsBytes
<1>9. [i \in DOMAIN d |-> Base64[d[i]]] = x
  BY <1>4, <1>5
<1> QED
  BY <1>3, <1>8, <1>9 DEF EncodeBase64

\* and what it encodes is decoded to what it was.
LEMMA EncodedBase64 ==
    ASSUME NEW b, IsBytes(b)
    PROVE  IsList(EncodeBase64(b)) /\ DecodeBase64(EncodeBase64(b)) = b
<1> DEFINE x == [i \in DOMAIN b |-> Base64[b[i]]]
           S == {x[i] : i \in DOMAIN x}
<1>1. b = [i \in DOMAIN b |-> b[i]] /\ Len(b) \in Nat /\ DOMAIN b = 1 .. Len(b)
  BY DEF IsBytes, IsList
<1>2. EncodeBase64(b) = x
  BY DEF EncodeBase64
<1>3. DOMAIN x = DOMAIN b /\ \A i \in DOMAIN b : x[i] = Base64[b[i]]
  OBVIOUS
<1>4. x = [i \in 1 .. Len(b) |-> x[i]] /\ \A i \in 1 .. Len(b) : x[i] \in S
  BY <1>1
<1> HIDE DEF x, S
<1>5. x \in Seq(S)
  BY <1>1, <1>4
<1>6. IsList(x)
  BY <1>5, ListIn
<1>7. \A i \in DOMAIN b : b[i] \in DOMAIN Base64
  BY DEF IsBytes
<1>8. ASSUME NEW i \in DOMAIN x
      PROVE  (CHOOSE c \in DOMAIN Base64 : Base64[c] = x[i]) = b[i]
  BY <1>3, <1>7, Base64Symbols
<1>9. ~ \E i \in DOMAIN x : \A c \in DOMAIN Base64 : Base64[c] # x[i]
  BY <1>3, <1>7
<1>10. DecodeBase64(x) = [i \in DOMAIN x |-> CHOOSE c \in DOMAIN Base64 : Base64[c] = x[i]]
  BY <1>9 DEF DecodeBase64
<1>11. [i \in DOMAIN x |-> CHOOSE c \in DOMAIN Base64 : Base64[c] = x[i]] = [i \in DOMAIN x |-> b[i]]
  BY <1>8
<1> QED
  BY <1>1, <1>2, <1>3, <1>6, <1>10, <1>11

\* The thumbprints of the two kinds of key.
LEMMA EcThumbprint ==
    ASSUME NEW jwk, jwk.kty = "EC"
    PROVE  Thumbprint(jwk) =
             IF \/ jwk.x = Absent \/ jwk.y = Absent \/ jwk.crv = Absent
                \/ DecodeBase64(jwk.x) = Refused \/ DecodeBase64(jwk.y) = Refused
             THEN Refused ELSE Digest("SHA-256", <<"EC", jwk.crv, <<jwk.x, jwk.y>> >>)
BY DEF Thumbprint

LEMMA RsaThumbprint ==
    ASSUME NEW jwk, jwk.kty = "RSA"
    PROVE  Thumbprint(jwk) =
             IF \/ jwk.e = Absent \/ jwk.n = Absent
                \/ DecodeBase64(jwk.e) = Refused \/ DecodeBase64(jwk.n) = Refused
             THEN Refused ELSE Digest("SHA-256", <<"RSA", Absent, <<jwk.e, jwk.n>> >>)
BY DEF Thumbprint

LEMMA DigestIsApart ==
    ASSUME Apart, NEW a, NEW t
    PROVE  Digest(a, t) # Refused
BY DEF Apart, Digest

\* The key a COSE_Key is read as.
EcKey(x, y) == [kty |-> "EC", crv |-> "P-256", x |-> x, y |-> y, n |-> Absent, e |-> Absent]
RsaKey(n, e) == [kty |-> "RSA", crv |-> Absent, x |-> Absent, y |-> Absent, n |-> n, e |-> e]

LEMMA EcKeyRead ==
    ASSUME Apart, NEW a, NEW b, IsBytes(a), IsBytes(b)
    PROVE  CoseKeyToJwk(Map(<< <<"1", Integer(2)>>, <<"3", Integer(ALG_ES256)>>,
                               <<"-1", Integer(1)>>, <<"-2", ByteString(a)>>,
                               <<"-3", ByteString(b)>> >>))
             = EcKey(EncodeBase64(a), EncodeBase64(b))
<1> DEFINE m == << <<"1", Integer(2)>>, <<"3", Integer(ALG_ES256)>>, <<"-1", Integer(1)>>,
                   <<"-2", ByteString(a)>>, <<"-3", ByteString(b)>> >>
<1>1. /\ DOMAIN m = {1, 2, 3, 4, 5}
      /\ m[1][1] = "1" /\ m[2][1] = "3" /\ m[3][1] = "-1" /\ m[4][1] = "-2" /\ m[5][1] = "-3"
      /\ m[1][2] = <<"int", 2>> /\ m[3][2] = <<"int", 1>>
      /\ m[4][2] = <<"bytes", a>> /\ m[5][2] = <<"bytes", b>>
      /\ m \in Seq({m[1], m[2], m[3], m[4], m[5]})
  BY DEF Integer, ByteString
<1> HIDE DEF m
<1>2. Tidy(m) /\ IntKeyed(m)
  BY <1>1, ListIn DEF Tidy, HasUniqueKeys, IntKeyed
<1>3. /\ Get(m, m[1][1]) = m[1][2] /\ Get(m, m[3][1]) = m[3][2]
      /\ Get(m, m[4][1]) = m[4][2] /\ Get(m, m[5][1]) = m[5][2]
  BY <1>1, <1>2, TidyGet
<1>4. /\ Get(m, "1") = <<"int", 2>> /\ Get(m, "-1") = <<"int", 1>>
      /\ Get(m, "-2") = <<"bytes", a>> /\ Get(m, "-3") = <<"bytes", b>>
  BY <1>1, <1>3
<1>5. /\ <<"int", 2>> # Absent /\ <<"int", 1>> # Absent
      /\ <<"bytes", a>> # Absent /\ <<"bytes", b>> # Absent
  BY PairIsList, ListIsApart
<1>6. /\ As(m, "1", "int") = 2 /\ As(m, "-1", "int") = 1
      /\ As(m, "-2", "bytes") = a /\ As(m, "-3", "bytes") = b
  BY <1>4, <1>5 DEF As
<1>7. a # Absent /\ b # Absent
  BY ListIsApart DEF IsBytes
<1>8. EcJwk(m) = EcKey(EncodeBase64(a), EncodeBase64(b))
  BY <1>6, <1>7 DEF EcJwk, EcKey
<1>9. CoseKeyToJwk(<<"map", m>>) = EcJwk(m)
  BY <1>2, <1>6 DEF CoseKeyToJwk
<1> QED
  BY <1>8, <1>9 DEF m, Map

LEMMA RsaKeyRead ==
    ASSUME Apart, NEW a, NEW b, IsBytes(a), IsBytes(b)
    PROVE  CoseKeyToJwk(Map(<< <<"1", Integer(3)>>, <<"3", Integer(ALG_PS256)>>,
                               <<"-1", ByteString(a)>>, <<"-2", ByteString(b)>> >>))
             = RsaKey(EncodeBase64(a), EncodeBase64(b))
<1> DEFINE m == << <<"1", Integer(3)>>, <<"3", Integer(ALG_PS256)>>,
                   <<"-1", ByteString(a)>>, <<"-2", ByteString(b)>> >>
<1>1. /\ DOMAIN m = {1, 2, 3, 4}
      /\ m[1][1] = "1" /\ m[2][1] = "3" /\ m[3][1] = "-1" /\ m[4][1] = "-2"
      /\ m[1][2] = <<"int", 3>> /\ m[3][2] = <<"bytes", a>> /\ m[4][2] = <<"bytes", b>>
      /\ m \in Seq({m[1], m[2], m[3], m[4]})
  BY DEF Integer, ByteString
<1> HIDE DEF m
<1>2. Tidy(m) /\ IntKeyed(m)
  BY <1>1, ListIn DEF Tidy, HasUniqueKeys, IntKeyed
<1>3. /\ Get(m, m[1][1]) = m[1][2] /\ Get(m, m[3][1]) = m[3][2] /\ Get(m, m[4][1]) = m[4][2]
  BY <1>1, <1>2, TidyGet
<1>4. /\ Get(m, "1") = <<"int", 3>> /\ Get(m, "-1") = <<"bytes", a>>
      /\ Get(m, "-2") = <<"bytes", b>>
  BY <1>1, <1>3
<1>5. <<"int", 3>> # Absent /\ <<"bytes", a>> # Absent /\ <<"bytes", b>> # Absent
  BY PairIsList, ListIsApart
<1>6. As(m, "1", "int") = 3 /\ As(m, "-1", "bytes") = a /\ As(m, "-2", "bytes") = b
  BY <1>4, <1>5 DEF As
<1>7. a # Absent /\ b # Absent
  BY ListIsApart DEF IsBytes
<1>8. RsaJwk(m) = RsaKey(EncodeBase64(a), EncodeBase64(b))
  BY <1>6, <1>7 DEF RsaJwk, RsaKey
<1>9. CoseKeyToJwk(<<"map", m>>) = RsaJwk(m)
  BY <1>2, <1>6 DEF CoseKeyToJwk
<1> QED
  BY <1>8, <1>9 DEF m, Map

\* A COSE_Key is read as a complete key, and as the one it was made from if
\* that was complete.
LEMMA CoseKeySurvives ==
    ASSUME Apart, NEW jwk, IsKey(jwk), JwkToCoseKey(jwk) # Refused
    PROVE  LET k == CoseKeyToJwk(JwkToCoseKey(jwk))
           IN  /\ k # Refused /\ IsKey(k)
               /\ Thumbprint(jwk) # Refused => Thumbprint(k) = Thumbprint(jwk)
<1> DEFINE key == JwkToCoseKey(jwk)
           k == CoseKeyToJwk(key)
<1>0. /\ \A m \in {"x", "y", "n", "e"} : jwk[m] = Absent \/ IsList(jwk[m])
      /\ IsList(<<>>)
  BY EmptyListed DEF IsKey, IsListed
<1>1. CASE jwk.kty = "EC" /\ jwk.crv = "P-256"
  <2> DEFINE x == OrEmpty(jwk.x)
             y == OrEmpty(jwk.y)
             a == DecodeBase64(x)
             b == DecodeBase64(y)
             m == << <<"1", Integer(2)>>, <<"3", Integer(ALG_ES256)>>, <<"-1", Integer(1)>>,
                     <<"-2", ByteString(a)>>, <<"-3", ByteString(b)>> >>
  <2>1. IsList(x) /\ IsList(y)
    BY <1>0 DEF OrEmpty
  <2>2. key = CoseKey(m)
    BY <1>1 DEF JwkToCoseKey
  <2>3. 4 \in DOMAIN m /\ m[4][2][2] = a /\ 5 \in DOMAIN m /\ m[5][2][2] = b
    BY DEF ByteString
  <2>4. a # Refused /\ b # Refused /\ key = Map(m)
    <3> HIDE DEF m, a, b, key
    <3> QED
      BY <2>2, <2>3 DEF CoseKey, key
  <2>5. IsBytes(a) /\ IsBytes(b) /\ EncodeBase64(a) = x /\ EncodeBase64(b) = y
    BY <2>1, <2>4, DecodedBase64
  <2>6. k = EcKey(x, y)
    <3> HIDE DEF a, b, x, y
    <3>1. CoseKeyToJwk(Map(m)) = EcKey(EncodeBase64(a), EncodeBase64(b))
      BY <2>5, EcKeyRead
    <3> HIDE DEF m
    <3> QED
      BY <2>4, <2>5, <3>1
  <2>7. x # Absent /\ y # Absent
    BY <2>1, ListIsApart
  <2> HIDE DEF m, k, x, y
  <2>8. k.kty = "EC" /\ k.crv = "P-256" /\ k.x = x /\ k.y = y /\ k.n = Absent /\ k.e = Absent
    BY <2>6 DEF EcKey
  <2>9. "P-256" # Absent /\ "EC" # Absent
    BY WireWords
  <2>10. Thumbprint(k) = Digest("SHA-256", <<"EC", "P-256", <<x, y>> >>)
    BY <2>4, <2>7, <2>8, <2>9, EcThumbprint
  <2>11. Thumbprint(k) # Refused
    BY <2>10, DigestIsApart
  <2>12. k # Refused /\ k = [kty |-> k.kty, crv |-> k.crv, x |-> k.x, y |-> k.y, n |-> k.n, e |-> k.e]
    BY <2>6 DEF EcKey, Apart
  <2>13. IsKey(k)
    BY <2>1, <2>8, <2>9, <2>11, <2>12 DEF IsKey, NobodysKey
  <2>14. ASSUME Thumbprint(jwk) # Refused
         PROVE  Thumbprint(k) = Thumbprint(jwk)
    <3>1. jwk.x # Absent /\ jwk.y # Absent
          /\ Thumbprint(jwk) = Digest("SHA-256", <<"EC", jwk.crv, <<jwk.x, jwk.y>> >>)
      BY <1>1, <2>14, EcThumbprint
    <3>2. jwk.x = x /\ jwk.y = y
      BY <3>1 DEF OrEmpty, x, y
    <3> QED
      BY <1>1, <2>10, <3>1, <3>2
  <2> QED
    BY <2>12, <2>13, <2>14 DEF k
<1>2. CASE jwk.kty = "RSA"
  <2> DEFINE x == OrEmpty(jwk.n)
             y == OrEmpty(jwk.e)
             a == DecodeBase64(x)
             b == DecodeBase64(y)
             m == << <<"1", Integer(3)>>, <<"3", Integer(ALG_PS256)>>,
                     <<"-1", ByteString(a)>>, <<"-2", ByteString(b)>> >>
  <2>1. IsList(x) /\ IsList(y)
    BY <1>0 DEF OrEmpty
  <2>2. key = CoseKey(m)
    BY <1>2 DEF JwkToCoseKey
  <2>3. 3 \in DOMAIN m /\ m[3][2][2] = a /\ 4 \in DOMAIN m /\ m[4][2][2] = b
    BY DEF ByteString
  <2>4. a # Refused /\ b # Refused /\ key = Map(m)
    <3> HIDE DEF m, a, b, key
    <3> QED
      BY <2>2, <2>3 DEF CoseKey, key
  <2>5. IsBytes(a) /\ IsBytes(b) /\ EncodeBase64(a) = x /\ EncodeBase64(b) = y
    BY <2>1, <2>4, DecodedBase64
  <2>6. k = RsaKey(x, y)
    <3> HIDE DEF a, b, x, y
    <3>1. CoseKeyToJwk(Map(m)) = RsaKey(EncodeBase64(a), EncodeBase64(b))
      BY <2>5, RsaKeyRead
    <3> HIDE DEF m
    <3> QED
      BY <2>4, <2>5, <3>1
  <2>7. x # Absent /\ y # Absent
    BY <2>1, ListIsApart
  <2> HIDE DEF m, k, x, y
  <2>8. k.kty = "RSA" /\ k.n = x /\ k.e = y /\ k.x = Absent /\ k.y = Absent
    BY <2>6 DEF RsaKey
  <2>9. "RSA" # Absent
    BY WireWords
  <2>10. Thumbprint(k) = Digest("SHA-256", <<"RSA", Absent, <<y, x>> >>)
    BY <2>4, <2>7, <2>8, RsaThumbprint
  <2>11. Thumbprint(k) # Refused
    BY <2>10, DigestIsApart
  <2>12. k # Refused /\ k = [kty |-> k.kty, crv |-> k.crv, x |-> k.x, y |-> k.y, n |-> k.n, e |-> k.e]
    BY <2>6 DEF RsaKey, Apart
  <2>13. IsKey(k)
    BY <2>1, <2>8, <2>9, <2>11, <2>12 DEF IsKey, NobodysKey
  <2>14. ASSUME Thumbprint(jwk) # Refused
         PROVE  Thumbprint(k) = Thumbprint(jwk)
    <3>1. jwk.n # Absent /\ jwk.e # Absent
          /\ Thumbprint(jwk) = Digest("SHA-256", <<"RSA", Absent, <<jwk.e, jwk.n>> >>)
      BY <1>2, <2>14, RsaThumbprint
    <3>2. jwk.n = x /\ jwk.e = y
      BY <3>1 DEF OrEmpty, x, y
    <3> QED
      BY <2>10, <3>1, <3>2
  <2> QED
    BY <2>12, <2>13, <2>14 DEF k
<1> QED
  BY <1>1, <1>2 DEF JwkToCoseKey

-----------------------------------------------------------------------------
(* One more member at the end of a map.                                    *)

Opt(kind, content) == IF content = Absent THEN Absent ELSE <<kind, content>>

LEMMA Extended ==
    ASSUME NEW m, NEW o, Tidy(m), Tidy(o), NEW k, Keys(o) \subseteq {k}, k \notin Keys(m)
    PROVE  /\ Tidy(m \o o) /\ Keys(m \o o) \subseteq Keys(m) \cup {k}
           /\ Get(m \o o, k) = Get(o, k)
           /\ \A j : j # k => Get(m \o o, j) = Get(m, j)
<1>1. Keys(m) \cap Keys(o) = {}
  OBVIOUS
<1>2. Tidy(m \o o) /\ Keys(m \o o) = Keys(m) \cup Keys(o)
  BY <1>1, ConcatTidy
<1>3. Get(m \o o, k) = Get(o, k)
  BY <1>1, ConcatGetRight
<1>4. ASSUME NEW j, j # k
      PROVE  Get(m \o o, j) = Get(m, j)
  BY <1>1, <1>4, ConcatGetLeft
<1> QED
  BY <1>2, <1>3, <1>4

Extends(c, m, k, v) ==
    /\ Tidy(c) /\ Keys(c) \subseteq Keys(m) \cup {k}
    /\ Get(c, k) = v
    /\ \A j : j # k => Get(c, j) = Get(m, j)

LEMMA ExtendedByOptional ==
    ASSUME NEW m, Tidy(m), NEW k, k \notin Keys(m), NEW kind, NEW content
    PROVE  Extends(m \o Optional(k, kind, content), m, k, Opt(kind, content))
<1> DEFINE o == Optional(k, kind, content)
<1>1. Tidy(o) /\ Keys(o) \subseteq {k} /\ Get(o, k) = Opt(kind, content)
  BY OptionalTidy DEF Opt
<1> HIDE DEF o
<1>2. /\ Tidy(m \o o) /\ Keys(m \o o) \subseteq Keys(m) \cup {k}
      /\ Get(m \o o, k) = Get(o, k)
      /\ \A j : j # k => Get(m \o o, j) = Get(m, j)
  BY <1>1, Extended
<1> QED
  BY <1>1, <1>2 DEF o, Extends

LEMMA ExtendedBySingle ==
    ASSUME NEW m, Tidy(m), NEW k, k \notin Keys(m), NEW v
    PROVE  Extends(m \o << <<k, v>> >>, m, k, v)
<1> DEFINE o == << <<k, v>> >>
<1>1. Tidy(o) /\ Keys(o) \subseteq {k} /\ Get(o, k) = v
  BY SingleTidy
<1> HIDE DEF o
<1>2. /\ Tidy(m \o o) /\ Keys(m \o o) \subseteq Keys(m) \cup {k}
      /\ Get(m \o o, k) = Get(o, k)
      /\ \A j : j # k => Get(m \o o, j) = Get(m, j)
  BY <1>1, Extended
<1> QED
  BY <1>1, <1>2 DEF o, Extends

\* Reading an optional member of the kind it was written with.
LEMMA OptRead ==
    ASSUME Apart, NEW m, NEW k, NEW kind, NEW content, Get(m, k) = Opt(kind, content)
    PROVE  /\ As(m, k, kind) = content /\ AbsentOr(m, k, kind)
           /\ Get(m, k) # <<"null">>
<1>1. <<kind, content>> # Absent /\ <<"null">> # Absent
  <2>1. IsList(<<"null">>)
    BY DEF IsList
  <2> QED
    BY <2>1, PairIsList, ListIsApart
<1> QED
  BY <1>1 DEF As, AbsentOr, Opt

LEMMA ValueRead ==
    ASSUME Apart, NEW m, NEW k, NEW kind, NEW content, Get(m, k) = <<kind, content>>
    PROVE  Get(m, k) # Absent /\ As(m, k, kind) = content /\ AbsentOr(m, k, kind)
<1>1. <<kind, content>> # Absent
  BY PairIsList, ListIsApart
<1> QED
  BY <1>1 DEF As, AbsentOr

-----------------------------------------------------------------------------
(* Headers.                                                                *)

\* A key in JSON is read as it was.
LEMMA JsonKeySurvives ==
    ASSUME Apart, NEW jwk, IsKey(jwk)
    PROVE  JwkFromJson(JwkToJson(jwk)) = jwk
<1> DEFINE m1 == << <<"kty", Text(jwk.kty)>> >>
           m2 == m1 \o Optional("crv", "text", jwk.crv)
           m3 == m2 \o Optional("x", "text", jwk.x)
           m4 == m3 \o Optional("y", "text", jwk.y)
           m5 == m4 \o Optional("n", "text", jwk.n)
           m6 == m5 \o Optional("e", "text", jwk.e)
<1>0. JwkToJson(jwk) = <<"map", m6>>
  BY DEF JwkToJson, Map
<1>1. Tidy(m1) /\ Keys(m1) = {"kty"} /\ Get(m1, "kty") = <<"text", jwk.kty>>
  BY SingleTidy DEF Text
<1> HIDE DEF m1
<1>2. /\ Tidy(m2) /\ Keys(m2) \subseteq {"kty", "crv"}
      /\ Extends(m2, m1, "crv", Opt("text", jwk.crv))
  <2>1. Extends(m2, m1, "crv", Opt("text", jwk.crv))
    BY <1>1, ExtendedByOptional
  <2> HIDE DEF m2
  <2> QED
    BY <1>1, <2>1 DEF Extends
<1> HIDE DEF m2
<1>3. /\ Tidy(m3) /\ Keys(m3) \subseteq {"kty", "crv", "x"}
      /\ Extends(m3, m2, "x", Opt("text", jwk.x))
  <2>1. Extends(m3, m2, "x", Opt("text", jwk.x))
    BY <1>2, ExtendedByOptional
  <2> HIDE DEF m3
  <2> QED
    BY <1>2, <2>1 DEF Extends
<1> HIDE DEF m3
<1>4. /\ Tidy(m4) /\ Keys(m4) \subseteq {"kty", "crv", "x", "y"}
      /\ Extends(m4, m3, "y", Opt("text", jwk.y))
  <2>1. Extends(m4, m3, "y", Opt("text", jwk.y))
    BY <1>3, ExtendedByOptional
  <2> HIDE DEF m4
  <2> QED
    BY <1>3, <2>1 DEF Extends
<1> HIDE DEF m4
<1>5. /\ Tidy(m5) /\ Keys(m5) \subseteq {"kty", "crv", "x", "y", "n"}
      /\ Extends(m5, m4, "n", Opt("text", jwk.n))
  <2>1. Extends(m5, m4, "n", Opt("text", jwk.n))
    BY <1>4, ExtendedByOptional
  <2> HIDE DEF m5
  <2> QED
    BY <1>4, <2>1 DEF Extends
<1> HIDE DEF m5
<1>6. /\ Tidy(m6) /\ Keys(m6) \subseteq {"kty", "crv", "x", "y", "n", "e"}
      /\ Extends(m6, m5, "e", Opt("text", jwk.e))
  <2>1. Extends(m6, m5, "e", Opt("text", jwk.e))
    BY <1>5, ExtendedByOptional
  <2> HIDE DEF m6
  <2> QED
    BY <1>5, <2>1 DEF Extends
<1> HIDE DEF m6
<1>7. /\ Get(m6, "kty") = <<"text", jwk.kty>> /\ Get(m6, "crv") = Opt("text", jwk.crv)
      /\ Get(m6, "x") = Opt("text", jwk.x) /\ Get(m6, "y") = Opt("text", jwk.y)
      /\ Get(m6, "n") = Opt("text", jwk.n) /\ Get(m6, "e") = Opt("text", jwk.e)
  BY <1>1, <1>2, <1>3, <1>4, <1>5, <1>6 DEF Extends
<1>8. As(m6, "kty", "text") = jwk.kty /\ jwk.kty # Absent
  BY <1>7, ValueRead DEF IsKey
<1>9. /\ As(m6, "crv", "text") = jwk.crv /\ AbsentOr(m6, "crv", "text") /\ Get(m6, "crv") # <<"null">>
      /\ As(m6, "x", "text") = jwk.x /\ AbsentOr(m6, "x", "text") /\ Get(m6, "x") # <<"null">>
      /\ As(m6, "y", "text") = jwk.y /\ AbsentOr(m6, "y", "text") /\ Get(m6, "y") # <<"null">>
      /\ As(m6, "n", "text") = jwk.n /\ AbsentOr(m6, "n", "text") /\ Get(m6, "n") # <<"null">>
      /\ As(m6, "e", "text") = jwk.e /\ AbsentOr(m6, "e", "text") /\ Get(m6, "e") # <<"null">>
  BY <1>7, OptRead
<1>10. /\ JwkMember(m6, "crv") = jwk.crv /\ JwkMember(m6, "x") = jwk.x /\ JwkMember(m6, "y") = jwk.y
       /\ JwkMember(m6, "n") = jwk.n /\ JwkMember(m6, "e") = jwk.e
  BY <1>9 DEF JwkMember
<1>11. JwkFromJson(<<"map", m6>>) = [kty |-> jwk.kty, crv |-> jwk.crv, x |-> jwk.x, y |-> jwk.y,
                                    n |-> jwk.n, e |-> jwk.e]
  BY <1>8, <1>9, <1>10 DEF JwkFromJson, JwkMembers
<1> QED
  BY <1>0, <1>11 DEF IsKey

LEMMA KeyIsApart ==
    ASSUME Apart, NEW jwk, IsKey(jwk)
    PROVE  jwk # Refused
<1> DEFINE r == [kty |-> jwk.kty, crv |-> jwk.crv, x |-> jwk.x, y |-> jwk.y, n |-> jwk.n, e |-> jwk.e]
<1>1. r # Refused
  BY DEF Apart
<1> QED
  BY <1>1 DEF IsKey

\* What a header is read as, given the key in it.
LEMMA HeaderRead ==
    ASSUME Apart, NEW h, IsHeader(h), NEW k, IsKey(k)
    PROVE  LET r == Header(h.alg, h.typ, k)
           IN  /\ r # Refused /\ IsHeader(r)
               /\ r.alg = h.alg /\ r.typ = h.typ /\ r.jwk = k
<1> DEFINE r == [alg |-> h.alg, typ |-> h.typ, jwk |-> k]
<1>1. k # Refused
  BY KeyIsApart
<1>2. r = Header(h.alg, h.typ, k)
  BY <1>1 DEF Header, Unless, IsHeader
<1>3. r # Refused
  BY DEF Apart
<1>4. r.alg = h.alg /\ r.typ = h.typ /\ r.jwk = k /\ r = [alg |-> r.alg, typ |-> r.typ, jwk |-> r.jwk]
  OBVIOUS
<1> HIDE DEF r
<1>5. IsHeader(r)
  BY <1>4 DEF IsHeader
<1> QED
  BY <1>2, <1>3, <1>4, <1>5

LEMMA CwtHeaderSurvives ==
    ASSUME Apart, NEW h, IsHeader(h), CwtEncodeHeader(h) # Refused
    PROVE  LET r == CwtDecodeHeader(CwtEncodeHeader(h))
           IN  /\ r # Refused /\ IsHeader(r)
               /\ r.alg = h.alg /\ r.typ = h.typ
               /\ r.jwk = CoseKeyToJwk(JwkToCoseKey(h.jwk))
               /\ JwkToCoseKey(h.jwk) # Refused
               /\ Thumbprint(h.jwk) # Refused => Thumbprint(r.jwk) = Thumbprint(h.jwk)
<1> DEFINE key == JwkToCoseKey(h.jwk)
           k == CoseKeyToJwk(key)
           m == << <<"alg", Integer(h.alg)>>, <<"COSE_Key", key>>, <<"typ", Text(h.typ)>> >>
<1>1. key # Refused /\ CwtEncodeHeader(h) = <<"map", m>>
  BY DEF CwtEncodeHeader, Unless, Map
<1>2. k # Refused /\ IsKey(k) /\ (Thumbprint(h.jwk) # Refused => Thumbprint(k) = Thumbprint(h.jwk))
  BY <1>1, CoseKeySurvives DEF IsHeader
<1>3. key # Absent
  <2>1. \E c : key = <<"map", c>>
    BY <1>1 DEF JwkToCoseKey, CoseKey, Map
  <2> QED
    BY <2>1, PairIsList, ListIsApart
<1> HIDE DEF key, k
<1>4. /\ Tidy(m) /\ Keys(m) = {"alg", "COSE_Key", "typ"}
      /\ Get(m, "alg") = <<"int", h.alg>> /\ Get(m, "COSE_Key") = key
      /\ Get(m, "typ") = <<"text", h.typ>>
  BY TripleTidy DEF Integer, Text
<1> HIDE DEF m
<1>5. IntKeyed(m)
  BY <1>4 DEF Tidy, IntKeyed, Keys
<1>6. As(m, "alg", "int") = h.alg /\ As(m, "typ", "text") = h.typ
  BY <1>4, ValueRead
<1>7. CwtDecodeHeader(<<"map", m>>) = Header(h.alg, h.typ, k)
  BY <1>3, <1>4, <1>5, <1>6 DEF CwtDecodeHeader, k
<1>8. LET r == Header(h.alg, h.typ, k)
      IN  /\ r # Refused /\ IsHeader(r)
          /\ r.alg = h.alg /\ r.typ = h.typ /\ r.jwk = k
  BY <1>2, HeaderRead
<1> QED
  BY <1>1, <1>2, <1>7, <1>8 DEF k, key

LEMMA JoseNameSurvives ==
    ASSUME NEW alg, CoseToJose(alg) # Refused
    PROVE  JoseToCose(CoseToJose(alg)) = alg /\ CoseToJose(alg) # Absent
<1>1. alg \in DOMAIN JoseNames /\ CoseToJose(alg) = JoseNames[alg]
  BY DEF CoseToJose
<1>2. \A a, b \in DOMAIN JoseNames : JoseNames[a] = JoseNames[b] => a = b
  BY DEF JoseNames, ALG_ES256, ALG_PS256
<1>3. JoseNames[alg] # Absent
  BY <1>1, WireWords
<1> QED
  BY <1>1, <1>2, <1>3 DEF JoseToCose

LEMMA JwtHeaderSurvives ==
    ASSUME Apart, NEW h, IsHeader(h), JwtEncodeHeader(h) # Refused
    PROVE  LET r == JwtDecodeHeader(JwtEncodeHeader(h))
           IN  /\ r # Refused /\ IsHeader(r)
               /\ r.alg = h.alg /\ r.typ = h.typ /\ r.jwk = h.jwk
<1> DEFINE name == CoseToJose(h.alg)
           key == JwkToJson(h.jwk)
           m == << <<"alg", Text(name)>>, <<"typ", Text(h.typ)>>, <<"jwk", key>> >>
<1>1. name # Refused /\ JwtEncodeHeader(h) = <<"map", m>>
  BY DEF JwtEncodeHeader, Unless, Map
<1>2. JoseToCose(name) = h.alg /\ name # Absent
  BY <1>1, JoseNameSurvives
<1>3. JwkFromJson(key) = h.jwk /\ IsKey(h.jwk)
  BY JsonKeySurvives DEF IsHeader
<1>4. key # Absent
  BY PairIsList, ListIsApart DEF JwkToJson, Map
<1> HIDE DEF name, key
<1>5. /\ Tidy(m) /\ Get(m, "alg") = <<"text", name>> /\ Get(m, "typ") = <<"text", h.typ>>
      /\ Get(m, "jwk") = key
  BY TripleTidy DEF Text
<1> HIDE DEF m
<1>6. As(m, "alg", "text") = name /\ As(m, "typ", "text") = h.typ
  BY <1>5, ValueRead
<1>7. JwtDecodeHeader(<<"map", m>>) = Header(h.alg, h.typ, h.jwk)
  BY <1>2, <1>3, <1>4, <1>5, <1>6 DEF JwtDecodeHeader, Tidy
<1>8. LET r == Header(h.alg, h.typ, h.jwk)
      IN  /\ r # Refused /\ IsHeader(r)
          /\ r.alg = h.alg /\ r.typ = h.typ /\ r.jwk = h.jwk
  BY <1>3, HeaderRead
<1> QED
  BY <1>1, <1>7, <1>8

-----------------------------------------------------------------------------
(* Contexts and payloads.                                                  *)

LEMMA ActionSurvives ==
    ASSUME NEW a \in DOMAIN WireNames
    PROVE  /\ ActionFromWireName(ActionWireName(a)) = ActionOverTheWire(a)
           /\ ActionWireName(a) # Absent
           /\ ActionOverTheWire(a) # Refused /\ ActionOverTheWire(a) \in DOMAIN WireNames
<1>1. WireNames[a] # Absent /\ \A b \in DOMAIN WireNames : b # Refused
  BY WireWords
<1>2. ActionOverTheWire(a) \in DOMAIN WireNames
  BY DEF ActionOverTheWire, WireNames
<1>3. (WireNames[a] = "SETUP") <=> a \in {"ClientSetup", "ServerSetup"}
  BY DEF WireNames
<1>4. \A b, c \in DOMAIN WireNames :
        WireNames[b] = WireNames[c] /\ WireNames[b] # "SETUP" => b = c
  BY DEF WireNames
<1>5. CASE WireNames[a] = "SETUP"
  BY <1>1, <1>2, <1>3, <1>5 DEF ActionFromWireName, ActionWireName, ActionOverTheWire
<1>6. CASE WireNames[a] # "SETUP"
  <2>1. ActionOverTheWire(a) = a
    BY <1>3, <1>6 DEF ActionOverTheWire
  <2>2. (CHOOSE b \in DOMAIN WireNames : WireNames[b] = WireNames[a]) = a
    BY <1>4, <1>6
  <2> QED
    BY <1>1, <1>2, <1>6, <2>1, <2>2 DEF ActionFromWireName, ActionWireName
<1> QED
  BY <1>5, <1>6

ActxOver(a, format) ==
    [ctx_type |-> a.ctx_type, action |-> ActionOverTheWire(a.action),
     tns |-> TnsOverTheWire(a.tns, format), tn |-> a.tn, resource |-> a.resource]
PayloadOver(p, format) ==
    [cti |-> p.cti, iat |-> p.iat, actx |-> ActxOver(p.actx, format), ath |-> p.ath,
     nonce |-> p.nonce]

LEMMA CarriedIsOver ==
    ASSUME NEW p, IsPayload(p), NEW format
    PROVE  CarriedPayload(p, format) = PayloadOver(p, format)
<1>1. OverTheWire(p.actx, format) = ActxOver(p.actx, format)
  <2> DEFINE a == p.actx
  <2>1. a = [ctx_type |-> a.ctx_type, action |-> a.action, tns |-> a.tns, tn |-> a.tn,
             resource |-> a.resource]
    BY DEF IsPayload, IsActx
  <2> HIDE DEF a
  <2>2. ASSUME NEW v, NEW w
        PROVE  [a EXCEPT !.action = v, !.tns = w]
                 = [ctx_type |-> a.ctx_type, action |-> v, tns |-> w, tn |-> a.tn,
                    resource |-> a.resource]
    <3> DEFINE b == [a EXCEPT !.action = v]
    <3>1. b = [ctx_type |-> a.ctx_type, action |-> v, tns |-> a.tns, tn |-> a.tn,
               resource |-> a.resource]
      BY <2>1
    <3>2. [a EXCEPT !.action = v, !.tns = w] = [b EXCEPT !.tns = w]
      OBVIOUS
    <3> HIDE DEF b
    <3>3. [b EXCEPT !.tns = w] = [ctx_type |-> a.ctx_type, action |-> v, tns |-> w, tn |-> a.tn,
                                  resource |-> a.resource]
      BY <3>1
    <3> QED
      BY <3>2, <3>3
  <2>3. OverTheWire(a, format) = ActxOver(a, format)
    BY <2>2 DEF OverTheWire, ActxOver
  <2> QED
    BY <2>3 DEF a
<1>2. p = [cti |-> p.cti, iat |-> p.iat, actx |-> p.actx, ath |-> p.ath, nonce |-> p.nonce]
  BY DEF IsPayload
<1>3. \A v : [p EXCEPT !.actx = v] = [cti |-> p.cti, iat |-> p.iat, actx |-> v, ath |-> p.ath,
                                     nonce |-> p.nonce]
  BY <1>2
<1> QED
  BY <1>1, <1>3 DEF CarriedPayload, PayloadOver

\* A payload that was carried is one, and carrying it again changes nothing.
LEMMA CarriedIsPayload ==
    ASSUME NEW p, IsPayload(p), NEW format \in {"Cwt", "Jwt"}
    PROVE  LET q == CarriedPayload(p, format)
           IN  IsPayload(q) /\ CarriedPayload(q, format) = q
<1> DEFINE a == p.actx
           q == PayloadOver(p, format)
           b == ActxOver(a, format)
<1>1. IsActx(a) /\ p.iat # Absent /\ (p.ath = Absent \/ IsBytes(p.ath))
  BY DEF IsPayload
<1>2. /\ q.cti = p.cti /\ q.iat = p.iat /\ q.actx = b /\ q.ath = p.ath /\ q.nonce = p.nonce
      /\ q = [cti |-> q.cti, iat |-> q.iat, actx |-> q.actx, ath |-> q.ath, nonce |-> q.nonce]
  BY DEF PayloadOver
<1>3. /\ b.ctx_type = a.ctx_type /\ b.action = ActionOverTheWire(a.action)
      /\ b.tns = TnsOverTheWire(a.tns, format) /\ b.tn = a.tn /\ b.resource = a.resource
      /\ b = [ctx_type |-> b.ctx_type, action |-> b.action, tns |-> b.tns, tn |-> b.tn,
              resource |-> b.resource]
  BY DEF ActxOver
<1> HIDE DEF a, b, q
<1>4. TnsSurvives(b.tns)
  BY <1>1, <1>3, WireWords DEF IsActx, TnsOverTheWire
<1>5. b.action \in DOMAIN WireNames
  BY <1>1, <1>3, ActionSurvives DEF IsActx
<1>6. IsActx(b)
  BY <1>1, <1>3, <1>4, <1>5 DEF IsActx
<1>7. IsPayload(q)
  BY <1>1, <1>2, <1>6 DEF IsPayload
<1>8. TnsOverTheWire(b.tns, format) = b.tns
  <2>1. << <<>> >> # <<>>
    OBVIOUS
  <2> QED
    BY <1>3, <2>1 DEF TnsOverTheWire
<1>9. ActionOverTheWire(b.action) = b.action
  BY <1>3 DEF ActionOverTheWire
<1>10. ActxOver(b, format) = b
  BY <1>3, <1>8, <1>9 DEF ActxOver
<1>11. PayloadOver(q, format) = q
  BY <1>2, <1>10 DEF PayloadOver
<1> QED
  BY <1>7, <1>11, CarriedIsOver DEF q

\* The first three members, and the track, are written alike in both forms.
ActxPrefix(actx) ==
    << <<"type", Text(actx.ctx_type)>>,
       <<"action", Text(ActionWireName(actx.action))>>,
       <<"tns", Text(CanonicalTns(actx.tns))>> >>
    \o (IF actx.tn = <<>> THEN <<>> ELSE << <<"tn", Text(CanonicalElement(actx.tn))>> >>)

\* Where a map says what ActxPrefix says.
SaysActx(m, actx) ==
    /\ Get(m, "type") = Text(actx.ctx_type)
    /\ Get(m, "action") = Text(ActionWireName(actx.action))
    /\ Get(m, "tns") = Text(CanonicalTns(actx.tns))
    /\ Get(m, "tn") = IF actx.tn = <<>> THEN Absent ELSE Text(CanonicalElement(actx.tn))

LEMMA PrefixSays ==
    ASSUME NEW actx
    PROVE  LET m == ActxPrefix(actx)
           IN  Tidy(m) /\ Keys(m) \subseteq {"type", "action", "tns", "tn"} /\ SaysActx(m, actx)
<1> DEFINE a == << <<"type", Text(actx.ctx_type)>>,
                   <<"action", Text(ActionWireName(actx.action))>>,
                   <<"tns", Text(CanonicalTns(actx.tns))>> >>
           v == Text(CanonicalElement(actx.tn))
           o == IF actx.tn = <<>> THEN <<>> ELSE << <<"tn", v>> >>
<1>1. /\ Tidy(a) /\ Keys(a) = {"type", "action", "tns"}
      /\ Get(a, "type") = Text(actx.ctx_type)
      /\ Get(a, "action") = Text(ActionWireName(actx.action))
      /\ Get(a, "tns") = Text(CanonicalTns(actx.tns))
  BY TripleTidy
<1> HIDE DEF v
<1>2. /\ Tidy(o) /\ Keys(o) \subseteq {"tn"}
      /\ Get(o, "tn") = IF actx.tn = <<>> THEN Absent ELSE v
  BY SingleTidy, EmptyTidy, GetNoKey
<1>3. ActxPrefix(actx) = a \o o
  BY DEF ActxPrefix, v
<1> HIDE DEF a, o
<1>4. "tn" \notin Keys(a)
  BY <1>1
<1>5. /\ Tidy(a \o o) /\ Keys(a \o o) \subseteq Keys(a) \cup {"tn"}
      /\ Get(a \o o, "tn") = Get(o, "tn")
      /\ \A j : j # "tn" => Get(a \o o, j) = Get(a, j)
  BY <1>1, <1>2, <1>4, Extended
<1>6. /\ Get(a \o o, "type") = Get(a, "type") /\ Get(a \o o, "action") = Get(a, "action")
      /\ Get(a \o o, "tns") = Get(a, "tns")
  BY <1>5
<1> DEFINE m == a \o o
<1> HIDE DEF m
<1>7. SaysActx(m, actx)
  BY <1>1, <1>2, <1>5, <1>6 DEF SaysActx, v, m
<1>8. Tidy(m) /\ Keys(m) \subseteq {"type", "action", "tns", "tn"}
  BY <1>1, <1>5 DEF m
<1> QED
  BY <1>3, <1>7, <1>8 DEF m

\* How such a map is read.
LEMMA SaidIsRead ==
    ASSUME Apart, NEW m, NEW a, IsActx(a), SaysActx(m, a)
    PROVE  /\ As(m, "type", "text") = a.ctx_type /\ a.ctx_type # Absent
           /\ As(m, "action", "text") # Absent
           /\ ActionFromWireName(As(m, "action", "text")) = ActionOverTheWire(a.action)
           /\ As(m, "tns", "text") = CanonicalTns(a.tns) /\ CanonicalTns(a.tns) # Absent
           /\ AbsentOr(m, "tn", "text")
           /\ ElementFromCanonical(OrEmpty(As(m, "tn", "text"))) = a.tn
<1>1. /\ Get(m, "type") = <<"text", a.ctx_type>>
      /\ Get(m, "action") = <<"text", ActionWireName(a.action)>>
      /\ Get(m, "tns") = <<"text", CanonicalTns(a.tns)>>
  BY DEF SaysActx, Text
<1>2. /\ As(m, "type", "text") = a.ctx_type /\ As(m, "action", "text") = ActionWireName(a.action)
      /\ As(m, "tns", "text") = CanonicalTns(a.tns)
  BY <1>1, ValueRead
<1>3. /\ a.ctx_type # Absent /\ CanonicalTns(a.tns) # Absent
      /\ CanonicalElement(a.tn) # Absent /\ ElementFromCanonical(CanonicalElement(a.tn)) = a.tn
      /\ ActionWireName(a.action) # Absent
      /\ ActionFromWireName(ActionWireName(a.action)) = ActionOverTheWire(a.action)
  BY ActionSurvives DEF IsActx, TnsSurvives, TnSurvives
<1>4. CASE a.tn = <<>>
  <2>1. Get(m, "tn") = Absent
    BY <1>4 DEF SaysActx
  <2>2. AbsentOr(m, "tn", "text") /\ OrEmpty(As(m, "tn", "text")) = <<>>
    BY <2>1 DEF AbsentOr, As, OrEmpty
  <2>3. ElementFromCanonical(<<>>) = <<>>
    BY WireWords
  <2> QED
    BY <1>2, <1>3, <1>4, <2>2, <2>3
<1>5. CASE a.tn # <<>>
  <2>1. Get(m, "tn") = <<"text", CanonicalElement(a.tn)>>
    BY <1>5 DEF SaysActx, Text
  <2>2. AbsentOr(m, "tn", "text") /\ As(m, "tn", "text") = CanonicalElement(a.tn)
    BY <2>1, ValueRead
  <2>3. OrEmpty(As(m, "tn", "text")) = CanonicalElement(a.tn)
    BY <1>3, <2>2 DEF OrEmpty
  <2> QED
    BY <1>2, <1>3, <2>2, <2>3
<1> QED
  BY <1>4, <1>5

LEMMA ActxIsRead ==
    ASSUME NEW a, IsActx(a), NEW tns, tns # Refused
    PROVE  Actx(a.ctx_type, ActionOverTheWire(a.action), tns, a.tn, a.resource)
             = [ctx_type |-> a.ctx_type, action |-> ActionOverTheWire(a.action), tns |-> tns,
                tn |-> a.tn, resource |-> a.resource]
<1>1. ActionOverTheWire(a.action) # Refused /\ a.tn # Refused
  BY ActionSurvives DEF IsActx, TnSurvives
<1> QED
  BY <1>1 DEF Actx, Unless

LEMMA TnsIsRead ==
    ASSUME NEW tns, TnsSurvives(tns)
    PROVE  /\ TnsFromCanonical(CanonicalTns(tns)) = TnsOverTheWire(tns, "Cwt")
           /\ (IF CanonicalTns(tns) = <<>> THEN <<>> ELSE TnsFromCanonical(CanonicalTns(tns)))
                = TnsOverTheWire(tns, "Jwt")
           /\ TnsOverTheWire(tns, "Cwt") # Refused /\ TnsOverTheWire(tns, "Jwt") # Refused
<1>1. <<>> # Refused /\ << <<>> >> # Refused
  BY WireWords DEF TnsSurvives
<1> QED
  BY <1>1 DEF TnsSurvives, TnsOverTheWire

\* The resource among the parameters.
LEMMA ResourceIsRead ==
    ASSUME Apart, NEW m, NEW r,
           Get(m, "parameters") = IF r = Absent THEN Absent
                                  ELSE Map(<< <<"resource", Text(r)>> >>)
    PROVE  CborResource(m) = r
<1>1. CASE r = Absent
  BY <1>1 DEF CborResource, As
<1>2. CASE r # Absent
  <2> DEFINE q == << <<"resource", <<"text", r>> >> >>
             at == {i \in DOMAIN q : q[i][1] = "resource" /\ q[i][2][1] = "text"}
  <2>1. DOMAIN q = {1} /\ q[1][1] = "resource" /\ q[1][2] = <<"text", r>>
    OBVIOUS
  <2>2. IsList(q)
    BY SingleTidy DEF Tidy
  <2>3. Get(m, "parameters") = <<"map", q>>
    BY <1>2 DEF Map, Text
  <2> HIDE DEF q
  <2>4. As(m, "parameters", "map") = q /\ q # Absent
    BY <2>2, <2>3, ValueRead, ListIsApart
  <2>5. at = {1} /\ Max({1}) = 1
    BY <2>1 DEF Max
  <2>6. q[1][2][2] = r
    BY <2>1
  <2> QED
    BY <2>4, <2>5, <2>6 DEF CborResource
<1> QED
  BY <1>1, <1>2

\* A context in CBOR is read as it was, but for what a CWT cannot say.
LEMMA CborActxSurvives ==
    ASSUME Apart, NEW a, IsActx(a)
    PROVE  CborToActx(ActxToCbor(a)) = ActxOver(a, "Cwt")
<1> DEFINE m == ActxPrefix(a)
           v == Map(<< <<"resource", Text(a.resource)>> >>)
           o == IF a.resource = Absent THEN <<>> ELSE << <<"parameters", v>> >>
           c == m \o o
<1>1. Tidy(m) /\ Keys(m) \subseteq {"type", "action", "tns", "tn"} /\ SaysActx(m, a)
  BY PrefixSays
<1>2. ActxToCbor(a) = <<"map", c>>
  BY DEF ActxToCbor, ActxPrefix, Map
<1> HIDE DEF m
<1>3. /\ Tidy(o) /\ Keys(o) \subseteq {"parameters"}
      /\ Get(o, "parameters") = IF a.resource = Absent THEN Absent ELSE v
  <2> HIDE DEF v
  <2> QED
    BY SingleTidy, EmptyTidy, GetNoKey
<1>4. "parameters" \notin Keys(m)
  BY <1>1
<1> HIDE DEF o
<1>5. /\ Tidy(c) /\ Keys(c) \subseteq Keys(m) \cup {"parameters"}
      /\ Get(c, "parameters") = Get(o, "parameters")
      /\ \A j : j # "parameters" => Get(c, j) = Get(m, j)
  BY <1>1, <1>3, <1>4, Extended
<1> HIDE DEF c
<1>6. SaysActx(c, a)
  BY <1>1, <1>5 DEF SaysActx
<1>7. IntKeyed(c)
  <2>1. "decoy" \notin Keys(c)
    BY <1>1, <1>5
  <2> QED
    BY <1>5, <2>1 DEF Tidy, IntKeyed, Keys
<1>8. CborResource(c) = a.resource
  BY <1>3, <1>5, ResourceIsRead
<1>9. /\ As(c, "type", "text") = a.ctx_type /\ a.ctx_type # Absent
      /\ As(c, "action", "text") # Absent
      /\ ActionFromWireName(As(c, "action", "text")) = ActionOverTheWire(a.action)
      /\ As(c, "tns", "text") = CanonicalTns(a.tns) /\ CanonicalTns(a.tns) # Absent
      /\ AbsentOr(c, "tn", "text")
      /\ ElementFromCanonical(OrEmpty(As(c, "tn", "text"))) = a.tn
  BY <1>6, SaidIsRead
<1>10. /\ TnsFromCanonical(CanonicalTns(a.tns)) = TnsOverTheWire(a.tns, "Cwt")
       /\ TnsOverTheWire(a.tns, "Cwt") # Refused
  BY TnsIsRead DEF IsActx
<1>11. CborToActx(<<"map", c>>)
         = Actx(a.ctx_type, ActionOverTheWire(a.action), TnsOverTheWire(a.tns, "Cwt"), a.tn, a.resource)
  BY <1>7, <1>8, <1>9, <1>10 DEF CborToActx
<1> QED
  BY <1>2, <1>10, <1>11, ActxIsRead DEF ActxOver

\* And one in JSON, but for what a JWT cannot say.
LEMMA JsonActxSurvives ==
    ASSUME Apart, NEW a, IsActx(a)
    PROVE  ActxFromJson(ActxToJson(a)) = ActxOver(a, "Jwt")
<1> DEFINE m == ActxPrefix(a)
           c == m \o Optional("resource", "text", a.resource)
<1>1. Tidy(m) /\ Keys(m) \subseteq {"type", "action", "tns", "tn"} /\ SaysActx(m, a)
  BY PrefixSays
<1>2. ActxToJson(a) = <<"map", c>>
  BY DEF ActxToJson, ActxPrefix, Map
<1> HIDE DEF m
<1>3. "resource" \notin Keys(m)
  BY <1>1
<1>4. Extends(c, m, "resource", Opt("text", a.resource))
  BY <1>1, <1>3, ExtendedByOptional
<1> HIDE DEF c
<1>5. SaysActx(c, a)
  BY <1>1, <1>4 DEF SaysActx, Extends
<1>6. As(c, "resource", "text") = a.resource
  BY <1>4, OptRead DEF Extends
<1>7. /\ As(c, "type", "text") = a.ctx_type /\ a.ctx_type # Absent
      /\ As(c, "action", "text") # Absent
      /\ ActionFromWireName(As(c, "action", "text")) = ActionOverTheWire(a.action)
      /\ As(c, "tns", "text") = CanonicalTns(a.tns) /\ CanonicalTns(a.tns) # Absent
      /\ AbsentOr(c, "tn", "text")
      /\ ElementFromCanonical(OrEmpty(As(c, "tn", "text"))) = a.tn
  BY <1>5, SaidIsRead
<1>8. /\ (IF CanonicalTns(a.tns) = <<>> THEN <<>> ELSE TnsFromCanonical(CanonicalTns(a.tns)))
           = TnsOverTheWire(a.tns, "Jwt")
      /\ TnsOverTheWire(a.tns, "Jwt") # Refused
  BY TnsIsRead DEF IsActx
<1>9. ActxFromJson(<<"map", c>>)
        = Actx(a.ctx_type, ActionOverTheWire(a.action), TnsOverTheWire(a.tns, "Jwt"), a.tn, a.resource)
  BY <1>6, <1>7, <1>8 DEF ActxFromJson
<1> QED
  BY <1>2, <1>8, <1>9, ActxIsRead DEF ActxOver

\* The five parts of a payload, as either form writes them.
PayloadPairs(id, iat, cti, v, nonce, ath) ==
    << <<"iat", Integer(iat)>> >> \o cti \o << <<"actx", v>> >>
    \o Optional("nonce", "text", nonce) \o ath

LEMMA PayloadSays ==
    ASSUME NEW id \in {"cti", "jti"}, NEW iat, NEW v, NEW nonce, NEW idkind, NEW cti,
           NEW athkind, NEW ath
    PROVE  LET m == PayloadPairs(id, iat, Optional(id, idkind, cti), v, nonce,
                                 Optional("ath", athkind, ath))
           IN  /\ Tidy(m) /\ Keys(m) \subseteq {"iat", id, "actx", "nonce", "ath"}
               /\ Get(m, "iat") = <<"int", iat>> /\ Get(m, id) = Opt(idkind, cti)
               /\ Get(m, "actx") = v /\ Get(m, "nonce") = Opt("text", nonce)
               /\ Get(m, "ath") = Opt(athkind, ath)
<1> DEFINE m1 == << <<"iat", Integer(iat)>> >>
           m2 == m1 \o Optional(id, idkind, cti)
           m3 == m2 \o << <<"actx", v>> >>
           m4 == m3 \o Optional("nonce", "text", nonce)
           m5 == m4 \o Optional("ath", athkind, ath)
<1>0. PayloadPairs(id, iat, Optional(id, idkind, cti), v, nonce, Optional("ath", athkind, ath)) = m5
  BY DEF PayloadPairs
<1>1. Tidy(m1) /\ Keys(m1) = {"iat"} /\ Get(m1, "iat") = <<"int", iat>>
  BY SingleTidy DEF Integer
<1> HIDE DEF m1
<1>2. /\ Tidy(m2) /\ Keys(m2) \subseteq {"iat", id}
      /\ Extends(m2, m1, id, Opt(idkind, cti))
  <2>1. Extends(m2, m1, id, Opt(idkind, cti))
    BY <1>1, ExtendedByOptional
  <2> HIDE DEF m2
  <2> QED
    BY <1>1, <2>1 DEF Extends
<1> HIDE DEF m2
<1>3. /\ Tidy(m3) /\ Keys(m3) \subseteq {"iat", id, "actx"}
      /\ Extends(m3, m2, "actx", v)
  <2>1. Extends(m3, m2, "actx", v)
    BY <1>2, ExtendedBySingle
  <2> HIDE DEF m3
  <2> QED
    BY <1>2, <2>1 DEF Extends
<1> HIDE DEF m3
<1>4. /\ Tidy(m4) /\ Keys(m4) \subseteq {"iat", id, "actx", "nonce"}
      /\ Extends(m4, m3, "nonce", Opt("text", nonce))
  <2>1. Extends(m4, m3, "nonce", Opt("text", nonce))
    BY <1>3, ExtendedByOptional
  <2> HIDE DEF m4
  <2> QED
    BY <1>3, <2>1 DEF Extends
<1> HIDE DEF m4
<1>5. /\ Tidy(m5) /\ Keys(m5) \subseteq {"iat", id, "actx", "nonce", "ath"}
      /\ Extends(m5, m4, "ath", Opt(athkind, ath))
  <2>1. Extends(m5, m4, "ath", Opt(athkind, ath))
    BY <1>4, ExtendedByOptional
  <2> HIDE DEF m5
  <2> QED
    BY <1>4, <2>1 DEF Extends
<1> HIDE DEF m5
<1>6. /\ Get(m5, "iat") = <<"int", iat>> /\ Get(m5, id) = Opt(idkind, cti)
      /\ Get(m5, "actx") = v /\ Get(m5, "nonce") = Opt("text", nonce)
      /\ Get(m5, "ath") = Opt(athkind, ath)
  BY <1>1, <1>2, <1>3, <1>4, <1>5 DEF Extends
<1> QED
  BY <1>0, <1>5, <1>6

LEMMA ActxIsApart ==
    ASSUME Apart, NEW a, NEW format
    PROVE  ActxOver(a, format) # Refused
BY DEF Apart, ActxOver

LEMMA PayloadIsRead ==
    ASSUME Apart, NEW p, IsPayload(p), NEW format
    PROVE  /\ Payload(p.cti, p.iat, ActxOver(p.actx, format), p.ath, p.nonce)
                = CarriedPayload(p, format)
           /\ CarriedPayload(p, format) # Refused
<1>1. p.iat # Absent /\ p.ath # Refused
  BY ListIsApart, WireWords DEF IsPayload, IsBytes
<1>2. Payload(p.cti, p.iat, ActxOver(p.actx, format), p.ath, p.nonce) = PayloadOver(p, format)
  BY <1>1, ActxIsApart DEF Payload, Unless, PayloadOver
<1>3. PayloadOver(p, format) # Refused
  BY DEF PayloadOver, Apart
<1> QED
  BY <1>2, <1>3, CarriedIsOver

LEMMA CwtPayloadSurvives ==
    ASSUME Apart, NEW p, IsPayload(p)
    PROVE  CwtDecodePayload(CwtEncodePayload(p)) = CarriedPayload(p, "Cwt")
<1> DEFINE v == ActxToCbor(p.actx)
           m == PayloadPairs("cti", p.iat, Optional("cti", "bytes", p.cti), v, p.nonce,
                             Optional("ath", "bytes", p.ath))
<1>1. CwtEncodePayload(p) = <<"map", m>>
  BY DEF CwtEncodePayload, PayloadPairs, Map
<1>2. CborToActx(v) = ActxOver(p.actx, "Cwt")
  BY CborActxSurvives DEF IsPayload
<1>3. v # Absent
  BY PairIsList, ListIsApart DEF ActxToCbor, Map
<1> HIDE DEF v
<1>4. /\ Tidy(m) /\ Keys(m) \subseteq {"iat", "cti", "actx", "nonce", "ath"}
      /\ Get(m, "iat") = <<"int", p.iat>> /\ Get(m, "cti") = Opt("bytes", p.cti)
      /\ Get(m, "actx") = v /\ Get(m, "nonce") = Opt("text", p.nonce)
      /\ Get(m, "ath") = Opt("bytes", p.ath)
  BY PayloadSays
<1> HIDE DEF m
<1>5. IntKeyed(m)
  <2>1. "decoy" \notin Keys(m)
    BY <1>4
  <2> QED
    BY <1>4, <2>1 DEF Tidy, IntKeyed, Keys
<1>6. /\ As(m, "iat", "int") = p.iat
      /\ As(m, "cti", "bytes") = p.cti /\ AbsentOr(m, "cti", "bytes")
      /\ As(m, "nonce", "text") = p.nonce /\ AbsentOr(m, "nonce", "text")
      /\ As(m, "ath", "bytes") = p.ath /\ AbsentOr(m, "ath", "bytes")
  BY <1>4, ValueRead, OptRead
<1>7. CwtDecodePayload(<<"map", m>>)
        = Payload(p.cti, p.iat, ActxOver(p.actx, "Cwt"), p.ath, p.nonce)
  BY <1>2, <1>3, <1>4, <1>5, <1>6 DEF CwtDecodePayload
<1> QED
  BY <1>1, <1>7, PayloadIsRead

LEMMA JwtPayloadSurvives ==
    ASSUME Apart, NEW p, IsPayload(p), JwtEncodePayload(p) # Refused
    PROVE  JwtDecodePayload(JwtEncodePayload(p)) = CarriedPayload(p, "Jwt")
<1> DEFINE v == ActxToJson(p.actx)
           ath == IF p.ath = Absent THEN Absent ELSE EncodeBase64(p.ath)
           m == PayloadPairs("jti", p.iat, Optional("jti", "text", p.cti), v, p.nonce,
                             Optional("ath", "text", ath))
<1>1. JwtEncodePayload(p) = <<"map", m>>
  BY DEF JwtEncodePayload, PayloadPairs, Unless, Map
<1>2. ActxFromJson(v) = ActxOver(p.actx, "Jwt")
  BY JsonActxSurvives DEF IsPayload
<1>3. v # Absent
  BY PairIsList, ListIsApart DEF ActxToJson, Map
<1>4. \/ p.ath = Absent /\ ath = Absent
      \/ p.ath # Absent /\ ath # Absent /\ DecodeBase64(ath) = p.ath
  BY EncodedBase64, ListIsApart DEF IsPayload
<1> HIDE DEF v, ath
<1>5. /\ Tidy(m) /\ Keys(m) \subseteq {"iat", "jti", "actx", "nonce", "ath"}
      /\ Get(m, "iat") = <<"int", p.iat>> /\ Get(m, "jti") = Opt("text", p.cti)
      /\ Get(m, "actx") = v /\ Get(m, "nonce") = Opt("text", p.nonce)
      /\ Get(m, "ath") = Opt("text", ath)
  BY PayloadSays
<1> HIDE DEF m
<1>6. /\ As(m, "iat", "int") = p.iat
      /\ As(m, "jti", "text") = p.cti /\ AbsentOr(m, "jti", "text")
      /\ As(m, "nonce", "text") = p.nonce
      /\ As(m, "ath", "text") = ath /\ AbsentOr(m, "ath", "text")
  BY <1>5, ValueRead, OptRead
<1>7. (IF Get(m, "ath") = Absent THEN Absent ELSE DecodeBase64(As(m, "ath", "text"))) = p.ath
  <2>1. CASE p.ath = Absent /\ ath = Absent
    BY <1>5, <2>1 DEF Opt
  <2>2. CASE p.ath # Absent /\ ath # Absent /\ DecodeBase64(ath) = p.ath
    <3>1. Get(m, "ath") # Absent
      BY <1>5, <2>2, PairIsList, ListIsApart DEF Opt
    <3> QED
      BY <1>6, <2>2, <3>1
  <2> QED
    BY <1>4, <2>1, <2>2
<1>8. JwtDecodePayload(<<"map", m>>)
        = Payload(p.cti, p.iat, ActxOver(p.actx, "Jwt"), p.ath, p.nonce)
  BY <1>2, <1>3, <1>5, <1>6, <1>7 DEF JwtDecodePayload, Tidy
<1> QED
  BY <1>1, <1>8, PayloadIsRead

-----------------------------------------------------------------------------
(* A proof stands for the header and the payload it has.                   *)

LEMMA EncodedReads ==
    ASSUME Apart, NEW f \in {"Cwt", "Jwt"}, NEW h, NEW p, IsHeader(h), IsPayload(p),
           EncodeHeaderAndPayload(f, h, p) # Refused
    PROVE  LET b == EncodeHeaderAndPayload(f, h, p)
           IN  /\ ReadsAs(f, b, h, p)
               /\ f = "Cwt" => HeaderOf(f, b).jwk = CoseKeyToJwk(JwkToCoseKey(h.jwk))
               /\ f = "Cwt" => JwkToCoseKey(h.jwk) # Refused
<1> DEFINE H == IF f = "Cwt" THEN CwtEncodeHeader(h) ELSE JwtEncodeHeader(h)
           P == IF f = "Cwt" THEN CwtEncodePayload(p) ELSE JwtEncodePayload(p)
           b == EncodeHeaderAndPayload(f, h, p)
           r == HeaderOf(f, b)
<1>1. b = Collect(<<H, P>>)
  BY DEF EncodeHeaderAndPayload
<1>2. H # Refused /\ P # Refused /\ b[1] = H /\ b[2] = P
  <2> HIDE DEF H, P, b
  <2> QED
    BY <1>1 DEF Collect, b
<1> HIDE DEF b
<1>3. CASE f = "Cwt"
  <2>1. r = CwtDecodeHeader(CwtEncodeHeader(h)) /\ PayloadOf(f, b) = CwtDecodePayload(CwtEncodePayload(p))
    BY <1>2, <1>3 DEF HeaderOf, PayloadOf
  <2>2. /\ r # Refused /\ IsHeader(r) /\ r.alg = h.alg /\ r.typ = h.typ
        /\ r.jwk = CoseKeyToJwk(JwkToCoseKey(h.jwk)) /\ JwkToCoseKey(h.jwk) # Refused
        /\ Thumbprint(h.jwk) # Refused => Thumbprint(r.jwk) = Thumbprint(h.jwk)
    BY <1>2, <1>3, <2>1, CwtHeaderSurvives
  <2>3. PayloadOf(f, b) = CarriedPayload(p, f)
    BY <1>3, <2>1, CwtPayloadSurvives
  <2> HIDE DEF r
  <2> QED
    BY <1>3, <2>2, <2>3 DEF ReadsAs, r, b
<1>4. CASE f = "Jwt"
  <2>1. r = JwtDecodeHeader(JwtEncodeHeader(h)) /\ PayloadOf(f, b) = JwtDecodePayload(JwtEncodePayload(p))
    BY <1>2, <1>4 DEF HeaderOf, PayloadOf
  <2>2. r # Refused /\ IsHeader(r) /\ r.alg = h.alg /\ r.typ = h.typ /\ r.jwk = h.jwk
    BY <1>2, <1>4, <2>1, JwtHeaderSurvives
  <2>3. PayloadOf(f, b) = CarriedPayload(p, f)
    BY <1>2, <1>4, <2>1, JwtPayloadSurvives
  <2> HIDE DEF r
  <2> QED
    BY <1>4, <2>2, <2>3 DEF ReadsAs, r, b
<1> QED
  BY <1>3, <1>4

\* WireInv about one proof and the signings there are.
Kept(p, S) ==
    /\ IsHeader(p.header) /\ IsPayload(p.payload)
    /\ p.signed_bytes # <<>> => ReadsAs(p.wire_format, p.signed_bytes, p.header, p.payload)
    /\ p.signature # Absent => \E s \in S : SignedAs(p.signature, s)

LEMMA CoveredReads ==
    ASSUME Apart, NEW p, NEW S, ProofInv(p), Kept(p, S), Covered(p) # Refused
    PROVE  ReadsAs(p.wire_format, Covered(p), p.header, p.payload)
BY EncodedReads DEF ProofInv, Kept, Covered

\* What decode() makes of a wire that is not refused.
LEMMA DecodeReads ==
    ASSUME NEW f \in {"Cwt", "Jwt"}, NEW s, NEW g
    PROVE  LET w == [frame |-> IF f = "Cwt" THEN "sign1" ELSE "compact", signed |-> s,
                     signature |-> g]
           IN  Decode(w) = IF WireSize(w) > MAX_DPOP_WIRE_SIZE THEN Refused
                           ELSE Decoded(w, f, HeaderOf(f, s), PayloadOf(f, s))
<1> DEFINE w == [frame |-> IF f = "Cwt" THEN "sign1" ELSE "compact", signed |-> s, signature |-> g]
<1>1. w.signed = s /\ w.frame = IF f = "Cwt" THEN "sign1" ELSE "compact"
  OBVIOUS
<1> HIDE DEF w
<1> QED
  BY <1>1 DEF Decode, LooksLikeJwt, HeaderOf, PayloadOf, w

\* The other end reads what the proof says, or it refuses for the size.
LEMMA DeliveredReads ==
    ASSUME Apart, NEW p, NEW S, ProofInv(p), Kept(p, S), Encode(p) # Refused
    PROVE  LET w == Encode(p)
               f == p.wire_format
               h == HeaderOf(f, Covered(p))
           IN  /\ Covered(p) # Refused /\ ReadsAs(f, Covered(p), p.header, p.payload)
               /\ Decode(w) = IF WireSize(w) > MAX_DPOP_WIRE_SIZE THEN Refused
                             ELSE [header |-> h, payload |-> CarriedPayload(p.payload, f),
                                   signature |-> p.signature, signed_bytes |-> Covered(p),
                                   wire_format |-> f]
<1> DEFINE f == p.wire_format
           b == Covered(p)
           w == [frame |-> IF f = "Cwt" THEN "sign1" ELSE "compact", signed |-> b,
                 signature |-> p.signature]
           h == HeaderOf(f, b)
           q == PayloadOf(f, b)
<1>1. b # Refused /\ Encode(p) = w
  BY DEF Encode, Unless
<1>2. f \in {"Cwt", "Jwt"}
  BY DEF ProofInv
<1>3. ReadsAs(f, b, p.header, p.payload)
  BY <1>1, CoveredReads
<1>4. h # Refused /\ q = CarriedPayload(p.payload, f) /\ q # Refused
  BY <1>3, PayloadIsRead DEF ReadsAs, Kept
<1> HIDE DEF f, b, h, q
<1>5. Decode(w) = IF WireSize(w) > MAX_DPOP_WIRE_SIZE THEN Refused ELSE Decoded(w, f, h, q)
  BY <1>2, DecodeReads DEF h, q
<1>6. Decoded(w, f, h, q) = [header |-> h, payload |-> q, signature |-> p.signature,
                             signed_bytes |-> b, wire_format |-> f]
  BY <1>4 DEF Decoded, Unless
<1> HIDE DEF w
<1> QED
  BY <1>1, <1>3, <1>4, <1>5, <1>6 DEF f, b, h, q

-----------------------------------------------------------------------------
(* What each step keeps.                                                   *)

\* The fields that a builder step does not set.
LEMMA PayloadStepKept ==
    ASSUME NEW payload, IsPayload(payload), proof # Absent, ProofInv(proof),
           Kept(proof, signings), WithPayload(payload)
    PROVE  Kept(proof', signings')
<1> DEFINE p == proof'
<1>1. DOMAIN proof = Fields
  BY DEF ProofInv
<1>2. /\ p.header = proof.header /\ p.payload = payload /\ p.signature = proof.signature
      /\ p.signed_bytes = <<>> /\ signings' = signings
  BY <1>1 DEF WithPayload, Fields
<1> HIDE DEF p
<1> QED
  BY <1>2 DEF Kept, p

LEMMA PayloadFields ==
    ASSUME NEW q, IsPayload(q), NEW v
    PROVE  /\ IsPayload([q EXCEPT !.cti = v])
           /\ IsPayload([q EXCEPT !.nonce = v])
           /\ v = Absent \/ IsBytes(v) => IsPayload([q EXCEPT !.ath = v])
           /\ IsActx(v) => IsPayload([q EXCEPT !.actx = v])
<1>1. /\ q = [cti |-> q.cti, iat |-> q.iat, actx |-> q.actx, ath |-> q.ath, nonce |-> q.nonce]
      /\ q.iat # Absent /\ (q.ath = Absent \/ IsBytes(q.ath)) /\ IsActx(q.actx)
  BY DEF IsPayload
<1>2. ASSUME NEW c, NEW a, NEW t, NEW n, t = Absent \/ IsBytes(t), IsActx(a)
      PROVE  IsPayload([cti |-> c, iat |-> q.iat, actx |-> a, ath |-> t, nonce |-> n])
  <2> DEFINE r == [cti |-> c, iat |-> q.iat, actx |-> a, ath |-> t, nonce |-> n]
  <2>1. r.cti = c /\ r.iat = q.iat /\ r.actx = a /\ r.ath = t /\ r.nonce = n
    OBVIOUS
  <2>2. r = [cti |-> r.cti, iat |-> r.iat, actx |-> r.actx, ath |-> r.ath, nonce |-> r.nonce]
    BY <2>1
  <2> HIDE DEF r
  <2>3. IsPayload(r)
    BY <1>1, <1>2, <2>1, <2>2 DEF IsPayload
  <2> QED
    BY <2>3 DEF r
<1>3. [q EXCEPT !.cti = v] = [cti |-> v, iat |-> q.iat, actx |-> q.actx, ath |-> q.ath, nonce |-> q.nonce]
  BY <1>1
<1>4. [q EXCEPT !.nonce = v] = [cti |-> q.cti, iat |-> q.iat, actx |-> q.actx, ath |-> q.ath, nonce |-> v]
  BY <1>1
<1>5. [q EXCEPT !.ath = v] = [cti |-> q.cti, iat |-> q.iat, actx |-> q.actx, ath |-> v, nonce |-> q.nonce]
  BY <1>1
<1>6. [q EXCEPT !.actx = v] = [cti |-> q.cti, iat |-> q.iat, actx |-> v, ath |-> q.ath, nonce |-> q.nonce]
  BY <1>1
<1>7. IsPayload([q EXCEPT !.cti = v])
  BY <1>1, <1>2, <1>3
<1>8. IsPayload([q EXCEPT !.nonce = v])
  BY <1>1, <1>2, <1>4
<1>9. ASSUME v = Absent \/ IsBytes(v)
      PROVE  IsPayload([q EXCEPT !.ath = v])
  BY <1>1, <1>2, <1>5, <1>9
<1>10. ASSUME IsActx(v)
       PROVE  IsPayload([q EXCEPT !.actx = v])
  BY <1>1, <1>2, <1>6, <1>10
<1> QED
  BY <1>7, <1>8, <1>9, <1>10

LEMMA ResourceField ==
    ASSUME NEW q, IsPayload(q), NEW v
    PROVE  IsPayload([q EXCEPT !.actx.resource = v])
<1> DEFINE a == q.actx
           b == [ctx_type |-> a.ctx_type, action |-> a.action, tns |-> a.tns, tn |-> a.tn,
                 resource |-> v]
<1>1. /\ a = [ctx_type |-> a.ctx_type, action |-> a.action, tns |-> a.tns, tn |-> a.tn,
              resource |-> a.resource]
      /\ a.ctx_type # Absent /\ a.action \in DOMAIN WireNames
      /\ TnsSurvives(a.tns) /\ TnSurvives(a.tn)
  BY DEF IsPayload, IsActx
<1>2. /\ b.ctx_type = a.ctx_type /\ b.action = a.action /\ b.tns = a.tns /\ b.tn = a.tn
      /\ b = [ctx_type |-> b.ctx_type, action |-> b.action, tns |-> b.tns, tn |-> b.tn,
              resource |-> b.resource]
  OBVIOUS
<1> HIDE DEF a
<1>3. [a EXCEPT !.resource = v] = b
  BY <1>1
<1>4. [q EXCEPT !.actx.resource = v] = [q EXCEPT !.actx = [a EXCEPT !.resource = v]]
  BY DEF a
<1> HIDE DEF b
<1>5. IsActx(b)
  BY <1>1, <1>2 DEF IsActx
<1>6. IsPayload([q EXCEPT !.actx = b])
  BY <1>5, PayloadFields
<1> QED
  BY <1>3, <1>4, <1>6

LEMMA SignKept ==
    ASSUME Apart, NEW signer \in Signers, ProofInv(proof), Kept(proof, signings), Sign(signer)
    PROVE  Kept(proof', signings')
<1> DEFINE f == proof.wire_format
           h == proof.header
           b == EncodeHeaderAndPayload(f, h, proof.payload)
           sg == [by |-> signer.by, over |-> SignatureInput(f, h.alg, b)]
           s == [by |-> signer.by, content |-> Content(proof)]
           r == HeaderOf(f, b)
           p == proof'
<1>1. /\ b # Refused /\ s \in signings'
      /\ p = [proof EXCEPT !.signature = sg, !.signed_bytes = b]
  BY DEF Sign
<1>2. DOMAIN proof = Fields /\ f \in {"Cwt", "Jwt"}
  BY DEF ProofInv
<1>3. /\ IsHeader(h) /\ IsPayload(proof.payload) /\ IsKey(h.jwk)
  BY DEF Kept, IsHeader
<1> HIDE DEF b
<1>4. /\ ReadsAs(f, b, h, proof.payload)
      /\ f = "Cwt" => r.jwk = CoseKeyToJwk(JwkToCoseKey(h.jwk)) /\ JwkToCoseKey(h.jwk) # Refused
  BY <1>1, <1>2, <1>3, EncodedReads DEF b
<1>5. /\ r.alg = h.alg /\ r.typ = h.typ /\ PayloadOf(f, b) = CarriedPayload(proof.payload, f)
      /\ (f = "Cwt" => Thumbprint(h.jwk) # Refused) => Thumbprint(r.jwk) = Thumbprint(h.jwk)
  BY <1>4 DEF ReadsAs
<1>6. Thumbprint(r.jwk) = Thumbprint(h.jwk) \/ Thumbprint(r.jwk) # signer.by
  BY <1>3, <1>4, <1>5 DEF IsKey, NobodysKey
<1>7. /\ sg.by = s.by /\ s.by = signer.by /\ s.content = <<h.alg, h.typ, Thumbprint(h.jwk), proof.payload>>
      /\ sg.over = SignatureInput(f, h.alg, b)
  BY DEF Content
<1>8. /\ SignatureInput(f, h.alg, b)[2] = b[1] /\ SignatureInput(f, h.alg, b)[3] = b[2]
      /\ (SignatureInput(f, h.alg, b)[1] = "jws") <=> f = "Jwt"
  BY <1>2 DEF SignatureInput
<1>9. \A c : c[1] = b[1] /\ c[2] = b[2] => HeaderOf(f, c) = HeaderOf(f, b) /\ PayloadOf(f, c) = PayloadOf(f, b)
  BY DEF HeaderOf, PayloadOf
<1> HIDE DEF sg, s, r, h
<1>10. SignedAs(sg, s)
  <2> DEFINE over == sg.over
             c == <<over[2], over[3]>>
             g == IF over[1] = "jws" THEN "Jwt" ELSE "Cwt"
  <2>1. g = f /\ c[1] = b[1] /\ c[2] = b[2]
    BY <1>2, <1>7, <1>8
  <2> HIDE DEF c, g
  <2>2. HeaderOf(g, c) = r /\ PayloadOf(g, c) = PayloadOf(f, b)
    BY <1>9, <2>1 DEF r
  <2> QED
    BY <1>5, <1>6, <1>7, <2>1, <2>2 DEF SignedAs, c, g
<1>11. /\ p.header = h /\ p.payload = proof.payload /\ p.wire_format = f
       /\ p.signed_bytes = b /\ p.signature = sg
  BY <1>1, <1>2 DEF Fields, h
<1> HIDE DEF p, f
<1> QED
  BY <1>1, <1>3, <1>4, <1>10, <1>11 DEF Kept, p

LEMMA DeliverKept ==
    ASSUME Apart, ProofInv(proof), Kept(proof, signings), Deliver
    PROVE  Kept(proof', signings')
<1> DEFINE f == proof.wire_format
           b == Covered(proof)
           h == HeaderOf(f, b)
           q == CarriedPayload(proof.payload, f)
           p == proof'
<1>1. /\ Encode(proof) # Refused /\ Decode(Encode(proof)) # Refused
      /\ p = Decode(Encode(proof)) /\ signings' = signings
  BY DEF Deliver
<1>2. /\ ReadsAs(f, b, proof.header, proof.payload)
      /\ p = [header |-> h, payload |-> q, signature |-> proof.signature, signed_bytes |-> b,
              wire_format |-> f]
  BY <1>1, DeliveredReads
<1>3. f \in {"Cwt", "Jwt"} /\ IsPayload(proof.payload)
  BY DEF ProofInv, Kept
<1>4. IsPayload(q) /\ CarriedPayload(q, f) = q
  BY <1>3, CarriedIsPayload
<1>5. h # Refused /\ IsHeader(h) /\ PayloadOf(f, b) = q
  BY <1>2 DEF ReadsAs
<1>6. ReadsAs(f, b, h, q)
  <2> HIDE DEF q
  <2> QED
    BY <1>4, <1>5 DEF ReadsAs
<1>7. /\ p.header = h /\ p.payload = q /\ p.signature = proof.signature
      /\ p.signed_bytes = b /\ p.wire_format = f
  BY <1>2
<1>8. proof.signature # Absent => \E s \in signings : SignedAs(proof.signature, s)
  BY DEF Kept
<1> HIDE DEF p, q, h, b, f
<1> QED
  BY <1>1, <1>4, <1>5, <1>6, <1>7, <1>8 DEF Kept, p

LEMMA ReceiveKept ==
    ASSUME NEW w \in ForeignWires, NEW signer \in Signers, Receive(w, signer.by)
    PROVE  Kept(proof', signings')
<1> DEFINE q == Decode(w)
           f == q.wire_format
           b == w.signed
           h == q.header
           sg == [by |-> signer.by, over |-> SignatureInput(f, h.alg, b)]
           s == [by |-> signer.by, content |-> Content(q)]
           p == proof'
<1>1. /\ q # Refused /\ s \in signings'
      /\ p = [q EXCEPT !.signature = sg]
  BY DEF Receive
<1>2. PICK g \in {"Cwt", "Jwt"} : q = Decoded(w, g, HeaderOf(g, b), PayloadOf(g, b))
  BY <1>1 DEF Decode, HeaderOf, PayloadOf
<1>3. /\ q = [header |-> HeaderOf(g, b), payload |-> PayloadOf(g, b), signature |-> w.signature,
              signed_bytes |-> b, wire_format |-> g]
      /\ HeaderOf(g, b) # Refused
  BY <1>1, <1>2 DEF Decoded, Unless
<1>4. /\ IsHeader(q.header) /\ IsPayload(q.payload) /\ CarriedPayload(q.payload, f) = q.payload
  BY <1>1, WireConstants DEF IsForeign
<1> HIDE DEF q
<1>5. /\ f = g /\ h = HeaderOf(f, b) /\ q.payload = PayloadOf(f, b) /\ h # Refused
      /\ f \in {"Cwt", "Jwt"} /\ q.signed_bytes = b
      /\ DOMAIN q = Fields
  BY <1>3 DEF Fields
<1>6. ReadsAs(f, b, h, q.payload)
  BY <1>4, <1>5 DEF ReadsAs
<1>7. /\ sg.by = s.by /\ s.by = signer.by /\ s.content = <<h.alg, h.typ, Thumbprint(h.jwk), q.payload>>
      /\ sg.over = SignatureInput(f, h.alg, b)
  BY DEF Content
<1>8. /\ SignatureInput(f, h.alg, b)[2] = b[1] /\ SignatureInput(f, h.alg, b)[3] = b[2]
      /\ (SignatureInput(f, h.alg, b)[1] = "jws") <=> f = "Jwt"
  BY <1>5 DEF SignatureInput
<1>9. \A c : c[1] = b[1] /\ c[2] = b[2] => HeaderOf(f, c) = HeaderOf(f, b) /\ PayloadOf(f, c) = PayloadOf(f, b)
  BY DEF HeaderOf, PayloadOf
<1>10. /\ p.header = h /\ p.payload = q.payload /\ p.wire_format = f
       /\ p.signed_bytes = b /\ p.signature = sg
  BY <1>1, <1>5 DEF Fields
<1> HIDE DEF sg, s, h, b, f
<1>11. SignedAs(sg, s)
  <2> DEFINE over == sg.over
             c == <<over[2], over[3]>>
             g2 == IF over[1] = "jws" THEN "Jwt" ELSE "Cwt"
  <2>1. g2 = f /\ c[1] = b[1] /\ c[2] = b[2]
    BY <1>5, <1>7, <1>8
  <2> HIDE DEF c, g2
  <2>2. HeaderOf(g2, c) = h /\ PayloadOf(g2, c) = q.payload
    BY <1>5, <1>9, <2>1
  <2>3. PayloadOf(g2, c) = CarriedPayload(s.content[4], g2)
    BY <1>4, <1>7, <2>1, <2>2 DEF f
  <2> QED
    BY <1>7, <2>2, <2>3 DEF SignedAs, c, g2
<1> HIDE DEF p
<1> QED
  BY <1>1, <1>4, <1>6, <1>10, <1>11 DEF Kept, p, h

LEMMA CreateKept ==
    ASSUME NEW c \in Contexts, NEW holder \in Holders, CreateForMoqt(c, holder)
    PROVE  Kept(proof', signings')
<1> DEFINE h == [alg |-> holder.alg, typ |-> "dpop-proof+cwt", jwk |-> holder.jwk]
           a == [ctx_type |-> "moqt", action |-> c.action, tns |-> c.tns, tn |-> c.tn,
                 resource |-> Absent]
           q == [cti |-> Absent, iat |-> Now, actx |-> a, ath |-> Absent, nonce |-> Absent]
           p == proof'
<1>1. p = [header |-> h, payload |-> q, signature |-> Absent, signed_bytes |-> <<>>,
           wire_format |-> "Cwt"]
  BY DEF CreateForMoqt
<1>2. /\ h.alg = holder.alg /\ h.typ = "dpop-proof+cwt" /\ h.jwk = holder.jwk
      /\ h = [alg |-> h.alg, typ |-> h.typ, jwk |-> h.jwk]
  OBVIOUS
<1>3. /\ a.ctx_type = "moqt" /\ a.action = c.action /\ a.tns = c.tns /\ a.tn = c.tn
      /\ a = [ctx_type |-> a.ctx_type, action |-> a.action, tns |-> a.tns, tn |-> a.tn,
              resource |-> a.resource]
  OBVIOUS
<1>4. "dpop-proof+cwt" # Absent /\ "moqt" # Absent
  BY WireWords
<1> HIDE DEF h, a
<1>5. IsHeader(h)
  BY <1>2, <1>4, WireConstants DEF IsHeader
<1>6. IsActx(a)
  BY <1>3, <1>4, WireConstants DEF IsActx
<1>7. /\ q.iat = Now /\ q.ath = Absent /\ q.actx = a
      /\ q = [cti |-> q.cti, iat |-> q.iat, actx |-> q.actx, ath |-> q.ath, nonce |-> q.nonce]
  OBVIOUS
<1> HIDE DEF q
<1>8. IsPayload(q)
  BY <1>6, <1>7, WireConstants DEF IsPayload
<1>9. p.header = h /\ p.payload = q /\ p.signature = Absent /\ p.signed_bytes = <<>>
  BY <1>1
<1> HIDE DEF p
<1> QED
  BY <1>5, <1>8, <1>9 DEF Kept, p

LEMMA NewKept ==
    ASSUME ProofInv(proof), Kept(proof, signings), New
    PROVE  Kept(proof', signings')
<1> DEFINE p == proof'
<1>1. DOMAIN proof = Fields
  BY DEF ProofInv
<1>2. /\ p.header = proof.header /\ p.payload = proof.payload /\ p.signature = proof.signature
      /\ p.signed_bytes = <<>> /\ signings' = signings
  BY <1>1 DEF New, Fields
<1> HIDE DEF p
<1> QED
  BY <1>2 DEF Kept, p

LEMMA FormatKept ==
    ASSUME ProofInv(proof), Kept(proof, signings), NEW format, WithWireFormat(format)
    PROVE  Kept(proof', signings')
<1> DEFINE p == proof'
           t == IF format = "Cwt" THEN "dpop-proof+cwt" ELSE "dpop-proof+jwt"
           g == proof.header
           h == [g EXCEPT !.typ = t]
<1>1. DOMAIN proof = Fields
  BY DEF ProofInv
<1>2. p = [[[proof EXCEPT !.wire_format = format] EXCEPT !.header = h] EXCEPT !.signed_bytes = <<>>]
  BY <1>1 DEF WithWireFormat, Fields
<1> HIDE DEF h
<1>3. /\ p.header = h /\ p.payload = proof.payload /\ p.signature = proof.signature
      /\ p.signed_bytes = <<>> /\ signings' = signings
  BY <1>1, <1>2 DEF WithWireFormat, Fields
<1>4. t # Absent
  BY WireWords
<1>5. IsHeader(g)
  BY DEF Kept
<1> HIDE DEF t, g, p
<1>6. /\ g = [alg |-> g.alg, typ |-> g.typ, jwk |-> g.jwk]
      /\ g.alg \notin {Absent, Refused} /\ IsKey(g.jwk)
  BY <1>5 DEF IsHeader
<1>7. h = [alg |-> g.alg, typ |-> t, jwk |-> g.jwk]
  BY <1>6 DEF h
<1>8. h.alg = g.alg /\ h.typ = t /\ h.jwk = g.jwk /\ h = [alg |-> h.alg, typ |-> h.typ, jwk |-> h.jwk]
  BY <1>7
<1>9. IsHeader(h)
  BY <1>4, <1>6, <1>8 DEF IsHeader
<1> QED
  BY <1>3, <1>9 DEF Kept, p

LEMMA WireHolds ==
    ASSUME Apart
    PROVE  WSpec => [](ShapeInv /\ WireInv)
<1>1. WInit => WireInv
  BY DEF WInit, WireInv
<1>2. ShapeInv /\ WireInv /\ [WNext]_wvars => WireInv'
  <2> SUFFICES ASSUME ShapeInv, WireInv, [WNext]_wvars
               PROVE  WireInv'
    OBVIOUS
  <2>1. proof # Absent => ProofInv(proof) /\ Kept(proof, signings)
    BY DEF ShapeInv, WireInv, ProofInv, Fields, Kept
  <2>2. Kept(proof', signings') => WireInv'
    BY DEF WireInv, Kept
  <2>3. proof # Absent => IsPayload(proof.payload)
    BY <2>1 DEF Kept
  <2>4. ASSUME NEW payload, IsPayload(payload), proof # Absent, WithPayload(payload)
        PROVE  WireInv'
    BY <2>1, <2>2, <2>4, PayloadStepKept
  <2>5. ASSUME NEW c \in Contexts, NEW holder \in Holders, CreateForMoqt(c, holder)
        PROVE  WireInv'
    BY <2>2, <2>5, CreateKept
  <2>6. CASE New
    BY <2>1, <2>2, <2>6, NewKept DEF New
  <2>7. ASSUME NEW id, WithReplayId(id)
        PROVE  WireInv'
    BY <2>3, <2>4, <2>7, PayloadFields DEF WithReplayId
  <2>8. ASSUME NEW endpoint, NEW named, WithResource(endpoint, named)
        PROVE  WireInv'
    <3>1. PICK uri : /\ proof # Absent
                     /\ WithPayload([proof.payload EXCEPT !.actx.resource = uri])
      BY <2>8 DEF WithResource
    <3>2. IsPayload([proof.payload EXCEPT !.actx.resource = uri])
      BY <2>3, <3>1, ResourceField
    <3> QED
      BY <2>4, <3>1, <3>2
  <2>9. ASSUME NEW ath, IsBytes(ath), WithAccessTokenHash(ath)
        PROVE  WireInv'
    BY <2>3, <2>4, <2>9, PayloadFields DEF WithAccessTokenHash
  <2>10. ASSUME NEW text \in HashTexts, WithAccessTokenHashB64(text)
         PROVE  WireInv'
    <3> DEFINE ath == IF DecodeBase64(text) = Refused THEN text ELSE DecodeBase64(text)
    <3>1. proof # Absent /\ WithPayload([proof.payload EXCEPT !.ath = ath])
      BY <2>10 DEF WithAccessTokenHashB64
    <3>2. IsBytes(ath)
      BY WireConstants, DecodedBase64
    <3> HIDE DEF ath
    <3> QED
      BY <2>3, <2>4, <3>1, <3>2, PayloadFields
  <2>11. ASSUME NEW nonce, WithNonce(nonce)
         PROVE  WireInv'
    BY <2>3, <2>4, <2>11, PayloadFields DEF WithNonce
  <2>12. ASSUME NEW format, WithWireFormat(format)
         PROVE  WireInv'
    BY <2>1, <2>2, <2>12, FormatKept DEF WithWireFormat
  <2>13. ASSUME NEW signer \in Signers, Sign(signer)
         PROVE  WireInv'
    BY <2>1, <2>2, <2>13, SignKept DEF Sign
  <2>14. CASE Deliver
    BY <2>1, <2>2, <2>14, DeliverKept DEF Deliver
  <2>15. ASSUME NEW w \in ForeignWires, NEW signer \in Signers, Receive(w, signer.by)
         PROVE  WireInv'
    BY <2>2, <2>15, ReceiveKept
  <2>16. CASE UNCHANGED wvars
    BY <2>16 DEF WireInv, wvars
  <2>17. CASE Step
    <3>1. CASE \E ath \in Hashes : WithAccessTokenHash(ath)
      BY <2>9, <3>1, WireConstants
    <3> QED
      BY <2>5, <2>6, <2>7, <2>8, <2>10, <2>11, <2>12, <2>13, <2>14, <2>15, <2>17, <3>1 DEF Step
  <2> QED
    BY <2>16, <2>17 DEF WNext
<1>3. WSpec => []ShapeInv
  BY ShapeHolds
<1> QED
  BY <1>1, <1>2, <1>3, PTL DEF WSpec

\* After any steps, whatever another encoder wrote: the other end reads the
\* fields a proof has now, its key and its signature (dpop.rs 590-656: every
\* builder forgets signed_bytes, encode() prefers them).
THEOREM ProofsSayWhatTheyHave ==
    ASSUME Apart
    PROVE  WSpec => []WireIsCurrent
<1>1. ShapeInv /\ WireInv => WireIsCurrent
  <2> DEFINE f == proof.wire_format
             w == Encode(proof)
             b == Covered(proof)
             h == HeaderOf(f, b)
             q == CarriedPayload(proof.payload, f)
             p == Decode(w)
  <2> SUFFICES ASSUME ShapeInv, WireInv, proof # Absent,
                      f = "Cwt" => Thumbprint(proof.header.jwk) # Refused,
                      w # Refused, ~(WireSize(w) > MAX_DPOP_WIRE_SIZE)
               PROVE  /\ p # Refused
                      /\ Content(p) = Carried(Content(proof), f)
                      /\ p.wire_format = f
                      /\ p.signature = proof.signature
    BY DEF WireIsCurrent
  <2>1. ProofInv(proof) /\ Kept(proof, signings)
    BY DEF ShapeInv, WireInv, ProofInv, Fields, Kept
  <2>2. /\ ReadsAs(f, b, proof.header, proof.payload)
        /\ p = [header |-> h, payload |-> q, signature |-> proof.signature,
                signed_bytes |-> b, wire_format |-> f]
    BY <2>1, DeliveredReads
  <2>3. h.alg = proof.header.alg /\ h.typ = proof.header.typ /\ Thumbprint(h.jwk) = Thumbprint(proof.header.jwk)
    BY <2>2 DEF ReadsAs
  <2> HIDE DEF h, q, b, p
  <2>4. p # Refused
    BY <2>2 DEF Apart
  <2>5. p.header = h /\ p.payload = q /\ p.wire_format = f /\ p.signature = proof.signature
    BY <2>2
  <2>6. Content(p) = Carried(Content(proof), f)
    BY <2>3, <2>5 DEF Content, Carried, q
  <2> QED
    BY <2>4, <2>5, <2>6
<1> QED
  BY <1>1, WireHolds, PTL

\* After any steps, whatever another encoder wrote: a proof that verifies says
\* what the holder of its key signed (dpop.rs 2585-2603 over signing_input
\* 670-676).
THEOREM VerifiedWasSigned ==
    ASSUME Apart
    PROVE  WSpec => []VerifiedMeansSigned
<1>1. ShapeInv /\ WireInv => VerifiedMeansSigned
  <2> DEFINE f == proof.wire_format
             b == Covered(proof)
             h == HeaderOf(f, b)
             key == Thumbprint(proof.header.jwk)
  <2> SUFFICES ASSUME ShapeInv, WireInv, proof # Absent, VerifyWithEmbeddedKey(proof)
               PROVE  \E s \in signings :
                         /\ s.by = key
                         /\ Carried(s.content, f) = Carried(Content(proof), f)
    BY DEF VerifiedMeansSigned
  <2>1. ProofInv(proof) /\ Kept(proof, signings)
    BY DEF ShapeInv, WireInv, ProofInv, Fields, Kept
  <2>2. /\ b # Refused /\ key # Refused /\ proof.signature # Absent
        /\ proof.signature.by = key
        /\ proof.signature.over = SignatureInput(f, proof.header.alg, b)
    BY DEF VerifyWithEmbeddedKey, Verifies
  <2>3. ReadsAs(f, b, proof.header, proof.payload)
    BY <2>1, <2>2, CoveredReads
  <2>4. /\ h.alg = proof.header.alg /\ h.typ = proof.header.typ /\ Thumbprint(h.jwk) = key
        /\ PayloadOf(f, b) = CarriedPayload(proof.payload, f)
    BY <2>2, <2>3 DEF ReadsAs
  <2>5. PICK s \in signings : SignedAs(proof.signature, s)
    BY <2>1, <2>2 DEF Kept
  <2> DEFINE over == proof.signature.over
             c == <<over[2], over[3]>>
             g == IF over[1] = "jws" THEN "Jwt" ELSE "Cwt"
  <2>6. g = f /\ c[1] = b[1] /\ c[2] = b[2]
    BY <2>1, <2>2 DEF SignatureInput, ProofInv
  <2>7. \A d : d[1] = b[1] /\ d[2] = b[2] => HeaderOf(f, d) = HeaderOf(f, b) /\ PayloadOf(f, d) = PayloadOf(f, b)
    BY DEF HeaderOf, PayloadOf
  <2>8. /\ proof.signature.by = s.by
        /\ HeaderOf(g, c).alg = s.content[1] /\ HeaderOf(g, c).typ = s.content[2]
        /\ Thumbprint(HeaderOf(g, c).jwk) = s.content[3] \/ Thumbprint(HeaderOf(g, c).jwk) # s.by
        /\ PayloadOf(g, c) = CarriedPayload(s.content[4], g)
    BY <2>5 DEF SignedAs
  <2> HIDE DEF c, g, b, over
  <2>9. HeaderOf(g, c) = h /\ PayloadOf(g, c) = PayloadOf(f, b)
    BY <2>6, <2>7
  <2> HIDE DEF h, key
  <2>10. /\ s.by = key
         /\ s.content[1] = proof.header.alg /\ s.content[2] = proof.header.typ
         /\ s.content[3] = key
         /\ CarriedPayload(s.content[4], f) = CarriedPayload(proof.payload, f)
    BY <2>2, <2>4, <2>6, <2>8, <2>9
  <2>11. Carried(s.content, f) = Carried(Content(proof), f)
    BY <2>10 DEF Carried, Content, key
  <2> QED
    BY <2>10, <2>11
<1> QED
  BY <1>1, WireHolds, PTL
=============================================================================
