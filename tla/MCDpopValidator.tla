--------------------------- MODULE MCDpopValidator ---------------------------
(***************************************************************************)
(* One relay key and one request; the proofs that arrive are a genuine one *)
(* (g1), another for the same cti dated a second later (g2), one for a     *)
(* second cti dated ahead of the clock (f1), a forgery that names g1's cti *)
(* (x1) and one bound to another token (y1); the dates of the last two are *)
(* their own, so that what they would leave in the store can be told.      *)
(***************************************************************************)
EXTENDS DpopValidator, TLC

Req == [action |-> "Subscribe", key |-> "holder", ath |-> "token"]

Proof(cti, iat) ==
    [typ |-> "dpop", alg |-> ALG_ES256, ctx |-> "moqt", action |-> "Subscribe",
     tns |-> <<"ns">>, tn |-> <<"t">>, iat |-> iat, cti |-> cti, ath |-> "token",
     key |-> "holder", sigKey |-> "holder"]

At(p) == [proof |-> p, req |-> Req, issuer |-> "iss"]

g1 == At(Proof("c1", 1))
g2 == At(Proof("c1", 2))
f1 == At(Proof("c2", 7))
x1 == At([Proof("c1", 3) EXCEPT !.sigKey = "other"])
y1 == At([Proof("c1", 4) EXCEPT !.ath = "other token"])

MCAttempts == {g1, g2, f1, x1, y1}
MCKeys == {JtiCall(a).key : a \in MCAttempts}
MCIats == {a.proof.iat : a \in MCAttempts}
MCShardOf == [k \in MCKeys |-> IF k[3] = "c1" THEN 0 ELSE 1]
Symmetry == Permutations(Threads)
=============================================================================
