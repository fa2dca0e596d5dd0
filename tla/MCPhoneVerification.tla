-------------------------- MODULE MCPhoneVerification --------------------------
(* Instances of PhoneVerification: a phone with one or two spellings.      *)
EXTENDS PhoneVerification, TLC

CONSTANTS p1, p2, p1Local, bad, r1, r2

\* A number as E.164, and as dialled inside the country; what is no number at all.
MCPhoneOf == (p1 :> p1) @@ (p2 :> p2) @@ (p1Local :> p1) @@ (bad :> None)
OnePhone == p1 :> p1

Symmetry == Permutations(Requests)
=============================================================================
