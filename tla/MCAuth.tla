------------------------------- MODULE MCAuth -------------------------------
(***************************************************************************)
(* Auth for TLC: each initial user has one recovery code of its own; a     *)
(* third user may register.                                                *)
(***************************************************************************)
EXTENDS Auth, TLC

CONSTANTS u1, u2, u3, c1, c2

MCRecoveryCodes == (u1 :> {c1}) @@ (u2 :> {c2}) @@ (u3 :> {})

MCSymmetry == Permutations(Workers)
=============================================================================
