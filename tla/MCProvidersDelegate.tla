----------------------- MODULE MCProvidersDelegate -----------------------
(* Two interchangeable stakers; rates are exact for totals of up to three. *)
EXTENDS ProvidersDelegate, TLC
CONSTANTS s1, s2
MCSymmetry == Permutations(Stakers)
=============================================================================
