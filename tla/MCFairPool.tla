----------------------------- MODULE MCFairPool -----------------------------
(* FairPool with four sessions, which stand for new ones once nobody       *)
(* refers to them any more, and two visitor handlers.  Sessions and        *)
(* handlers are interchangeable, and every property checked is a safety    *)
(* property, so symmetry is sound.                                         *)
EXTENDS FairPool, TLC

Symmetry == Permutations(Sessions) \cup Permutations(Handlers)
=============================================================================
