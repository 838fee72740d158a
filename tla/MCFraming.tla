----------------------------- MODULE MCFraming -----------------------------
(* Sizes in the order that they have in the code (a message's header is    *)
(* smaller than its payload, yamux's buffer larger than its own header and *)
(* smaller than some of its frames), scaled down.                          *)
EXTENDS Framing
=============================================================================
