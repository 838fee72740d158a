------------------------------ MODULE MCRelay ------------------------------
(* Two bytes each way through buffers of one byte: a writer has to wait    *)
(* for a reader on every hop.                                              *)
EXTENDS Relay
=============================================================================
