------------------------- MODULE MCOutboundLimiter -------------------------
(* A thread that calls wait on a bucket of two tokens and a half.           *)
EXTENDS OutboundLimiter

CONSTANT h1

MCThreads == {h1}
=============================================================================
