---------------------------- MODULE MCAutoReply ----------------------------
(* AutoReply with clocks and counters of a few values, so that they wrap.  *)
EXTENDS AutoReply
=============================================================================
