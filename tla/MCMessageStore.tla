--------------------------- MODULE MCMessageStore ---------------------------
(* MessageStore with every failure.                                        *)
EXTENDS MessageStore

AllFaults == StoreFaults
=============================================================================
