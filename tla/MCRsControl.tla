---------------------------- MODULE MCRsControl ----------------------------
(* Addresses are numbers; there are as many as structures can be created.  *)
EXTENDS RsControl

MCControl == 1..NumThreads
=============================================================================
