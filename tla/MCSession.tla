----------------------------- MODULE MCSession -----------------------------
(* Session for TLC.  The buffers are small enough to matter: the daemon's   *)
(* eight cells take four messages, the client's four take two, so that a    *)
(* reply needs three reads, as the 4096 bytes of a reply need five reads of *)
(* 1024 bytes.                                                              *)
EXTENDS Session
=============================================================================
