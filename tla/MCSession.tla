----------------------------- MODULE MCSession -----------------------------
(* Streams of one piece, queues and channels of one message.                *)
EXTENDS Session
=============================================================================
