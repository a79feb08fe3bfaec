--------------------------- MODULE MCSocketClient ----------------------------
(* SocketClient with a few sockets and tokens. *)
EXTENDS SocketClient

MCSlots == 1..3
==============================================================================
