---------------------------- MODULE MCUdpServer ----------------------------
(* Small instances of UdpServer for TLC. *)
EXTENDS UdpServer, TLC
CONSTANTS r1, r2, a1, a2
=============================================================================
