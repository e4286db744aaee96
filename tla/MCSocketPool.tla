---------------------------- MODULE MCSocketPool ----------------------------
(* Instance of SocketPool, and so of TcpClient, for TLC: sockets are         *)
(* numbered from LWIP_SOCKET_OFFSET, 54.  Three of them, one the HTTP        *)
(* server's for good, the others for a session, the captive DNS and the TCP  *)
(* client to compete for; the read buffer is smaller than what the car       *)
(* sends.                                                                    *)
EXTENDS SocketPool
=============================================================================
