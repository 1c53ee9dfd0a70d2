----------------------------- MODULE MCAcceptor -----------------------------
(* Acceptor for TLC, listening on an IPv4 and on an IPv6 address. *)
EXTENDS Acceptor

MCListenAddrs == {InetAddress(80, FALSE, ipv6) : ipv6 \in BOOLEAN}
=============================================================================
