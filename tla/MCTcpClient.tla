---------------------------- MODULE MCTcpClient ----------------------------
(* TcpClient for TLC: the other constants are in TcpClient.cfg. *)
EXTENDS TcpClient

Server(family) == Addr(family, <<127, IF family = "AF_INET" THEN 0 ELSE 1>>, HostToNet16(40000))
Elsewhere == Addr("AF_INET", <<127, 0>>, HostToNet16(40001))
MCAddresses == {Server(family) : family \in Families} \cup {Elsewhere}

(* Users that are patient and use the client as its examples do, with every  *)
(* outcome of connect() or only with those that are tried again; users that  *)
(* call anything at any time; and users of an IPv6 server.                   *)
MCUsers ==
    {[own |-> {"disConnect"}, patient |-> TRUE, maxCalls |-> 4, spurious |-> Getters,
      server |-> Server("AF_INET"), locals |-> {Elsewhere},
      errnos |-> {"EINPROGRESS", "ECONNREFUSED", "EHOSTUNREACH"}],
     [own |-> {}, patient |-> TRUE, maxCalls |-> 3, spurious |-> {},
      server |-> Server("AF_INET"), locals |-> {Elsewhere, Server("AF_INET")},
      errnos |-> {"EINPROGRESS", "ECONNREFUSED"}],
     [own |-> {"connect", "stop", "disConnect", "forceClose"}, patient |-> FALSE,
      maxCalls |-> 2, spurious |-> {Owner},
      server |-> Server("AF_INET"), locals |-> {Elsewhere},
      errnos |-> {"EINPROGRESS", "ECONNREFUSED"}],
     [own |-> {}, patient |-> TRUE, maxCalls |-> 2, spurious |-> {},
      server |-> Server("AF_INET6"), locals |-> {Server("AF_INET6")},
      errnos |-> {"EINPROGRESS", "ECONNREFUSED"}]}

-----------------------------------------------------------------------------
(* SocketOps against what it is meant to do, for small inputs. *)

Ports == {0, 1, 9, 10, 80, 255, 256, 9999, 10000, 40000, 65535}
Ips == {<<0, 0>>, <<0, 1>>, <<127, 0>>}
Socks == {sock \in [local : MCAddresses, peer : MCAddresses] :
            sock.local.family = sock.peer.family}

(* A port comes back from network byte order, and an address to listen on    *)
(* has it and the ip that was asked for.                                     *)
ASSUME PortsRight ==
    \A port \in Ports, loop \in BOOLEAN, ipv6 \in BOOLEAN :
        LET addr == InetAddress(port, loop, ipv6)
        IN  /\ GetPort(addr) = port
            /\ addr.ip = AnyIp <=> ~loop
            /\ GetProtoFamily(addr) = IF ipv6 THEN "PF_INET6" ELSE "PF_INET"

(* An address made from text, resolved or set keeps the family and the port  *)
(* it should.                                                                *)
ASSUME AddressesRight ==
    \A family \in {"AF_INET", "AF_INET6"}, ip \in Ips, port \in Ports, addr \in MCAddresses :
        LET text == [family |-> family, ip |-> ip]
            made == InetAddressOf(text, port, family = "AF_INET6", addr)
            found == ResolveHost(text, made)
        IN  /\ made = Addr(family, ip, HostToNet16(port))
            /\ found.ok <=> family = "AF_INET"
            /\ GetPort(found.addr) = port /\ found.addr.family = family
            /\ SetAddr(made, addr).family = family

(* IsSelfConnect is exact for IPv4, and never true for the other families.   *)
ASSUME SelfConnectExact ==
    \A sock \in Socks, rest \in 0..1 :
        IsSelfConnect(sock, rest) <=> sock.local = sock.peer /\ sock.local.family = "AF_INET"

(* The text of an ip has at most 45 characters, and with every port it fits. *)
(* In a buffer with exactly six bytes left a port of five digits loses one.  *)
ASSUME TextWhole ==
    \A len \in {2, 7, 15, 39, 45}, port \in Ports :
        LET ip == [k \in 1..len |-> "x"]
            addr == InetAddress(port, FALSE, TRUE)
        IN  /\ GetIpStr(ip, <<>>) = ip
            /\ GetIpPortStr(ip, <<>>, addr) = ip \o <<":">> \o Decimal(port)
            /\ ToIpPort(len + 6, ip, <<>>, addr) = ip \o <<":">> \o
                 (IF port < 10000 THEN Decimal(port) ELSE SubSeq(Decimal(port), 1, 4))

(* bind() and connect() are given a whole address; a struct sockaddr, which  *)
(* accept4, getsockname and getpeername fill, holds that of IPv4 only.       *)
ASSUME SockAddrHolds ==
    \A addr \in MCAddresses, rest \in 0..1 :
        GetAddrSize(addr) <= 16 => SockAddr(addr, rest) = addr

(* The blocking Socket: Connect succeeds when one of its first maxWait + 1   *)
(* tries does, after a second for each that did not, and gives up after the  *)
(* last; Send returns the first result that is not to be tried again.        *)
ASSUME BlockingRetries ==
    /\ \A maxWait \in 0..3 : \A rets \in [1..4 -> {0, -1}] :
         LET res == SocketConnect(rets, maxWait)
         IN  /\ res.ret = 0 <=> \E k \in 1..(maxWait + 1) : rets[k] = 0
             /\ res.slept <= maxWait
             /\ \A k \in 1..res.slept : rets[k] = -1
             /\ res.ret = 0 => rets[res.slept + 1] = 0
    /\ \A rets \in [1..4 -> {"EAGAIN", "EINTR", "EPIPE", "short"}] :
         rets[4] \notin {"EAGAIN", "EINTR"} =>
           \E k \in 1..4 : /\ SocketSend(rets) = rets[k]
                           /\ rets[k] \notin {"EAGAIN", "EINTR"}
                           /\ \A j \in 1..(k - 1) : rets[j] \in {"EAGAIN", "EINTR"}
=============================================================================
