------------------------------ MODULE SocketOps ------------------------------
(***************************************************************************)
(* The addresses of muzi (muzi/net/inet_address.{h,cc}, local_address.h)   *)
(* and what socket_ops.{h,cc} and socket.cc make of them and of the errors *)
(* of the system calls.                                                    *)
(*                                                                         *)
(* An address is a record of its family, its ip or path and its port, in   *)
(* network byte order.  The ip has two parts: the part in the first 16     *)
(* bytes, which is what a struct sockaddr holds, and the rest, which only  *)
(* a sockaddr_in6 or a sockaddr_un has.                                    *)
(***************************************************************************)
EXTENDS Integers, Sequences

Families == {"AF_INET", "AF_INET6", "AF_LOCAL"}
Addr(family, ip, port) == [family |-> family, ip |-> ip, port |-> port]

-----------------------------------------------------------------------------
(* endian::HostToNet and NetToHost of 16 bits, on a little-endian machine. *)
HostToNet16(host) == (host % 256) * 256 + host \div 256
NetToHost16(net) == (net % 256) * 256 + net \div 256

AnyIp == <<0, 0>>
Loopback(ipv6) == IF ipv6 THEN <<0, 1>> ELSE <<127, 0>>

(* The InetAddress to listen on. *)
InetAddress(port, loopBackOnly, ipv6) ==
    Addr(IF ipv6 THEN "AF_INET6" ELSE "AF_INET",
         IF loopBackOnly THEN Loopback(ipv6) ELSE AnyIp,
         HostToNet16(port))

(* The text of an ip is a record of the family it is written for and the ip  *)
(* it says.  When inet_pton does not take it, the ip stays what it was.      *)
FromIpPort(text, port, family, old) ==
    Addr(family, IF text.family = family THEN text.ip ELSE old.ip, HostToNet16(port))

InetAddressOf(text, port, ipv6, old) ==
    FromIpPort(text, port, IF ipv6 THEN "AF_INET6" ELSE "AF_INET", old)

GetProtoFamily(addr) ==
    CASE addr.family = "AF_INET"  -> "PF_INET"
      [] addr.family = "AF_INET6" -> "PF_INET6"
      [] addr.family = "AF_LOCAL" -> "PF_LOCAL"

GetPort(addr) == NetToHost16(addr.port)

(* The bytes that bind() and connect() are given. *)
GetAddrSize(addr) == IF addr.family = "AF_INET" THEN 16 ELSE 28

(* ResolveHost: the ip of an IPv4 host is put into the address. *)
ResolveHost(found, addr) ==
    IF found.family = "AF_INET" THEN [ok |-> TRUE, addr |-> [addr EXCEPT !.ip = found.ip]]
                                ELSE [ok |-> FALSE, addr |-> addr]

(* SetAddr of an address of another family does nothing. *)
SetAddr(addr, other) == IF addr.family = other.family THEN other ELSE addr

(* A struct sockaddr, of 16 bytes, read as the address it was: "rest" is     *)
(* what memory holds after it.                                               *)
SockAddr(addr, rest) ==
    IF addr.family = "AF_INET" THEN addr ELSE [addr EXCEPT !.ip = <<addr.ip[1], rest>>]

(* GetLocalAddr and GetPeerAddr. *)
GetLocalAddr(sock, rest) == SockAddr(sock.local, rest)
GetPeerAddr(sock, rest) == SockAddr(sock.peer, rest)

(* Accept writes 16 bytes into the address it is given. *)
AcceptAddr(peer, addr) == SockAddr(peer, addr.ip[2])

(* IsSelfConnect: for IPv6 the result of memcpy, which is never null, is     *)
(* compared with 0.                                                          *)
IsSelfConnect(sock, rest) ==
    LET local == GetLocalAddr(sock, rest)
        peer == GetPeerAddr(sock, rest)
    IN  /\ local.family = "AF_INET"
        /\ local.port = peer.port /\ local.ip = peer.ip

-----------------------------------------------------------------------------
(* What is done about an error of connect() and of accept4(). *)

ConnectErrors ==
    [progress |-> {"0", "EINPROGRESS", "EINTR", "EISCONN"},
     retry    |-> {"EAGAIN", "EADDRINUSE", "EADDRNOTAVAIL", "ECONNREFUSED", "ENETUNREACH"},
     close    |-> {"EACCES", "EPERM", "EAFNOSUPPORT", "EALREADY", "EBADF", "EFAULT", "ENOTSOCK",
                   "ETIMEDOUT", "EHOSTUNREACH"}]
Errnos == UNION {ConnectErrors[class] : class \in DOMAIN ConnectErrors}

(* connect() of a socket of another family than the address fails. *)
ConnectErrnos(pf, addr, errnos) ==
    IF GetProtoFamily(addr) = pf THEN errnos ELSE {"EAFNOSUPPORT"}

AcceptPasses == {"EMFILE", "EAGAIN", "EINTR", "ECONNABORTED"}

-----------------------------------------------------------------------------
(* The text of an address, as a sequence of characters. *)

Decimal(n) ==
    LET d[k \in 0..n] == IF k < 10 THEN <<k>> ELSE Append(d[k \div 10], k % 10) IN d[n]

(* snprintf keeps size - 1 characters. *)
ToPort(size, addr) ==
    LET digits == Decimal(GetPort(addr))
    IN  SubSeq(digits, 1, IF Len(digits) < size THEN Len(digits) ELSE size - 1)

(* inet_ntop fails when the text and its end do not fit: the buffer stays as *)
(* it was.                                                                   *)
ToIp(size, text, held) == IF Len(text) < size THEN text ELSE held

ToIpPort(size, text, held, addr) ==
    LET ip == ToIp(size, text, held)
    IN  IF size - Len(ip) >= 6 THEN ip \o <<":">> \o ToPort(size - Len(ip) - 1, addr) ELSE ip

(* char buf[64] of GetIpStr and GetIpPortStr *)
GetIpStr(text, held) == ToIp(64, text, held)
GetIpPortStr(text, held, addr) == ToIpPort(64, text, held, addr)

-----------------------------------------------------------------------------
(* The calls of a blocking Socket, which try again.  What the system call    *)
(* returns is taken from a sequence.                                         *)

(* Socket::Connect, which sleeps a second between two tries. *)
SocketConnect(rets, maxWait) ==
    LET try[curTime \in 0..maxWait] ==
            IF rets[curTime + 1] = 0 THEN [ret |-> 0, slept |-> curTime]
            ELSE IF curTime < maxWait THEN try[curTime + 1]
            ELSE [ret |-> -1, slept |-> curTime]
    IN  try[0]

(* Socket::Send: a written length, which may be short, or an error. *)
SocketSend(rets) ==
    LET try[k \in DOMAIN rets] ==
            IF rets[k] \in {"EAGAIN", "EINTR"} /\ k < Len(rets) THEN try[k + 1] ELSE rets[k]
    IN  try[1]
=============================================================================
