------------------------------- MODULE Acceptor -------------------------------
(***************************************************************************)
(* muzi::Acceptor (muzi/net/acceptor.{h,cc}) with socket::Accept, and the  *)
(* descriptors of the process: HandleRead accepts until nothing is left,   *)
(* and gives up dummy_fd_ to refuse a connection when the descriptors are  *)
(* used up.  One Address, made by HandleRead, takes the address of every   *)
(* peer it accepts, and their connections share it.  The loop of HandleRead *)
(* ends when Accept returns 0, which is a descriptor like any other when    *)
(* the program has closed its standard input.                              *)
(*                                                                         *)
(* The kernel takes a descriptor before it looks for a connection, as      *)
(* Linux does: at the limit accept() fails with EMFILE though no connection *)
(* is waiting.  A descriptor that is opened is the lowest that is free.    *)
(***************************************************************************)
EXTENDS SocketOps, FiniteSetsExt

CONSTANTS MaxFds,       \* the descriptors the process may have, besides descriptor 0
          MaxPeers,     \* bound: the peers that connect
          MaxOthers,    \* bound: the descriptors opened by the rest of the process
          Release,      \* whether descriptors are closed while HandleRead runs
          Errors,       \* other errors of accept(), and EADDRINUSE of bind() and listen()
          ListenAddrs   \* the addresses to listen on

ASSUME AcceptorAssumption ==
    /\ MaxFds \in Nat /\ MaxFds >= 1 /\ MaxPeers \in Nat /\ MaxOthers \in Nat
    /\ Release \in BOOLEAN
    /\ Errors \subseteq {"ENFILE", "ECONNABORTED", "EINTR", "EADDRINUSE"}
    /\ \A addr \in ListenAddrs : addr.family \in Families

(* The peers, in the order in which they connect, and their addresses. *)
Peers == 1..MaxPeers
PeerAddr(p, family) == Addr(family, <<p, IF family = "AF_INET" THEN 0 ELSE p>>, HostToNet16(p))

VARIABLES
    localAddr,          \* local_addr_
    cb,                 \* whether cb_ is set
    listening,          \* listening_
    dummy,              \* what dummy_fd_ is: an idle file, a socket, or not open
    apc,                \* where HandleRead is
    backlog,            \* the connections that wait to be accepted
    open,               \* the connections handed to cb_ that are open
    others,             \* the other descriptors of the process
    zero,               \* what descriptor 0 is: of the rest of the "process", dummy_fd_,
                        \* a connection that nobody keeps ("stray"), or free
    sharing,            \* the connections that share the Address of this HandleRead
    peerAddr,           \* peer_addr_ of each connection handed to cb_
    peers,              \* history: the peers that have connected
    refused,            \* history: the connections closed here
    mishaps,            \* history: the other errors of accept(), and "stolen": another
                        \* thread opened a descriptor while dummy_fd_ was given up
    bad,                \* history: cb_ was called with a negative descriptor
    aborted             \* history: the error that ended the process, or "no"

historyVars == <<refused, mishaps, bad, aborted>>
addrVars == <<localAddr, cb, sharing, peerAddr>>
acceptorVars ==
    <<listening, dummy, apc, backlog, open, others, zero, peers, historyVars, addrVars>>

(* The descriptors in use, besides descriptor 0. *)
Taken == open + others + (IF dummy = "closed" \/ zero = "dummy" THEN 0 ELSE 1)

AcceptorTypeOK ==
    /\ localAddr \in ListenAddrs /\ cb \in BOOLEAN
    /\ listening \in BOOLEAN /\ dummy \in {"idle", "socket", "closed"}
    /\ apc \in {"new", "wait", "accept", "given", "taken", "reopen", "dead"}
    /\ backlog \in 0..MaxPeers /\ open \in 0..MaxPeers /\ others \in 0..MaxOthers
    /\ zero \in {"process", "dummy", "stray", "free"}
    /\ sharing \subseteq Peers /\ DOMAIN peerAddr \subseteq Peers
    /\ peers \in 0..MaxPeers /\ refused \in 0..MaxPeers
    /\ mishaps \subseteq Errors \cup {"stolen"}
    /\ bad \in BOOLEAN /\ aborted \in {"no", "ENFILE", "EADDRINUSE", "open"}
    /\ Taken <= MaxFds

AcceptorInit ==
    /\ localAddr \in ListenAddrs /\ cb \in BOOLEAN
    /\ listening = FALSE /\ dummy = "idle" /\ apc = "new"
    /\ backlog = 0 /\ open = 0 /\ others = 0 /\ zero = "process"
    /\ sharing = {} /\ peerAddr = <<>>
    /\ peers = 0 /\ refused = 0
    /\ mishaps = {} /\ bad = FALSE /\ aborted = "no"

Full == Taken = MaxFds /\ zero # "free"

(* dummy_fd_ takes the lowest free descriptor, and gives its own back.       *)
DummyOpens(what) ==
    /\ dummy' = what
    /\ zero' = IF zero = "free" THEN "dummy" ELSE zero

DummyCloses ==
    /\ dummy' = "closed"
    /\ zero' = IF zero = "dummy" THEN "free" ELSE zero

(* The constructor binds the socket.  LOG_FATAL ends the process when bind() *)
(* fails, and in Listen when listen() does.                                  *)
Bind ==
    /\ apc = "new"
    /\ apc' = "wait"
    /\ UNCHANGED <<listening, dummy, backlog, open, others, zero, peers, historyVars, addrVars>>

Listen ==
    /\ apc = "wait" /\ ~listening
    /\ listening' = TRUE
    /\ UNCHANGED <<dummy, apc, backlog, open, others, zero, peers, historyVars, addrVars>>

BindOrListenFails ==
    /\ "EADDRINUSE" \in Errors
    /\ apc = "new" \/ (apc = "wait" /\ ~listening)
    /\ aborted' = "EADDRINUSE" /\ apc' = "dead"
    /\ UNCHANGED <<listening, dummy, backlog, open, others, zero, peers, refused, mishaps, bad, addrVars>>

(* The listening socket is readable: HandleRead copies local_addr_. *)
HandleRead ==
    /\ apc = "wait" /\ listening /\ backlog > 0
    /\ apc' = "accept"
    /\ sharing' = {}
    /\ UNCHANGED <<listening, dummy, backlog, open, others, zero, peers, historyVars, localAddr, cb,
                   peerAddr>>

(* Accept gives a connection and writes its address into the Address.  cb_   *)
(* is called with both, or the connection is closed when there is no cb_;    *)
(* but descriptor 0 ends the loop before either.                             *)
AcceptNew ==
    /\ apc = "accept" /\ ~Full /\ backlog > 0
    /\ backlog' = backlog - 1
    /\ LET p == peers - backlog + 1
           addr == AcceptAddr(PeerAddr(p, localAddr.family), localAddr)
           handed == zero # "free" /\ cb
       IN  /\ sharing' = IF handed THEN sharing \cup {p} ELSE sharing
           /\ open' = IF handed THEN open + 1 ELSE open
           /\ peerAddr' = [c \in sharing' \cup DOMAIN peerAddr |->
                            IF c \in sharing' THEN addr ELSE peerAddr[c]]
    /\ refused' = IF zero # "free" /\ ~cb THEN refused + 1 ELSE refused
    /\ IF zero = "free" THEN zero' = "stray" /\ apc' = "wait" ELSE UNCHANGED <<zero, apc>>
    /\ UNCHANGED <<listening, dummy, others, peers, mishaps, bad, aborted, localAddr, cb>>

(* EAGAIN *)
AcceptNone ==
    /\ apc = "accept" /\ ~Full /\ backlog = 0
    /\ apc' = "wait"
    /\ UNCHANGED <<listening, dummy, backlog, open, others, zero, peers, historyVars, addrVars>>

(* EMFILE: dummy_fd_ is closed. *)
AcceptFull ==
    /\ apc = "accept" /\ Full
    /\ DummyCloses
    /\ apc' = "given"
    /\ UNCHANGED <<listening, backlog, open, others, peers, historyVars, addrVars>>

(* Mutant: the connection stays where it is. *)
AcceptInPlaceNot ==
    /\ apc = "given"
    /\ apc' = "taken"
    /\ UNCHANGED <<listening, dummy, backlog, open, others, zero, peers, historyVars, addrVars>>

(* accept() in the place of dummy_fd_, which fails when nothing waits or the *)
(* descriptor is gone.                                                       *)
AcceptInPlace ==
    /\ apc = "given"
    /\ apc' = "taken"
    /\ IF backlog > 0 /\ ~Full
         THEN DummyOpens("socket") /\ backlog' = backlog - 1
         ELSE UNCHANGED <<dummy, zero, backlog>>
    /\ UNCHANGED <<listening, open, others, peers, historyVars, addrVars>>

(* Mutant: the connection is kept in dummy_fd_. *)
RefuseNot ==
    /\ apc = "taken"
    /\ apc' = IF dummy = "socket" THEN "accept" ELSE "reopen"
    /\ UNCHANGED <<listening, dummy, backlog, open, others, zero, peers, historyVars, addrVars>>

(* Mutant: dummy_fd_ is not closed before it is opened again. *)
RefuseKept ==
    /\ apc = "taken"
    /\ refused' = IF dummy = "socket" THEN refused + 1 ELSE refused
    /\ apc' = "reopen"
    /\ UNCHANGED <<listening, dummy, backlog, open, others, zero, peers, mishaps, bad, aborted,
                   addrVars>>

(* The connection is closed. *)
Refuse ==
    /\ apc = "taken"
    /\ DummyCloses
    /\ refused' = IF dummy = "socket" THEN refused + 1 ELSE refused
    /\ apc' = "reopen"
    /\ UNCHANGED <<listening, backlog, open, others, peers, mishaps, bad, aborted, addrVars>>

(* OpenIdleFile, which ends the process when it fails. *)
OpenIdleFile ==
    /\ apc = "reopen"
    /\ IF Full
         THEN aborted' = "open" /\ apc' = "dead" /\ UNCHANGED <<dummy, zero>>
         ELSE DummyOpens("idle") /\ apc' = "accept" /\ UNCHANGED aborted
    /\ UNCHANGED <<listening, backlog, open, others, peers, refused, mishaps, bad, addrVars>>

(* Another error: LOG_FATAL in Accept, or HandleRead goes on to cb_, or to   *)
(* close what is not a descriptor.                                           *)
AcceptError(e) ==
    /\ apc = "accept" /\ e # "EADDRINUSE" /\ ~Full
    /\ IF e \in AcceptPasses
         THEN bad' = (bad \/ cb) /\ UNCHANGED <<aborted, apc>>
         ELSE aborted' = e /\ apc' = "dead" /\ UNCHANGED bad
    /\ mishaps' = mishaps \cup {e}
    /\ UNCHANGED <<listening, dummy, backlog, open, others, zero, peers, refused, addrVars>>

(* ~Acceptor, in the loop. *)
Destroy ==
    /\ apc = "wait"
    /\ apc' = "dead" /\ DummyCloses /\ listening' = FALSE
    /\ UNCHANGED <<backlog, open, others, peers, historyVars, addrVars>>

-----------------------------------------------------------------------------
(* Peers, and the rest of the process. *)

PeerConnects ==
    /\ listening /\ peers < MaxPeers
    /\ peers' = peers + 1 /\ backlog' = backlog + 1
    /\ UNCHANGED <<listening, dummy, apc, open, others, zero, historyVars, addrVars>>

OthersOpen ==
    /\ ~Full /\ others < MaxOthers
    /\ IF zero = "free" THEN zero' = "process" /\ UNCHANGED others
                        ELSE others' = others + 1 /\ UNCHANGED zero
    /\ mishaps' = IF dummy = "closed" /\ apc # "dead" THEN mishaps \cup {"stolen"} ELSE mishaps
    /\ UNCHANGED <<listening, dummy, apc, backlog, open, peers, refused, bad, aborted, addrVars>>

Closes ==
    /\ Release \/ apc = "wait"
    /\ \/ open > 0 /\ open' = open - 1 /\ UNCHANGED <<others, zero>>
       \/ others > 0 /\ others' = others - 1 /\ UNCHANGED <<open, zero>>
       \/ zero = "process" /\ zero' = "free" /\ UNCHANGED <<open, others>>
    /\ UNCHANGED <<listening, dummy, apc, backlog, peers, historyVars, addrVars>>

HandlerStep == \/ HandleRead \/ AcceptNew \/ AcceptNone \/ AcceptFull \/ AcceptInPlace
               \/ Refuse \/ OpenIdleFile

AcceptorNext == \/ Bind \/ Listen \/ BindOrListenFails \/ HandlerStep \/ Destroy
                \/ \E e \in Errors : AcceptError(e)
                \/ PeerConnects \/ OthersOpen \/ Closes

AcceptorSpec == AcceptorInit /\ [][AcceptorNext]_acceptorVars

(* The loop runs, and a descriptor that is closed again and again is free    *)
(* when Accept asks for one.                                                 *)
AcceptorFairSpec == /\ AcceptorSpec /\ WF_acceptorVars(HandlerStep)
                    /\ SF_acceptorVars(AcceptNew) /\ SF_acceptorVars(AcceptNone)

-----------------------------------------------------------------------------
(* Properties. *)

(* A descriptor is held in reserve whenever Accept is called, so that EMFILE *)
(* can always be dealt with (acceptor.cc:101-107).                           *)
ReserveHeld == apc \in {"wait", "accept"} => dummy = "idle"

(* cb_ is never called with a descriptor that is not open, unless accept()   *)
(* fails with an error that HandleRead does not look at.                     *)
CallbackGetsSocket == mishaps \subseteq {"stolen", "ENFILE"} => ~bad

(* Every connection that left the backlog was handed to cb_ or closed, once, *)
(* and none is lost in dummy_fd_ at the limit of descriptors                 *)
(* (acceptor.cc:99-108); except one that accept() gives descriptor 0, which  *)
(* ends the loop (acceptor.cc:82) and is kept by nobody.                     *)
NoneLost == peers = backlog + Cardinality(DOMAIN peerAddr) + refused
                    + (IF dummy = "socket" THEN 1 ELSE 0) + (IF zero = "stray" THEN 1 ELSE 0)

(* No connection is left open with nobody to close it.                       *)
NoneStray == zero # "stray"

(* GetPeerAddress of a connection (tcp_connection.h:100) is the address of   *)
(* its peer.                                                                 *)
PeerAddressRight == \A c \in DOMAIN peerAddr : peerAddr[c] = PeerAddr(c, localAddr.family)

(* The process does not end for want of descriptors, unless another thread   *)
(* takes the one that HandleRead gave up, or the system has none left.       *)
NotAborted == mishaps \cap {"stolen", "ENFILE"} = {} => aborted \in {"no", "EADDRINUSE"}

(* A peer that connects is accepted or refused in the end, at the limit of   *)
(* descriptors too, unless other threads take the one HandleRead gives up.   *)
Served == backlog > 0 ~> (backlog = 0 \/ apc = "dead" \/ "stolen" \in mishaps)

(* acceptor.cc:89-92, "it still keep the listening socket fd readable, which *)
(* will cause our eventloop to busy wait.  The graceful solution is ...":    *)
(* HandleRead returns at the limit, so that the loop goes on.                *)
HandlerReturns == apc = "accept" ~> apc \in {"wait", "dead"}

(* socket_ops.cc:183, "Here we allow ENFILE and EMFILE error to pass to      *)
(* guide the upper users to cope with it further."                           *)
EnfilePasses == aborted # "ENFILE"
=============================================================================
