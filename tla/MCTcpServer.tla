----------------------------- MODULE MCTcpServer -----------------------------
(* TcpServer for TLC: the values of the constants are in TcpServer.cfg. *)
EXTENDS TcpServer

(* GetLoopForHash only gives loops of GetAllLoops, and so many hash codes as *)
(* there are loops, one after the other, give each of them once.             *)
ASSUME HashSpreads ==
    \A n \in 0..3 : \A hashcode \in 0..7 :
        LET loops == [k \in 1..n |-> k]
            all == GetAllLoops(loops, 0)
        IN \A k \in 1..Len(all) : Cardinality({h \in hashcode..(hashcode + Len(all) - 1) :
                GetLoopForHash(loops, 0, h) = all[k]}) = 1
=============================================================================
