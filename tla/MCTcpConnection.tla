--------------------------- MODULE MCTcpConnection ---------------------------
EXTENDS TcpConnection

(* Users that close; that stop reading when the output buffer is full, start *)
(* again later and Send from another channel's handler; that close from      *)
(* there or from a timer; and that Send in high_water_callback_.             *)
MCUsers == {[calls |-> {"shutDown", "forceClose"}, other |-> {}, high |-> {}],
            [calls |-> {"startRead"}, other |-> {"send", "startRead"}, high |-> {"stopRead"}],
            [calls |-> {}, other |-> {"forceClose"}, high |-> {}],
            [calls |-> {}, other |-> {}, high |-> {"send", "shutDown"}]}
=============================================================================
