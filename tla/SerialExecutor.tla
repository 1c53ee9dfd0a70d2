--------------------------- MODULE SerialExecutor ---------------------------
(***************************************************************************)
(* What an event loop promises to those who hand it functors: a functor is *)
(* accepted at most once, and the accepted functors are completed one at a *)
(* time, each at most once, in the order in which they were accepted.      *)
(* EventLoop implements this specification.                                *)
(***************************************************************************)
EXTENDS Naturals, Sequences

CONSTANT Tasks

VARIABLES submitted,    \* the functors accepted so far, in order
          completed     \* the functors that have run, in order

vars == <<submitted, completed>>

Accepted(t) == \E i \in 1..Len(submitted) : submitted[i] = t

Init == submitted = <<>> /\ completed = <<>>

Submit(t) == /\ ~Accepted(t)
             /\ submitted' = Append(submitted, t)
             /\ UNCHANGED completed

Complete == /\ Len(completed) < Len(submitted)
            /\ completed' = Append(completed, submitted[Len(completed) + 1])
            /\ UNCHANGED submitted

Next == (\E t \in Tasks : Submit(t)) \/ Complete

Spec == Init /\ [][Next]_vars
=============================================================================
