----------------------------- MODULE MCEventLoop ----------------------------
(* Three eventfds and the CAN socket.  One eventfd is deregistered by its  *)
(* own callback only, one by any callback, one by any thread, and so is    *)
(* the socket.                                                             *)
EXTENDS EventLoop

CONSTANTS sub, srv, lim, can

MCEvent == {sub, srv, lim, can}
MCEventFd == {sub, srv, lim}
MCDiscipline == [e \in MCEvent |-> CASE e = srv -> "callback"
                                     [] e \in {lim, can} -> "thread"
                                     [] OTHER -> "own"]
=============================================================================
