------------------------------ MODULE Requests ------------------------------
(***************************************************************************)
(* What odrive_can_node promises its ROS clients, whatever its threads,    *)
(* events and locks do.  Clients ask, topic by topic, and their requests   *)
(* are numbered.  For each kind of CAN frame the bus carries the frame of  *)
(* the last request done: requests may be merged, a later one standing for *)
(* those before it, but none is done before it is asked or undone.  One    *)
(* kind is answered: a service call returns.  At shutdown it is withdrawn. *)
(*                                                                         *)
(* Module ODriveCanNode implements it (ImplementsRequests).                *)
(***************************************************************************)
EXTENDS Naturals

CONSTANTS
  Topic,      \* what clients ask for
  Kind,       \* kinds of frames
  serves,     \* the topic each kind belongs to
  Answered,   \* the kind whose requests are answered
  Fresh       \* is an answer given only when its request is done, and nothing
              \*   asked before a withdrawal done after it?

VARIABLES
  asked,      \* per topic, the last request
  done,       \* per kind, the last request done
  answered,   \* the last request answered
  closing,    \* has the shutdown begun?
  over        \* has anything ended the promise that requests get done?

avars == <<asked, done, answered, closing, over>>

Init ==
  /\ asked = [t \in Topic |-> 0]
  /\ done = [k \in Kind |-> 0]
  /\ answered = 0
  /\ closing = FALSE /\ over = FALSE

Ask(t) ==
  /\ ~closing
  /\ asked' = [asked EXCEPT ![t] = @ + 1]
  /\ UNCHANGED <<done, answered, closing, over>>

\* The last request is done, or an earlier one is that is newer than what was.
Do(k) ==
  /\ Fresh /\ k = Answered => ~closing
  /\ \E n \in done[k] .. asked[serves[k]] : done' = [done EXCEPT ![k] = n]
  /\ UNCHANGED <<asked, answered, closing, over>>

Answer ==
  /\ ~closing
  /\ answered' = asked[serves[Answered]]
  /\ Fresh => done[Answered] = answered'
  /\ UNCHANGED <<asked, done, closing, over>>

Shutdown ==
  /\ ~closing
  /\ closing' = TRUE /\ over' = TRUE
  /\ done' \in {done, [done EXCEPT ![Answered] = 0]}
  /\ UNCHANGED <<asked, answered>>

Fail ==
  /\ over' = TRUE
  /\ UNCHANGED <<asked, done, answered, closing>>

Next ==
  \/ \E t \in Topic : Ask(t)
  \/ \E k \in Kind : Do(k)
  \/ Answer \/ Shutdown \/ Fail

SafeSpec == Init /\ [][Next]_avars

\* Clients that pause find all their requests of these kinds done, each by itself
\* or by a later one, unless the node has gone down.
CarriedOut(Certain) ==
  []<>(over \/ \A k \in Certain : done[k] = asked[serves[k]])
=============================================================================
