------------------------------- MODULE Orders -------------------------------
(***************************************************************************)
(* What the plugin promises the controller manager of its drives, with no  *)
(* flags, lifecycle, setpoints or queues: for each axis something is       *)
(* wanted, idle or a mode, and when that is asked for anew, orders are     *)
(* given.  A drive changes only by a fault, or by obeying an order that is *)
(* out, one at a time; some of the orders for what is wanted may be lost,  *)
(* but if none was, the drive does what is wanted once no order is out.    *)
(*                                                                         *)
(* Module HardwareInterface implements it (ImplementsOrders).              *)
(***************************************************************************)
CONSTANTS
  Axis,
  Mode,        \* the modes a drive can run in
  Reliable     \* is no order ever lost?

VARIABLES
  wanted,      \* per axis, "idle" or a mode
  certain,     \* per axis, were all orders for it given, when it was last asked for?
  orders,      \* per axis, the orders that are out: "idle", "clear", "closed_loop", a mode
  mode,        \* per drive, its mode
  running,     \* per drive, does it run?
  faulted      \* per drive, does an error hold it?

ovars == <<wanted, certain, orders, mode, running, faulted>>

OrdersFor(want) == IF want = "idle" THEN {"idle"} ELSE {want, "clear", "closed_loop"}

\* The drive does what is wanted: it runs exactly then, and in that mode, unless
\* an error holds it.
Agrees(a) ==
  /\ running[a] => wanted[a] # "idle" /\ mode[a] = wanted[a]
  /\ wanted[a] # "idle" /\ ~running[a] => faulted[a]

Init ==
  /\ wanted = [a \in Axis |-> "idle"]
  /\ certain = [a \in Axis |-> FALSE]
  /\ orders = [a \in Axis |-> {}]
  /\ mode \in [Axis -> Mode]
  /\ running \in [Axis -> BOOLEAN]
  /\ faulted \in [Axis -> BOOLEAN]

\* Something is wanted, anew or still, of the drives in axes.
Want(axes) ==
  /\ wanted' \in [Axis -> Mode \cup {"idle"}]
  /\ certain' \in [Axis -> BOOLEAN]
  /\ orders' \in [Axis -> SUBSET (Mode \cup {"idle", "clear", "closed_loop"})]
  /\ \A a \in axes :
       LET new == OrdersFor(wanted'[a])
       IN  /\ orders[a] \subseteq orders'[a] /\ orders'[a] \subseteq orders[a] \cup new
           /\ certain'[a] => new \subseteq orders'[a]
           /\ Reliable => certain'[a]
  /\ \A a \in Axis \ axes :
       wanted'[a] = wanted[a] /\ certain'[a] = certain[a] /\ orders'[a] = orders[a]
  /\ UNCHANGED <<mode, running, faulted>>

\* A drive obeys one order: it takes the mode, forgets its error, stops, or runs
\* unless an error holds it.  The order may have been given twice.
Obey(a) ==
  /\ \E order \in orders[a] :
       /\ mode' = IF order \in Mode THEN [mode EXCEPT ![a] = order] ELSE mode
       /\ faulted' = IF order = "clear" THEN [faulted EXCEPT ![a] = FALSE] ELSE faulted
       /\ running' = IF order \in {"idle", "closed_loop"}
                     THEN [running EXCEPT ![a] = order = "closed_loop" /\ ~faulted[a]]
                     ELSE running
       /\ orders' \in {orders, [orders EXCEPT ![a] = @ \ {order}]}
  /\ UNCHANGED <<wanted, certain>>
  /\ certain[a] /\ orders'[a] = {} => Agrees(a)'

Fault(a) ==
  /\ faulted' = [faulted EXCEPT ![a] = TRUE]
  /\ running' = [running EXCEPT ![a] = FALSE]
  /\ UNCHANGED <<wanted, certain, orders, mode>>

Next ==
  \/ \E axes \in SUBSET Axis : Want(axes)
  \/ \E a \in Axis : Obey(a) \/ Fault(a)

Spec == Init /\ [][Next]_ovars
=============================================================================
