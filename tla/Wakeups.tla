------------------------------ MODULE Wakeups -------------------------------
(***************************************************************************)
(* What EpollEventLoop promises those who register callbacks with it, with *)
(* no batch, no context pointers and no file descriptors.  A callback runs *)
(* only if its event is registered and was signalled, one at a time.  The  *)
(* signals of a counted event (an EpollEvent) up to a call are answered by *)
(* that call, those during it by another one; any other event is signalled *)
(* until its callback has drained it.  Once its event is deregistered no   *)
(* callback begins, except that an uncounted one which another thread      *)
(* deregisters when its call was due may still be called, once (late).  The *)
(* process is only at risk if somebody else than its own callback has      *)
(* deregistered an event.                                                  *)
(*                                                                         *)
(* Module EventLoop implements it (ImplementsWakeups).                     *)
(***************************************************************************)
CONSTANTS
  Event,
  Counted,      \* the events that a call resets
  None,         \* "no callback runs"
  MayRetire     \* who deregisters each event: "own", "callback" or "thread"

VARIABLES
  life,         \* per event: "new", "live" (registered) or "freed"
  signalled,    \* registered events that want a call
  late,         \* deregistered events whose call is still to come
  running,      \* the event whose callback runs
  over          \* has the loop ended, or crashed?

wvars == <<life, signalled, late, running, over>>

Init ==
  /\ life = [e \in Event |-> "new"]
  /\ signalled = {} /\ late = {}
  /\ running = None
  /\ over = FALSE

Register(e) ==
  /\ life[e] = "new"
  /\ running = None /\ ~over
  /\ life' = [life EXCEPT ![e] = "live"]
  /\ UNCHANGED <<signalled, late, running, over>>

Signal(e) ==
  /\ life[e] = "live"
  /\ signalled' = signalled \cup {e}
  /\ UNCHANGED <<life, late, running, over>>

Call(e) ==
  /\ running = None /\ ~over
  /\ life[e] = "live" /\ e \in signalled
  /\ running' = e
  /\ signalled' = IF e \in Counted THEN signalled \ {e} ELSE signalled
  /\ UNCHANGED <<life, late, over>>

CallLate(e) ==
  /\ running = None /\ ~over
  /\ e \in late
  /\ running' = e
  /\ late' = late \ {e}
  /\ UNCHANGED <<life, signalled, over>>

\* The callback of an event that is not counted has taken what there was.
Drain ==
  /\ running \in Event \ Counted
  /\ signalled' = signalled \ {running}
  /\ UNCHANGED <<life, late, running, over>>

Return ==
  /\ running # None
  /\ running' = None
  /\ UNCHANGED <<life, signalled, late, over>>

Deregister(e) ==
  /\ life[e] = "live"
  /\ MayRetire[e] = "own" => running = e
  /\ MayRetire[e] = "callback" => running # None
  /\ life' = [life EXCEPT ![e] = "freed"]
  /\ signalled' = signalled \ {e}
  /\ \/ UNCHANGED late
     \/ /\ MayRetire[e] = "thread" /\ e \notin Counted /\ running # e
        /\ late' = late \cup {e}
  /\ UNCHANGED <<running, over>>

\* epoll_wait is interrupted, between two calls.
GiveUp ==
  /\ running = None /\ ~over
  /\ over' = TRUE
  /\ UNCHANGED <<life, signalled, late, running>>

Crash ==
  /\ \E e \in Event : life[e] = "freed" /\ MayRetire[e] # "own"
  /\ over' = TRUE /\ running' = None
  /\ late' \subseteq late
  /\ UNCHANGED <<life, signalled>>

Next ==
  \/ \E e \in Event : Register(e) \/ Signal(e) \/ Call(e) \/ CallLate(e) \/ Deregister(e)
  \/ Drain \/ Return \/ GiveUp \/ Crash

Spec == Init /\ [][Next]_wvars
=============================================================================
