----------------------------- MODULE EventLoop -----------------------------
(***************************************************************************)
(* EpollEventLoop and EpollEvent of odrive_base: one thread waits in       *)
(* epoll_wait, copies the triggered events into a batch and calls the      *)
(* handler of each; any thread may set() an event, and deregister_event()  *)
(* frees an event's context while its entry may still be in the batch.     *)
(*                                                                         *)
(* An eventfd counter matters only as zero or not zero (a read resets it), *)
(* so readiness is the set "ready".  The kernel orders a batch as it       *)
(* likes, so the undispatched part of triggered_events_ is a set as well.  *)
(*                                                                         *)
(* The operators below are also the pieces ODriveCanNode is built from.    *)
(***************************************************************************)
EXTENDS Naturals, FiniteSets

CONSTANTS
  Event,                    \* contexts, one per registered descriptor
  EventFd,                  \* those of them that belong to an EpollEvent
  NoEvent,                  \* "no handler loaded"
  kMaxEventsPerIteration,   \* size of triggered_events_
  Discipline                \* who deregisters each event: "own": its own callback only,
                            \*   "callback": any callback, "thread": any thread

\* Batches are never truncated: both programs register fewer events than fit.
ASSUME EventAssumption ==
  /\ IsFiniteSet(Event)
  /\ EventFd \subseteq Event
  /\ NoEvent \notin Event
  /\ kMaxEventsPerIteration \in Nat
  /\ Cardinality(Event) <= kMaxEventsPerIteration
  /\ Discipline \in [Event -> {"own", "callback", "thread"}]

VARIABLES
  ctx,        \* life of each EventContext: "new", "live" (registered), "freed"
  ready,      \* descriptors with something to read
  triggered,  \* entries of the batch not dispatched yet
  nulled,     \* those whose pointer drop_event has cleared
  handler,    \* the context pointer the loop has loaded
  loop,       \* "init", "idle", "fetched", "callback", "returned", "crashed"
  n_events_

evars == <<ctx, ready, triggered, nulled, handler, loop, n_events_>>

Types ==
  /\ ctx \in [Event -> {"new", "live", "freed"}]
  /\ ready \subseteq Event
  /\ triggered \subseteq Event
  /\ nulled \subseteq Event
  /\ handler \in Event \cup {NoEvent}
  /\ loop \in {"init", "idle", "fetched", "callback", "returned", "crashed"}
  /\ n_events_ \in Nat

\* n_events_ counts registrations.
TypeOK == Types /\ n_events_ <= Cardinality(Event)

Init ==
  /\ ctx = [e \in Event |-> "new"]
  /\ ready = {}
  /\ triggered = {}
  /\ nulled = {}
  /\ handler = NoEvent
  /\ loop = "init"
  /\ n_events_ = 0

-----------------------------------------------------------------------------
(* Registration.  deregister_event does not decrement n_events_.           *)

\* Mutant: every registration is counted twice.
register_event_twice(e) ==
  /\ ctx[e] = "new"
  /\ ctx' = [ctx EXCEPT ![e] = "live"]
  /\ n_events_' = n_events_ + 2
  /\ UNCHANGED <<ready, triggered, nulled, handler, loop>>

\* Mutant: the registration is not counted.
register_event_uncounted(e) ==
  /\ ctx[e] = "new"
  /\ ctx' = [ctx EXCEPT ![e] = "live"]
  /\ UNCHANGED <<ready, triggered, nulled, handler, loop, n_events_>>

register_event(e) ==
  /\ ctx[e] = "new"
  /\ ctx' = [ctx EXCEPT ![e] = "live"]
  /\ n_events_' = n_events_ + 1
  /\ UNCHANGED <<ready, triggered, nulled, handler, loop>>

\* Mutant: the entry of the context being freed is left alone.
drop_event_nothing(e) == e \in Event /\ nulled' = nulled

drop_event(e) == nulled' = nulled \cup ({e} \cap triggered)

deregister_event(e) ==
  /\ ctx[e] = "live"
  /\ ctx' = [ctx EXCEPT ![e] = "freed"]
  /\ drop_event(e)
  /\ UNCHANGED <<ready, triggered, handler, loop, n_events_>>

\* From another thread: triggered_events_ and n_triggered_events_ are read
\* without synchronisation, so drop_event may also miss the entry.
deregister_event_racing(e) ==
  \/ deregister_event(e)
  \/ /\ ctx[e] = "live"
     /\ ctx' = [ctx EXCEPT ![e] = "freed"]
     /\ UNCHANGED <<ready, triggered, nulled, handler, loop, n_events_>>

\* From another thread, of a context that is freed already: what it holds is read,
\* and the memory may be freed twice.
deregister_event_again(e) ==
  /\ ctx[e] = "freed"
  /\ loop' \in {loop, "crashed"}
  /\ UNCHANGED <<ctx, ready, triggered, nulled, handler, n_events_>>

\* EpollEvent::set, from any thread.  On a closed descriptor the write fails.
set(e) ==
  /\ ready' = IF ctx[e] = "live" THEN ready \cup {e} ELSE ready
  /\ UNCHANGED <<ctx, triggered, nulled, handler, loop, n_events_>>

-----------------------------------------------------------------------------
(* The loop thread, run_until_empty.                                       *)

Ready == {e \in ready : ctx[e] = "live"}

\* Mutant: the batch is reused: descriptors are reported whether or not they
\* are readable now.
epoll_wait_spurious ==
  /\ loop = "idle" /\ triggered = {} /\ n_events_ # 0
  /\ triggered' = {e \in Event : ctx[e] = "live"}
  /\ nulled' = {}
  /\ UNCHANGED <<ctx, ready, handler, loop, n_events_>>

epoll_wait ==
  /\ loop = "idle" /\ triggered = {} /\ n_events_ # 0
  /\ Ready # {}
  /\ triggered' = Ready
  /\ nulled' = {}
  /\ UNCHANGED <<ctx, ready, handler, loop, n_events_>>

\* epoll_wait returns -1 (EINTR): run_until_empty gives up.  It also returns
\* when n_events_ is 0, which only happens if nothing was ever registered.
loop_returns ==
  /\ loop = "idle" /\ triggered = {}
  /\ loop' = "returned"
  /\ UNCHANGED <<ctx, ready, triggered, nulled, handler, n_events_>>

\* Mutant: the entry is not consumed, it is loaded again in the next iteration.
fetch_again(e) ==
  /\ loop = "idle" /\ e \in triggered
  /\ IF e \in nulled
     THEN loop' = "crashed" /\ UNCHANGED handler
     ELSE loop' = "fetched" /\ handler' = e
  /\ UNCHANGED <<ctx, ready, triggered, nulled, n_events_>>

\* Load the handler of the next entry; a cleared pointer is dereferenced.
fetch(e) ==
  /\ loop = "idle" /\ e \in triggered
  /\ triggered' = triggered \ {e}
  /\ IF e \in nulled
     THEN loop' = "crashed" /\ UNCHANGED handler
     ELSE loop' = "fetched" /\ handler' = e
  /\ UNCHANGED <<ctx, ready, nulled, n_events_>>

\* The call finds its context alive: the event is readable, and an EpollEvent
\* reads its eventfd first (on_trigger); that read would block if it were not.
invoke_live ==
  /\ ctx[handler] = "live" /\ handler \in ready
  /\ ready' = IF handler \in EventFd THEN ready \ {handler} ELSE ready
  /\ loop' = "callback"
  /\ UNCHANGED handler

\* Mutant: on_trigger calls callback_ also if it could not read the eventfd.
invoke_read_unchecked ==
  /\ loop = "fetched"
  /\ \/ invoke_live
     \/ /\ ctx[handler] # "live"
        /\ loop' \in {"crashed", "callback"}
        /\ UNCHANGED <<ready, handler>>
  /\ UNCHANGED <<ctx, triggered, nulled, n_events_>>

\* handler->callback.  If another thread has freed the context in the meantime the
\* call goes through freed memory: it crashes, or it still works, and then on_trigger
\* returns because its read on the closed eventfd fails, while a callback that does
\* not go through on_trigger (the socket's) runs.  (An eventfd read before the close
\* is the other order of the two: the call, then the deregistration.)
invoke ==
  /\ loop = "fetched"
  /\ \/ invoke_live
     \/ /\ ctx[handler] # "live" /\ UNCHANGED ready
        /\ \/ loop' = "crashed" /\ UNCHANGED handler
           \/ handler \in EventFd /\ loop' = "idle" /\ handler' = NoEvent
           \/ handler \notin EventFd /\ loop' = "callback" /\ UNCHANGED handler
  /\ UNCHANGED <<ctx, triggered, nulled, n_events_>>

callback_returns ==
  /\ loop = "callback"
  /\ loop' = "idle"
  /\ handler' = NoEvent
  /\ UNCHANGED <<ctx, ready, triggered, nulled, n_events_>>

-----------------------------------------------------------------------------
(* Clients.  Events are registered before the thread starts (main.cpp).    *)

start_thread ==
  /\ loop = "init"
  /\ loop' = "idle"
  /\ UNCHANGED <<ctx, ready, triggered, nulled, handler, n_events_>>

Register == loop = "init" /\ \E e \in Event : register_event(e)

Signal == loop # "crashed" /\ \E e \in Event : ctx[e] = "live" /\ set(e)

\* A descriptor that is no eventfd (a socket) is drained by its own callback.
DrainSocket ==
  /\ loop = "callback" /\ handler \notin EventFd
  /\ ready' = ready \ {handler}
  /\ UNCHANGED <<ctx, triggered, nulled, handler, loop, n_events_>>

DeregisterOwn == loop = "callback" /\ deregister_event(handler)

DeregisterAny ==
  /\ loop = "callback"
  /\ \E e \in Event : Discipline[e] # "own" /\ deregister_event(e)

DeregisterRacing ==
  /\ loop # "crashed"
  /\ \E e \in Event :
       /\ Discipline[e] = "thread"
       /\ deregister_event_racing(e) \/ deregister_event_again(e)

Loop ==
  \/ epoll_wait
  \/ \E e \in Event : fetch(e)
  \/ invoke
  \/ callback_returns

\* A process that has crashed, or whose loop thread has returned, may stop;
\* the thread also waits for ever in epoll_wait once nothing becomes ready.
Stopped ==
  /\ \/ loop \in {"crashed", "returned"}
     \/ loop = "idle" /\ triggered = {} /\ Ready = {}
  /\ UNCHANGED evars

Next ==
  \/ Register
  \/ start_thread
  \/ Signal
  \/ DrainSocket
  \/ DeregisterOwn
  \/ DeregisterAny
  \/ DeregisterRacing
  \/ Loop
  \/ loop_returns
  \/ Stopped

Spec == Init /\ [][Next]_evars

\* The loop thread is scheduled and callbacks return.
FairSpec == Spec /\ WF_evars(Loop)

-----------------------------------------------------------------------------
(* What the loop promises (module Wakeups): batch, pointers and descriptors *)
(* are hidden.                                                             *)

\* Contexts freed by another thread whose call is still to come.
CalledLate ==
  {e \in Event \ EventFd : /\ ctx[e] = "freed"
                           /\ e \in triggered \ nulled \/ (loop = "fetched" /\ handler = e)}

Promise == INSTANCE Wakeups WITH
  Counted <- EventFd, None <- NoEvent, MayRetire <- Discipline,
  life <- ctx, signalled <- Ready, late <- CalledLate,
  running <- IF loop = "callback" THEN handler ELSE NoEvent,
  over <- loop \in {"returned", "crashed"}

-----------------------------------------------------------------------------
(* Properties                                                              *)

\* The eventfd is created blocking (flags 0), so on_trigger must only read it
\* when it is readable: otherwise the loop thread, and with it every other
\* event of the program, is stuck in the handler of this one.  Holds whatever
\* the clients do, because only this thread ever reads an eventfd.
ReadNeverBlocks ==
  loop = "fetched" /\ ctx[handler] = "live" => handler \in ready

\* The loop dereferences only contexts that are alive.  A context that callbacks
\* alone deregister is never called once it is freed, because drop_event clears
\* every pointer to it, whatever other threads do to the other events.  But
\* run_until_empty has no null check, so the loop only never crashes if each
\* event is deregistered by nobody but its own callback.
SafeDispatch ==
  /\ loop = "fetched" /\ Discipline[handler] # "thread" => ctx[handler] = "live"
  /\ loop = "crashed" => \E e \in Event : Discipline[e] # "own" /\ ctx[e] = "freed"

\* No wakeup is lost: an eventfd that is set is dispatched (which resets it)
\* unless it is deregistered first or the thread has ended.  n_events_ must
\* stay positive and the batch must drain for this.
NoLostWakeup ==
  \A e \in EventFd :
    (loop # "init" /\ e \in ready /\ ctx[e] = "live")
      ~> (e \notin ready \/ ctx[e] # "live" \/ loop \in {"returned", "crashed"})

\* Through the batch, whose entries outlive what was true when epoll_wait filled
\* it: a callback runs only for an event that is registered and signalled at that
\* moment, and each call answers the signals up to it, no more and no less, however
\* set, deregister_event and the loop interleave.  The one exception is a socket that
\* another thread deregisters while its entry waits: it is called late, once.
ImplementsWakeups == Promise!Spec

-----------------------------------------------------------------------------
(* Strengthening used by the proofs in EventLoop_proofs.                   *)

\* What has been fetched or is about to be is still readable, if registered; what
\* was never registered is not.
BatchReadable ==
  /\ loop = "init" => triggered = {}
  /\ \A e \in ready : ctx[e] # "new"
  /\ \A e \in triggered : ctx[e] = "live" => e \in ready
  /\ loop = "fetched" => handler \in Event /\ (ctx[handler] = "live" => handler \in ready)
  /\ loop = "fetched" => handler \notin triggered
  /\ loop = "callback" => handler \in Event \ triggered

\* An undispatched entry points to a live context unless another thread may have
\* freed it; a cleared one was freed by somebody else's callback or thread.
BatchLive ==
  /\ \A e \in triggered \ nulled : Discipline[e] # "thread" => ctx[e] = "live"
  /\ \A e \in triggered : ctx[e] # "new"
  /\ \A e \in triggered \cap nulled : Discipline[e] # "own" /\ ctx[e] = "freed"
  /\ loop = "fetched" => ctx[handler] # "new"
  /\ SafeDispatch

\* Nothing is ever subtracted from n_events_.
EventsCounted == n_events_ = Cardinality({e \in Event : ctx[e] # "new"})

IInv == TypeOK /\ BatchReadable /\ BatchLive /\ EventsCounted
=============================================================================
