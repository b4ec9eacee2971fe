-------------------------- MODULE EventLoop_proofs --------------------------
(***************************************************************************)
(* Proofs about EventLoop, for any finite set of events.                   *)
(***************************************************************************)
EXTENDS EventLoop, FiniteSetTheorems, TLAPS

\* Registering an event adds it to the counted ones; no other step changes them.
LEMMA CountRegistered ==
  ASSUME IInv, NEW e \in Event, register_event(e)
  PROVE  /\ n_events_' \in Nat /\ n_events_' <= Cardinality(Event)
         /\ EventsCounted'
<1> DEFINE Old == {x \in Event : ctx[x] # "new"}
           New == {x \in Event : ctx'[x] # "new"}
<1>1. e \notin Old
  BY DEF register_event
<1>2. New = Old \cup {e}
  BY DEF register_event, IInv, TypeOK, Types
<1>3. IsFiniteSet(Old) /\ IsFiniteSet(New) /\ Cardinality(New) <= Cardinality(Event)
  BY EventAssumption, FS_Subset
<1>4. Cardinality(New) = Cardinality(Old) + 1
  <2> HIDE DEF Old, New
  <2> QED BY <1>1, <1>2, <1>3, FS_AddElement
<1>5. n_events_ = Cardinality(Old) /\ n_events_' = n_events_ + 1
  BY DEF register_event, IInv, EventsCounted
<1>6. n_events_' = Cardinality(New)
  BY <1>4, <1>5
<1>7. Cardinality(New) \in Nat /\ Cardinality(Event) \in Nat
  <2> HIDE DEF New
  <2> QED BY <1>3, EventAssumption, FS_CardinalityType
<1> QED
  <2>1. EventsCounted'
    BY <1>6 DEF EventsCounted
  <2>2. n_events_' \in Nat /\ n_events_' <= Cardinality(Event)
    <3> HIDE DEF New
    <3> QED BY <1>3, <1>6, <1>7
  <2> QED BY <2>1, <2>2

\* A step that keeps the set of events ever registered keeps the count.
LEMMA CountKept ==
  ASSUME IInv, n_events_' = n_events_,
         \A x \in Event : (ctx'[x] # "new") <=> (ctx[x] # "new")
  PROVE  EventsCounted'
<1>1. {x \in Event : ctx'[x] # "new"} = {x \in Event : ctx[x] # "new"}
  OBVIOUS
<1> QED BY <1>1 DEF IInv, EventsCounted

\* The loop starts with no event and the invariant holds trivially.
LEMMA InitInv == Init => IInv
<1> SUFFICES ASSUME Init PROVE IInv
  OBVIOUS
<1>1. {x \in Event : ctx[x] # "new"} = {}
  BY DEF Init
<1>2. Cardinality({}) = 0 /\ Cardinality(Event) \in Nat
  BY FS_EmptySet, FS_CardinalityType, EventAssumption
<1>3. EventsCounted
  BY <1>1, <1>2 DEF Init, EventsCounted
<1>4. TypeOK
  BY <1>2 DEF Init, TypeOK, Types
<1>5. BatchReadable /\ BatchLive
  BY DEF Init, BatchReadable, BatchLive, SafeDispatch
<1> QED BY <1>3, <1>4, <1>5 DEF IInv

\* Every step of the loop thread, of its clients and of a racing thread keeps
\* the invariant.
LEMMA StepInv == IInv /\ [Next]_evars => IInv'
<1> SUFFICES ASSUME IInv, [Next]_evars PROVE IInv'
  OBVIOUS
<1> USE EventAssumption DEF IInv
<1>1. ASSUME NEW e \in Event, loop = "init", register_event(e) PROVE IInv'
  <2>1. TypeOK' /\ EventsCounted'
    BY <1>1, CountRegistered DEF register_event, TypeOK, Types
  <2>2. BatchReadable'
    BY <1>1 DEF register_event, TypeOK, Types, BatchReadable
  <2>3. BatchLive'
    BY <1>1 DEF register_event, TypeOK, Types, BatchReadable, BatchLive, SafeDispatch
  <2> QED BY <2>1, <2>2, <2>3
<1>2. CASE start_thread
  BY <1>2, CountKept DEF start_thread, TypeOK, Types, BatchReadable, BatchLive, SafeDispatch
<1>3. ASSUME NEW e \in Event, ctx[e] = "live", loop # "crashed", set(e) PROVE IInv'
  BY <1>3, CountKept DEF set, TypeOK, Types, BatchReadable, BatchLive, SafeDispatch
<1>4. CASE DrainSocket
  BY <1>4, CountKept DEF DrainSocket, TypeOK, Types, BatchReadable, BatchLive, SafeDispatch
<1>5. ASSUME NEW e \in Event, ctx[e] = "live", deregister_event_racing(e),
             loop # "crashed",
             Discipline[e] = "own" => loop = "callback" /\ e = handler,
             Discipline[e] # "thread" => loop = "callback" /\ deregister_event(e)
      PROVE IInv'
  <2>1. /\ ctx' = [ctx EXCEPT ![e] = "freed"]
        /\ UNCHANGED <<ready, triggered, handler, loop, n_events_>>
    BY <1>5 DEF deregister_event_racing, deregister_event
  <2>2. nulled' = nulled \/ nulled' = nulled \cup ({e} \cap triggered)
    BY <1>5 DEF deregister_event_racing, deregister_event, drop_event
  <2>3. Discipline[e] # "thread" => nulled' = nulled \cup ({e} \cap triggered)
    BY <1>5 DEF deregister_event, drop_event
  <2>4. TypeOK'
    BY <2>1, <2>2 DEF TypeOK, Types
  <2>5. EventsCounted'
    BY <2>1, <1>5, CountKept DEF TypeOK, Types
  <2>6. BatchReadable'
    BY <2>1, <2>4 DEF BatchReadable, TypeOK, Types
  <2>7. BatchLive'
    <3>1. ctx' \in [Event -> {"new", "live", "freed"}] /\ ctx'[e] = "freed"
          /\ \A x \in Event \ {e} : ctx'[x] = ctx[x]
      BY <2>1 DEF TypeOK, Types
    <3>2. triggered \subseteq Event /\ (Discipline[e] = "own" => e \notin triggered)
      BY <1>5 DEF TypeOK, Types, BatchReadable
    <3>3. \A x \in triggered \ nulled' : Discipline[x] # "thread" => ctx'[x] = "live"
      BY <2>2, <2>3, <3>1, <3>2 DEF BatchLive
    <3>4. \A x \in triggered : ctx'[x] # "new"
      BY <3>1, <3>2 DEF BatchLive
    <3>5. \A x \in triggered \cap nulled' : Discipline[x] # "own" /\ ctx'[x] = "freed"
      BY <2>2, <3>1, <3>2 DEF BatchLive
    <3>6. (loop = "fetched" => ctx'[handler] # "new") /\ SafeDispatch'
      BY <2>1, <3>1, <1>5 DEF BatchLive, BatchReadable, SafeDispatch
    <3> QED BY <2>1, <3>3, <3>4, <3>5, <3>6 DEF BatchLive
  <2> QED BY <2>4, <2>5, <2>6, <2>7
<1>6. CASE DeregisterOwn
  <2>1. loop = "callback" /\ deregister_event(handler) /\ handler \in Event /\ ctx[handler] = "live"
    BY <1>6 DEF DeregisterOwn, BatchReadable, deregister_event
  <2> QED BY <2>1, <1>5 DEF deregister_event_racing
<1>7. CASE DeregisterAny
  <2>1. PICK e \in Event : Discipline[e] # "own" /\ deregister_event(e)
    BY <1>7 DEF DeregisterAny
  <2> QED BY <1>7, <2>1, <1>5 DEF DeregisterAny, deregister_event_racing, deregister_event
<1>8. CASE DeregisterRacing
  <2>1. PICK e \in Event : Discipline[e] = "thread"
                          /\ (deregister_event_racing(e) \/ deregister_event_again(e))
    BY <1>8 DEF DeregisterRacing
  <2>2. CASE deregister_event_racing(e)
    <3>1. ctx[e] = "live"
      BY <2>2 DEF deregister_event_racing, deregister_event
    <3> QED BY <1>8, <2>1, <2>2, <3>1, <1>5 DEF DeregisterRacing
  <2>3. CASE deregister_event_again(e)
    BY <2>1, <2>3, CountKept
       DEF deregister_event_again, TypeOK, Types, BatchReadable, BatchLive, SafeDispatch
  <2> QED BY <2>1, <2>2, <2>3
<1>9. CASE epoll_wait
  BY <1>9, CountKept DEF epoll_wait, Ready, TypeOK, Types, BatchReadable, BatchLive, SafeDispatch
<1>10. ASSUME NEW e \in Event, fetch(e) PROVE IInv'
  <2>1. TypeOK' /\ EventsCounted'
    BY <1>10, CountKept DEF fetch, TypeOK, Types
  <2>2. BatchReadable'
    BY <1>10 DEF fetch, TypeOK, Types, BatchReadable
  <2>3. BatchLive'
    BY <1>10 DEF fetch, TypeOK, Types, BatchLive, SafeDispatch
  <2> QED BY <2>1, <2>2, <2>3
<1>11. CASE invoke
  <2>1. TypeOK' /\ EventsCounted'
    BY <1>11, CountKept DEF invoke, invoke_live, TypeOK, Types
  <2>2. BatchReadable'
    BY <1>11 DEF invoke, invoke_live, TypeOK, Types, BatchReadable
  <2>3. BatchLive'
    BY <1>11 DEF invoke, invoke_live, TypeOK, Types, BatchReadable, BatchLive, SafeDispatch
  <2> QED BY <2>1, <2>2, <2>3
<1>12. CASE callback_returns
  BY <1>12, CountKept DEF callback_returns, TypeOK, Types, BatchReadable, BatchLive, SafeDispatch
<1>13. CASE loop_returns
  BY <1>13, CountKept DEF loop_returns, TypeOK, Types, BatchReadable, BatchLive, SafeDispatch
<1>14. CASE UNCHANGED evars
  BY <1>14, CountKept DEF evars, TypeOK, Types, BatchReadable, BatchLive, SafeDispatch
<1>15. QED
  BY <1>1, <1>2, <1>3, <1>4, <1>6, <1>7, <1>8, <1>9, <1>10, <1>11, <1>12, <1>13, <1>14
     DEF Next, Register, Signal, Loop, Stopped

\* The invariant of the event loop holds in every reachable state.
THEOREM LoopInvariant == Spec => []IInv
<1> QED BY InitInv, StepInv, PTL DEF Spec

\* Type correctness, including that n_events_ counts registrations: it never
\* exceeds the number of contexts.
THEOREM LoopTypeOK == Spec => []TypeOK
<1>1. IInv => TypeOK
  BY DEF IInv
<1> QED BY <1>1, LoopInvariant, PTL

\* No handler ever blocks in read() on its eventfd, whoever deregisters.
THEOREM LoopReadNeverBlocks == Spec => []ReadNeverBlocks
<1>1. IInv => ReadNeverBlocks
  BY DEF IInv, BatchReadable, ReadNeverBlocks
<1> QED BY <1>1, LoopInvariant, PTL

\* A context that only callbacks deregister is never called after it is freed,
\* and the loop never crashes while each event is deregistered by its own
\* callback only.
THEOREM LoopSafeDispatch == Spec => []SafeDispatch
<1>1. IInv => SafeDispatch
  BY DEF IInv, BatchLive, SafeDispatch
<1> QED BY <1>1, LoopInvariant, PTL

-----------------------------------------------------------------------------
(* What the loop promises: EventLoop implements Wakeups.                   *)

\* Deregistering an event withdraws its signal, whether or not its entry in the
\* batch was found; an entry that stays is a late call, of a socket only, and only if
\* another thread deregistered it.
LEMMA DeregisterWithdraws ==
  ASSUME IInv, IInv', NEW e \in Event, deregister_event_racing(e),
         Discipline[e] = "own" => loop = "callback" /\ handler = e,
         Discipline[e] = "callback" => loop = "callback"
  PROVE  Promise!Deregister(e)
<1>1. /\ ctx[e] = "live" /\ ctx' = [ctx EXCEPT ![e] = "freed"]
      /\ UNCHANGED <<ready, triggered, handler, loop>>
      /\ nulled' = nulled \/ nulled' = nulled \cup ({e} \cap triggered)
  BY DEF deregister_event_racing, deregister_event, drop_event
<1>2. Ready' = Ready \ {e}
  BY <1>1 DEF Ready, IInv, TypeOK, Types
<1>3. loop = "callback" => handler # NoEvent
  BY EventAssumption DEF IInv, BatchReadable
<1>4. e \notin CalledLate
  BY <1>1 DEF CalledLate
<1>5. CalledLate' = CalledLate \/ CalledLate' = CalledLate \cup {e}
  <2>1. ctx'[e] = "freed" /\ \A x \in Event \ {e} : ctx'[x] = ctx[x]
    BY <1>1 DEF IInv, TypeOK, Types
  <2>2. \A x \in Event \ {e} : x \in CalledLate' <=> x \in CalledLate
    BY <1>1, <2>1 DEF CalledLate
  <2>3. CalledLate \subseteq Event /\ CalledLate' \subseteq Event
    BY DEF CalledLate
  <2> QED BY <1>4, <2>2, <2>3
<1>6. ASSUME e \in CalledLate'
      PROVE  Discipline[e] = "thread" /\ e \notin EventFd /\ (loop = "callback" => handler # e)
  <2>1. e \notin EventFd /\ (e \in triggered \ nulled' \/ (loop = "fetched" /\ handler = e))
    BY <1>1, <1>6 DEF CalledLate
  <2>2. loop = "callback" => handler # e
    BY <2>1 DEF IInv, BatchReadable
  <2>3. ctx'[e] = "freed"
    BY <1>1 DEF IInv, TypeOK, Types
  <2>4. Discipline[e] = "thread"
    BY <1>1, <2>1, <2>3 DEF IInv, BatchLive, SafeDispatch
  <2> QED BY <2>1, <2>2, <2>4
<1> QED
  <2>1. CalledLate' = CalledLate \/ (e \in CalledLate' /\ CalledLate' = CalledLate \cup {e})
    BY <1>5
  <2>2. e \in CalledLate' => (IF loop = "callback" THEN handler ELSE NoEvent) # e
    BY <1>6, EventAssumption
  <2> QED BY <1>1, <1>2, <1>3, <1>6, <2>1, <2>2 DEF Promise!Deregister

\* A step that neither signals nor calls, returns, deregisters or ends is hidden.
LEMMA HiddenStep ==
  ASSUME UNCHANGED <<ctx, ready>>, CalledLate' = CalledLate, loop # "callback", loop' # "callback",
         loop \in {"returned", "crashed"} <=> loop' \in {"returned", "crashed"}
  PROVE  UNCHANGED Promise!wvars
BY DEF Promise!wvars, Ready

\* A step that crashes the process: another than its own callback has freed an event.
LEMMA CrashStep ==
  ASSUME IInv, IInv', UNCHANGED <<ctx, ready>>, loop' = "crashed",
         CalledLate' \subseteq CalledLate
  PROVE  Promise!Crash
<1>1. \E e \in Event : ctx[e] = "freed" /\ Discipline[e] # "own"
  BY DEF IInv, BatchLive, SafeDispatch
<1> QED BY <1>1 DEF Promise!Crash, Ready

\* What epoll_wait, the batch and the pointers do is hidden; every other step is
\* one of Wakeups.
LEMMA WakeupStep ==
  ASSUME IInv, IInv', [Next]_evars PROVE [Promise!Next]_(Promise!wvars)
<1> USE EventAssumption
<1>0. ASSUME NEW e \in Event, Promise!Register(e) \/ Promise!Signal(e) \/ Promise!Call(e)
                               \/ Promise!CallLate(e) \/ Promise!Deregister(e)
      PROVE  Promise!Next
  BY <1>0 DEF Promise!Next
<1>1. ASSUME NEW e \in Event, loop = "init", register_event(e) PROVE Promise!Register(e)
  <2>1. e \notin ready /\ loop # "callback"
    BY <1>1 DEF register_event, IInv, BatchReadable
  <2>2. Ready' = Ready
    BY <1>1, <2>1 DEF register_event, Ready, IInv, TypeOK, Types
  <2>3. CalledLate' = CalledLate
    BY <1>1 DEF register_event, CalledLate, IInv, TypeOK, Types
  <2> QED BY <1>1, <2>2, <2>3 DEF register_event, Promise!Register
<1>2. CASE start_thread
  BY <1>2, HiddenStep DEF start_thread, CalledLate
<1>3. ASSUME NEW e \in Event, ctx[e] = "live", set(e) PROVE Promise!Signal(e)
  <2>1. Ready' = Ready \cup {e}
    BY <1>3 DEF set, Ready
  <2> QED BY <1>3, <2>1 DEF set, Promise!Signal, CalledLate
<1>4. CASE DrainSocket
  <2>1. handler \in Event /\ handler # NoEvent /\ Ready' = Ready \ {handler}
    BY <1>4 DEF DrainSocket, Ready, IInv, BatchReadable
  <2> QED BY <1>4, <2>1 DEF DrainSocket, Promise!Drain, Promise!Next, CalledLate
<1>5. CASE DeregisterOwn
  <2>1. handler \in Event /\ deregister_event_racing(handler) /\ loop = "callback"
    BY <1>5 DEF DeregisterOwn, deregister_event_racing, IInv, BatchReadable
  <2> QED BY <1>0, <2>1, DeregisterWithdraws
<1>6. CASE DeregisterAny
  <2>1. PICK e \in Event : Discipline[e] # "own" /\ deregister_event_racing(e)
                          /\ loop = "callback"
    BY <1>6 DEF DeregisterAny, deregister_event_racing
  <2> QED BY <1>0, <2>1, DeregisterWithdraws
<1>7. CASE DeregisterRacing
  <2>1. PICK e \in Event : Discipline[e] = "thread"
                          /\ (deregister_event_racing(e) \/ deregister_event_again(e))
    BY <1>7 DEF DeregisterRacing
  <2>2. CASE deregister_event_racing(e)
    BY <1>0, <2>1, <2>2, DeregisterWithdraws
  <2>3. CASE deregister_event_again(e) /\ loop' = "crashed"
    <3>1. CalledLate' \subseteq CalledLate
      BY <2>3 DEF deregister_event_again, CalledLate
    <3> QED BY <2>3, <3>1, CrashStep DEF deregister_event_again, Promise!Next
  <2>4. CASE deregister_event_again(e) /\ loop' = loop
    BY <2>4 DEF deregister_event_again, Promise!wvars, Ready, CalledLate
  <2> QED BY <2>1, <2>2, <2>3, <2>4 DEF deregister_event_again
<1>8. CASE epoll_wait
  <2>1. CalledLate = {} /\ CalledLate' = {}
    BY <1>8 DEF epoll_wait, CalledLate, Ready
  <2> QED BY <1>8, <2>1, HiddenStep DEF epoll_wait
<1>9. ASSUME NEW e \in Event, fetch(e) PROVE [Promise!Next]_(Promise!wvars)
  <2>1. CASE loop' = "crashed"
    <3>1. CalledLate' \subseteq CalledLate
      BY <1>9, <2>1 DEF fetch, CalledLate
    <3> QED BY <1>9, <2>1, <3>1, CrashStep DEF fetch, Promise!Next
  <2>2. CASE loop' = "fetched"
    <3>1. CalledLate' = CalledLate
      BY <1>9, <2>2 DEF fetch, CalledLate, IInv, TypeOK, Types
    <3> QED BY <1>9, <2>2, <3>1, HiddenStep DEF fetch
  <2> QED BY <1>9, <2>1, <2>2 DEF fetch
<1>10. CASE invoke
  <2>1. CASE ctx[handler] = "live"
    <3>1. /\ handler \in Event /\ handler \in ready /\ loop = "fetched"
          /\ loop' = "callback" /\ handler' = handler /\ ctx' = ctx
          /\ ready' = IF handler \in EventFd THEN ready \ {handler} ELSE ready
      BY <1>10, <2>1 DEF invoke, invoke_live, IInv, BatchReadable
    <3>2. /\ handler \in Ready
          /\ Ready' = IF handler \in EventFd THEN Ready \ {handler} ELSE Ready
      BY <2>1, <3>1 DEF Ready
    <3>3. CalledLate' = CalledLate
      BY <1>10, <2>1, <3>1 DEF invoke, CalledLate
    <3>4. Promise!Call(handler)
      BY <2>1, <3>1, <3>2, <3>3 DEF Promise!Call
    <3> QED BY <1>0, <3>1, <3>4
  <2>2. CASE ctx[handler] # "live"
    <3>1. /\ handler \in Event \ triggered /\ loop = "fetched" /\ ctx[handler] = "freed"
          /\ UNCHANGED <<ctx, ready, triggered, nulled>>
      BY <1>10, <2>2 DEF invoke, invoke_live, IInv, BatchReadable, BatchLive, TypeOK, Types
    <3>2. CASE loop' = "crashed"
      <4>1. CalledLate' \subseteq CalledLate
        BY <3>1, <3>2 DEF CalledLate
      <4> QED BY <3>1, <3>2, <4>1, CrashStep DEF Promise!Next
    <3>3. CASE handler \in EventFd /\ loop' = "idle"
      <4>1. CalledLate' = CalledLate
        BY <3>1, <3>3 DEF CalledLate
      <4> QED BY <3>1, <3>3, <4>1, HiddenStep
    <3>4. CASE handler \notin EventFd /\ loop' = "callback" /\ handler' = handler
      <4>1. handler \in CalledLate /\ CalledLate' = CalledLate \ {handler}
        BY <3>1, <3>4 DEF CalledLate
      <4>2. Promise!CallLate(handler)
        BY <3>1, <3>4, <4>1 DEF Promise!CallLate, Ready
      <4> QED BY <1>0, <3>1, <4>2
    <3> QED BY <1>10, <2>2, <3>2, <3>3, <3>4 DEF invoke, invoke_live
  <2> QED BY <2>1, <2>2
<1>11. CASE callback_returns
  <2>1. loop = "callback" /\ handler # NoEvent /\ loop' = "idle" /\ UNCHANGED <<ctx, ready>>
    BY <1>11 DEF callback_returns, IInv, BatchReadable
  <2>2. CalledLate' = CalledLate
    BY <1>11, <2>1 DEF callback_returns, CalledLate
  <2> QED BY <2>1, <2>2 DEF Promise!Return, Promise!Next, Ready
<1>12. CASE loop_returns
  BY <1>12 DEF loop_returns, Promise!GiveUp, Promise!Next, Ready, CalledLate
<1>13. CASE UNCHANGED evars
  BY <1>13 DEF evars, Promise!wvars, Ready, CalledLate
<1> QED
  BY <1>0, <1>1, <1>2, <1>3, <1>4, <1>5, <1>6, <1>7, <1>8, <1>9, <1>10, <1>11, <1>12, <1>13
     DEF Next, Register, Signal, Loop, Stopped

\* A callback runs only for an event that is registered and signalled, one at a
\* time, each call answers exactly the signals up to it, and none begins once its
\* event is deregistered but that of a socket which another thread deregisters when
\* its call is due, once: for any events, clients and interleaving.
THEOREM LoopImplements == Spec => ImplementsWakeups
<1>1. Init => Promise!Init
  BY DEF Init, Promise!Init, Ready, CalledLate
<1>2. IInv /\ IInv' /\ [Next]_evars => [Promise!Next]_(Promise!wvars)
  BY WakeupStep
<1> QED BY <1>1, <1>2, LoopInvariant, PTL DEF Spec, ImplementsWakeups, Promise!Spec
=============================================================================
