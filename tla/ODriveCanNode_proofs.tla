------------------------ MODULE ODriveCanNode_proofs ------------------------
(***************************************************************************)
(* Proofs about ODriveCanNode, for every number of messages, requests and  *)
(* calls, every set of modes and axis states, and with or without faults,  *)
(* spurious wakeups and the idle frame on shutdown.                        *)
(*                                                                         *)
(* IInv is inductive: one lemma per part of it, one step per action.       *)
(***************************************************************************)
EXTENDS ODriveCanNode, FiniteSetTheorems, TLAPS

\* The node registers finitely many descriptors.
LEMMA NodeEventsFinite ==
  IsFiniteSet(NodeEvent) /\ Cardinality(NodeEvent) \in Nat
<1>1. IsFiniteSet({"can"} \cup {"sub"} \cup {"srv"} \cup {"clr"} \cup {"lim"})
  BY FS_Singleton, FS_Union
<1>2. NodeEvent = {"can"} \cup {"sub"} \cup {"srv"} \cup {"clr"} \cup {"lim"}
  BY DEF NodeEvent
<1> QED BY <1>1, <1>2, FS_CardinalityType

\* The invariant holds when the node has been constructed and initialised.
LEMMA InitInv == Init => IInv
<1> SUFFICES ASSUME Init PROVE IInv
  OBVIOUS
<1>1. Loop!Types
  <2>1. n_events_ \in 0..Cardinality(NodeEvent)
    BY NodeEventsFinite DEF Init
  <2> QED BY <2>1 DEF Init, Loop!Types
<1>2. TypeOK
  <2>1. sent \in Frames /\ failed \subseteq DOMAIN sent
    BY NodeAssumption DEF Init, NoMessage, NoRequest, Frames, Messages, Requests, AxisState,
       ControlMode, Supported
  <2>2. ctrl_msg_ \in Messages /\ axis_state_ \in Requests /\ axis_state \in Requests
    BY NodeAssumption DEF Init, NoMessage, NoRequest, Messages, Requests, AxisState, ControlMode
  <2>3. /\ ctrl_stat_ \in [result : Results, seen : 0..MaxRequests]
        /\ response \in [id : 0..MaxRequests, result : Results, seen : 0..MaxRequests]
        /\ limits_ \in 0..MaxLimits /\ clears \in 0..MaxClears
    BY NodeAssumption DEF Init, Results
  <2> QED BY <1>1, <2>1, <2>2, <2>3 DEF Init, TypeOK, ControlMode
<1>3. InCallback /\ Registered
  BY DEF Init, InCallback, Registered, NodeEvent, Teardown
<1>4. ControlInv /\ ServicesInv
  BY DEF Init, ControlInv, ControlSettled, ServicesInv, ServicesSettled, Served, NoMessage,
         NoRequest, Supported
<1> QED BY <1>2, <1>3, <1>4 DEF IInv

\* A write keeps the types, whether it fails or not.
LEMMA SendType ==
  ASSUME NEW kind, NEW frame, sent \in Frames, failed \subseteq DOMAIN sent,
         kind \in DOMAIN sent, [sent EXCEPT ![kind] = frame] \in Frames,
         send_can_frame(kind, frame)
  PROVE  sent' \in Frames /\ failed' \subseteq DOMAIN sent'
<1>1. DOMAIN [sent EXCEPT ![kind] = frame] = DOMAIN sent
  OBVIOUS
<1> QED BY <1>1 DEF send_can_frame

\* Deregistration, racing or not, frees one context and may clear its entry.
LEMMA DeregisterEffect ==
  ASSUME Loop!Types, NEW e \in NodeEvent, Loop!deregister_event_racing(e)
  PROVE  /\ Loop!Types'
         /\ ctx[e] = "live" /\ ctx' = [ctx EXCEPT ![e] = "freed"]
         /\ nulled' \in {nulled, nulled \cup ({e} \cap triggered)}
         /\ UNCHANGED <<ready, triggered, handler, loop, n_events_>>
<1>1. /\ ctx[e] = "live" /\ ctx' = [ctx EXCEPT ![e] = "freed"]
      /\ nulled' \in {nulled, nulled \cup ({e} \cap triggered)}
      /\ UNCHANGED <<ready, triggered, handler, loop, n_events_>>
  BY DEF Loop!deregister_event_racing, Loop!deregister_event, Loop!drop_event
<1> QED BY <1>1 DEF Loop!Types

\* The first half of SocketCanIntf::deinit: nothing, a deregistration, or a
\* second one of a context that is gone, which may crash.
LEMMA SocketDeregisterEffect ==
  ASSUME Loop!Types, socket_deregister
  PROVE  /\ Loop!Types'
         /\ ctx' \in {ctx, [ctx EXCEPT !["can"] = "freed"]}
         /\ nulled' \in {nulled, nulled \cup ({"can"} \cap triggered)}
         /\ loop' \in {loop, "crashed"}
         /\ loop' = "crashed" => loop = "crashed" \/ ctx["can"] = "freed"
         /\ UNCHANGED <<ready, triggered, handler, n_events_>>
<1>1. CASE broken_ /\ UNCHANGED evars
  BY <1>1 DEF evars, Loop!Types
<1>2. CASE ~broken_ /\ Loop!deregister_event_racing("can")
  <2>1. "can" \in NodeEvent
    BY DEF NodeEvent
  <2> QED BY <1>2, <2>1, DeregisterEffect
<1>3. CASE ~broken_ /\ Loop!deregister_event_again("can")
  BY <1>3 DEF Loop!deregister_event_again, Loop!Types
<1> QED BY <1>1, <1>2, <1>3 DEF socket_deregister

\* Every action keeps the types.
LEMMA TypeOKStep == IInv /\ [Next]_vars => TypeOK'
<1> SUFFICES ASSUME IInv, [Next]_vars PROVE TypeOK'
  OBVIOUS
<1> USE NodeAssumption DEF evars, stored, locals, service, socket, bus, IInv, TypeOK,
    Loop!Types, NodeEvent, Messages, Requests, Frames, Results, Teardown, AxisState,
         ControlMode, Supported
<1>1. CASE subscriber_callback
  BY <1>1 DEF subscriber_callback, Loop!set
<1>2. CASE service_store
  BY <1>2 DEF service_store
<1>3. CASE service_set
  <2>1. Loop!Types'
    BY <1>3 DEF service_set, Loop!set
  <2>2. ros' = "svc_check"
    BY <1>3 DEF service_set
  <2>3. elapsed' \in BOOLEAN
    BY <1>3, Zenon DEF service_set
  <2>4. UNCHANGED <<stored, ctrl_stat_, body, locals, response, socket, bus>>
    BY <1>3 DEF service_set
  <2> QED BY <2>1, <2>2, <2>3, <2>4
<1>4. CASE one_second_passes
  BY <1>4 DEF one_second_passes
<1>5. CASE service_check
  BY <1>5 DEF service_check
<1>6. CASE spurious_wakeup
  BY <1>6 DEF spurious_wakeup
<1>7. CASE service_clear_errors_callback
  BY <1>7 DEF service_clear_errors_callback, Loop!set
<1>8. CASE set_limits_store
  BY <1>8 DEF set_limits_store
<1>9. CASE set_limits_set
  BY <1>9 DEF set_limits_set, Loop!set
<1>10. CASE spin_returns
  <2>1. sent' \in Frames /\ failed' \subseteq DOMAIN sent'
    <3>1. [sent EXCEPT !["axis"] = Idle] \in Frames /\ "axis" \in DOMAIN sent
      BY DEF Idle
    <3>2. send_can_frame("axis", Idle) \/ (sent' = sent /\ failed' = failed)
      BY <1>10 DEF spin_returns
    <3>3. sent \in Frames /\ failed \subseteq DOMAIN sent
      OBVIOUS
    <3> HIDE DEF Frames, TypeOK, IInv, bus
    <3> QED BY <3>1, <3>2, <3>3, SendType
  <2>2. ros' = "deinit_sub"
    BY <1>10 DEF spin_returns
  <2> QED BY <1>10, <2>1, <2>2 DEF spin_returns
<1>11. CASE deinit_event("sub", "deinit_sub", "deinit_srv")
  <2>1. Loop!Types' /\ UNCHANGED <<stored, ctrl_stat_, body, locals, service, socket, bus>>
    BY <1>11, DeregisterEffect DEF deinit_event
  <2>2. ros' = "deinit_srv"
    BY <1>11 DEF deinit_event
  <2> QED BY <2>1, <2>2
<1>12. CASE deinit_event("srv", "deinit_srv", "deinit_can")
  <2>1. Loop!Types' /\ UNCHANGED <<stored, ctrl_stat_, body, locals, service, socket, bus>>
    BY <1>12, DeregisterEffect DEF deinit_event
  <2>2. ros' = "deinit_can"
    BY <1>12 DEF deinit_event
  <2> QED BY <2>1, <2>2
<1>13. CASE deinit_can
  <2>1. Loop!Types' /\ UNCHANGED <<stored, ctrl_stat_, body, locals, service, socket, bus>>
    BY <1>13, SocketDeregisterEffect DEF deinit_can
  <2>2. ros' = "can_close"
    BY <1>13 DEF deinit_can
  <2> QED BY <2>1, <2>2
<1>14. CASE main_returns
  BY <1>14 DEF main_returns
<1>15. CASE loop_step /\ Loop!epoll_wait
  <2>1. Loop!Types'
    BY <1>15 DEF Loop!epoll_wait, Loop!Ready
  <2> QED BY <1>15, <2>1 DEF loop_step
<1>16. CASE loop_step /\ \E e \in NodeEvent : Loop!fetch(e)
  BY <1>16 DEF loop_step, Loop!fetch
<1>17. CASE loop_interrupted
  BY <1>17 DEF loop_interrupted, Loop!loop_returns
<1>18. CASE dispatch
  <2>1. /\ handler' \in {handler, "none"} /\ loop' \in {"callback", "crashed", "idle"}
        /\ ready' \in {ready, ready \ {handler}}
        /\ UNCHANGED <<ctx, triggered, nulled, n_events_>>
    BY <1>18 DEF dispatch, Loop!invoke, Loop!invoke_live
  <2>2. Loop!Types'
    BY <2>1
  <2>3. loop = "fetched" /\ handler \in NodeEvent
    BY <1>18 DEF dispatch, Loop!invoke, Loop!invoke_live, InCallback
  <2>4. body' \in {"none"} \cup {Entry[e] : e \in NodeEvent}
    BY <1>18, <2>3 DEF dispatch
  <2>5. UNCHANGED <<stored, ctrl_stat_, ros, locals, service, socket, bus>>
    BY <1>18 DEF dispatch
  <2> QED BY <2>2, <2>4, <2>5 DEF Entry
<1>19. CASE ctl_read
  BY <1>19 DEF ctl_read, at, goto
<1>20. CASE ctl_mode
  <2>1. sent' \in Frames /\ failed' \subseteq DOMAIN sent'
    <3>1. [sent EXCEPT !["mode"] = ctrl_msg_] \in Frames /\ "mode" \in DOMAIN sent
      BY <1>20 DEF ctl_mode, at
    <3>2. send_can_frame("mode", ctrl_msg_)
      BY <1>20 DEF ctl_mode
    <3>3. sent \in Frames /\ failed \subseteq DOMAIN sent
      OBVIOUS
    <3> HIDE DEF Frames, TypeOK, IInv, bus
    <3> QED BY <3>1, <3>2, <3>3, SendType
  <2>2. Loop!Types' /\ body' \in {"none", "ctl_input"}
    <3>1. goto("ctl_input") \/ return
      BY <1>20 DEF ctl_mode
    <3>2. CASE goto("ctl_input")
      BY <3>2 DEF goto
    <3>3. CASE return
      BY <3>3 DEF return, Loop!callback_returns
    <3> QED BY <3>1, <3>2, <3>3
  <2>3. UNCHANGED <<stored, ctrl_stat_, ros, locals, service, socket>>
    BY <1>20 DEF ctl_mode
  <2> QED BY <2>1, <2>2, <2>3
<1>21. CASE ctl_input
  <2>1. sent' \in Frames /\ failed' \subseteq DOMAIN sent'
    <3> DEFINE frame == [id |-> ctrl_msg_.id, mode |-> control_mode]
    <3>1. control_mode \in Supported
      BY <1>21 DEF ctl_input, at, ControlInv
    <3>2. [sent EXCEPT !["input"] = frame] \in Frames /\ "input" \in DOMAIN sent
      BY <3>1
    <3>3. send_can_frame("input", frame)
      BY <1>21 DEF ctl_input
    <3>4. sent \in Frames /\ failed \subseteq DOMAIN sent
      OBVIOUS
    <3> HIDE DEF Frames, TypeOK, IInv, bus, frame
    <3> QED BY <3>2, <3>3, <3>4, SendType
  <2> QED BY <1>21, <2>1 DEF ctl_input, at, return, Loop!callback_returns
<1>22. CASE st_read
  BY <1>22 DEF st_read, at, goto
<1>23. CASE st_clear
  BY <1>23 DEF st_clear, at, goto, send_can_frame
<1>24. CASE st_send
  BY <1>24 DEF st_send, at, return, Loop!callback_returns, send_can_frame
<1>25. CASE request_clear_errors_callback
  BY <1>25 DEF request_clear_errors_callback, at, return, Loop!callback_returns,
       send_can_frame
<1>26. CASE request_set_limits_callback
  BY <1>26 DEF request_set_limits_callback, at, return, Loop!callback_returns,
       send_can_frame
<1>27. CASE frame_arrives
  BY <1>27 DEF frame_arrives, Loop!set
<1>28. CASE \E r \in Results : recv_heartbeat(r)
  BY <1>28 DEF recv_heartbeat, at
<1>29. CASE socket_drained
  BY <1>29 DEF socket_drained, at, Loop!DrainSocket
<1>30. CASE socket_error
  <2>1. Loop!Types' /\ UNCHANGED <<stored, ctrl_stat_, ros, locals, service, socket, bus>>
    BY <1>30, SocketDeregisterEffect DEF socket_error
  <2>2. body' = "can_close"
    BY <1>30 DEF socket_error
  <2> QED BY <2>1, <2>2
<1>31. CASE socket_closed
  BY <1>31 DEF socket_closed, at, return, Loop!callback_returns
<1>32. CASE UNCHANGED vars
  BY <1>32 DEF vars
<1>33. CASE socket_return
  BY <1>33 DEF socket_return, at, return, Loop!callback_returns
<1>34. CASE deinit_can_close \/ deinit_can_break
  <2>1. /\ ros' \in {"can_break", "exit"} /\ open' \in BOOLEAN /\ broken_' \in BOOLEAN
        /\ UNCHANGED <<evars, stored, ctrl_stat_, body, locals, service, bus>>
    <3>1. CASE deinit_can_close
      BY <3>1, Zenon DEF deinit_can_close
    <3>2. CASE deinit_can_break
      BY <3>2, Zenon DEF deinit_can_break
    <3> QED BY <1>34, <3>1, <3>2
  <2> QED BY <2>1
<1>35. CASE socket_close
  <2>1. body' = "can_break" /\ open' \in BOOLEAN /\ broken_' = broken_
        /\ UNCHANGED <<evars, stored, ctrl_stat_, ros, locals, service, bus>>
    BY <1>35, Zenon DEF socket_close, at, goto
  <2> QED BY <2>1
<1>36. QED
  BY <1>1, <1>2, <1>3, <1>4, <1>5, <1>6, <1>7, <1>8, <1>9, <1>10, <1>11, <1>12, <1>13,
       <1>14, <1>15, <1>16, <1>17, <1>18, <1>19, <1>20, <1>21, <1>22, <1>23, <1>24,
    <1>25, <1>26, <1>27, <1>28, <1>29, <1>30, <1>31, <1>32, <1>33, <1>34, <1>35
     DEF Next, Client, Main, LoopThread, Environment, Stopped, loop_step

\* Dispatch is the only way into a callback, and only it reads an eventfd.
LEMMA InCallbackStep == IInv /\ [Next]_vars => InCallback'
<1> SUFFICES ASSUME IInv, [Next]_vars PROVE InCallback'
  OBVIOUS
<1> USE NodeAssumption DEF evars, stored, locals, service, socket, bus, IInv, TypeOK,
    Loop!Types, NodeEvent, InCallback, EventOf
<1>1. CASE subscriber_callback
  BY <1>1 DEF subscriber_callback, Loop!set
<1>2. CASE service_store
  BY <1>2 DEF service_store
<1>3. CASE service_set
  BY <1>3 DEF service_set, Loop!set
<1>4. CASE one_second_passes
  BY <1>4 DEF one_second_passes
<1>5. CASE service_check
  BY <1>5 DEF service_check
<1>6. CASE spurious_wakeup
  BY <1>6 DEF spurious_wakeup
<1>7. CASE service_clear_errors_callback
  BY <1>7 DEF service_clear_errors_callback, Loop!set
<1>8. CASE set_limits_store
  BY <1>8 DEF set_limits_store
<1>9. CASE set_limits_set
  BY <1>9 DEF set_limits_set, Loop!set
<1>10. CASE spin_returns
  BY <1>10 DEF spin_returns, send_can_frame
<1>11. CASE deinit_event("sub", "deinit_sub", "deinit_srv")
  BY <1>11 DEF deinit_event, Loop!deregister_event_racing, Loop!deregister_event,
       Loop!drop_event
<1>12. CASE deinit_event("srv", "deinit_srv", "deinit_can")
  BY <1>12 DEF deinit_event, Loop!deregister_event_racing, Loop!deregister_event,
       Loop!drop_event
<1>13. CASE deinit_can
  BY <1>13 DEF deinit_can, socket_deregister, Loop!deregister_event_racing,
       Loop!deregister_event_again, Loop!deregister_event, Loop!drop_event
<1>14. CASE main_returns
  BY <1>14 DEF main_returns
<1>15. CASE loop_step /\ Loop!epoll_wait
  BY <1>15 DEF loop_step, Loop!epoll_wait, Loop!Ready
<1>16. CASE loop_step /\ \E e \in NodeEvent : Loop!fetch(e)
  BY <1>16 DEF loop_step, Loop!fetch
<1>17. CASE loop_interrupted
  BY <1>17 DEF loop_interrupted, Loop!loop_returns
<1>18. CASE dispatch
  BY <1>18 DEF dispatch, Loop!invoke, Loop!invoke_live, Entry
<1>19. CASE ctl_read
  BY <1>19 DEF ctl_read, at, goto
<1>20. CASE ctl_mode
  <2>1. body = "ctl_mode" /\ (goto("ctl_input") \/ return)
    BY <1>20 DEF ctl_mode, at
  <2>2. CASE goto("ctl_input")
    BY <2>1, <2>2 DEF goto
  <2>3. CASE return
    BY <2>1, <2>3 DEF return, Loop!callback_returns
  <2> QED BY <2>1, <2>2, <2>3
<1>21. CASE ctl_input
  BY <1>21 DEF ctl_input, at, return, Loop!callback_returns, send_can_frame
<1>22. CASE st_read
  BY <1>22 DEF st_read, at, goto
<1>23. CASE st_clear
  BY <1>23 DEF st_clear, at, goto, send_can_frame
<1>24. CASE st_send
  BY <1>24 DEF st_send, at, return, Loop!callback_returns, send_can_frame
<1>25. CASE request_clear_errors_callback
  BY <1>25 DEF request_clear_errors_callback, at, return, Loop!callback_returns,
       send_can_frame
<1>26. CASE request_set_limits_callback
  BY <1>26 DEF request_set_limits_callback, at, return, Loop!callback_returns,
       send_can_frame
<1>27. CASE frame_arrives
  BY <1>27 DEF frame_arrives, Loop!set
<1>28. CASE \E r \in Results : recv_heartbeat(r)
  BY <1>28 DEF recv_heartbeat, at
<1>29. CASE socket_drained
  BY <1>29 DEF socket_drained, at, Loop!DrainSocket
<1>30. CASE socket_error
  <2>1. body = "can" /\ body' = "can_close" /\ loop' \in {loop, "crashed"}
        /\ UNCHANGED <<ready, triggered, handler>>
    BY <1>30, SocketDeregisterEffect DEF socket_error, at
  <2> QED BY <2>1
<1>31. CASE socket_closed
  BY <1>31 DEF socket_closed, at, return, Loop!callback_returns
<1>32. CASE UNCHANGED vars
  BY <1>32 DEF vars
<1>33. CASE socket_return
  BY <1>33 DEF socket_return, at, return, Loop!callback_returns
<1>34. CASE deinit_can_close \/ deinit_can_break
  BY <1>34 DEF deinit_can_close, deinit_can_break
<1>35. CASE socket_close
  BY <1>35 DEF socket_close, at, goto
<1>36. QED
  BY <1>1, <1>2, <1>3, <1>4, <1>5, <1>6, <1>7, <1>8, <1>9, <1>10, <1>11, <1>12, <1>13,
       <1>14, <1>15, <1>16, <1>17, <1>18, <1>19, <1>20, <1>21, <1>22, <1>23, <1>24,
    <1>25, <1>26, <1>27, <1>28, <1>29, <1>30, <1>31, <1>32, <1>33, <1>34, <1>35
     DEF Next, Client, Main, LoopThread, Environment, Stopped, loop_step

\* Before deinit() the only context freed is that of the socket, by its own callback.
LEMMA RegisteredStep == IInv /\ [Next]_vars => Registered'
<1> SUFFICES ASSUME IInv, [Next]_vars PROVE Registered'
  OBVIOUS
<1> USE NodeAssumption DEF evars, stored, locals, service, socket, bus, IInv, TypeOK,
    Loop!Types, NodeEvent, InCallback, EventOf, Registered, Teardown
<1>1. CASE subscriber_callback
  BY <1>1 DEF subscriber_callback, Loop!set
<1>2. CASE service_store
  BY <1>2 DEF service_store
<1>3. CASE service_set
  BY <1>3 DEF service_set, Loop!set
<1>4. CASE one_second_passes
  BY <1>4 DEF one_second_passes
<1>5. CASE service_check
  BY <1>5 DEF service_check
<1>6. CASE spurious_wakeup
  BY <1>6 DEF spurious_wakeup
<1>7. CASE service_clear_errors_callback
  BY <1>7 DEF service_clear_errors_callback, Loop!set
<1>8. CASE set_limits_store
  BY <1>8 DEF set_limits_store
<1>9. CASE set_limits_set
  BY <1>9 DEF set_limits_set, Loop!set
<1>10. CASE spin_returns
  BY <1>10 DEF spin_returns, send_can_frame
<1>11. CASE deinit_event("sub", "deinit_sub", "deinit_srv")
  BY <1>11 DEF deinit_event, Loop!deregister_event_racing, Loop!deregister_event,
       Loop!drop_event
<1>12. CASE deinit_event("srv", "deinit_srv", "deinit_can")
  BY <1>12 DEF deinit_event, Loop!deregister_event_racing, Loop!deregister_event,
       Loop!drop_event
<1>13. CASE deinit_can
  BY <1>13 DEF deinit_can, socket_deregister, Loop!deregister_event_racing,
       Loop!deregister_event_again, Loop!deregister_event, Loop!drop_event
<1>14. CASE main_returns
  BY <1>14 DEF main_returns
<1>15. CASE loop_step /\ Loop!epoll_wait
  BY <1>15 DEF loop_step, Loop!epoll_wait, Loop!Ready
<1>16. CASE loop_step /\ \E e \in NodeEvent : Loop!fetch(e)
  BY <1>16 DEF loop_step, Loop!fetch
<1>17. CASE loop_interrupted
  BY <1>17 DEF loop_interrupted, Loop!loop_returns
<1>18. CASE dispatch
  BY <1>18 DEF dispatch, Loop!invoke, Loop!invoke_live, Entry
<1>19. CASE ctl_read
  BY <1>19 DEF ctl_read, at, goto
<1>20. CASE ctl_mode
  BY <1>20 DEF ctl_mode, at, goto, return, Loop!callback_returns, send_can_frame
<1>21. CASE ctl_input
  BY <1>21 DEF ctl_input, at, return, Loop!callback_returns, send_can_frame
<1>22. CASE st_read
  BY <1>22 DEF st_read, at, goto
<1>23. CASE st_clear
  BY <1>23 DEF st_clear, at, goto, send_can_frame
<1>24. CASE st_send
  BY <1>24 DEF st_send, at, return, Loop!callback_returns, send_can_frame
<1>25. CASE request_clear_errors_callback
  BY <1>25 DEF request_clear_errors_callback, at, return, Loop!callback_returns,
       send_can_frame
<1>26. CASE request_set_limits_callback
  BY <1>26 DEF request_set_limits_callback, at, return, Loop!callback_returns,
       send_can_frame
<1>27. CASE frame_arrives
  BY <1>27 DEF frame_arrives, Loop!set
<1>28. CASE \E r \in Results : recv_heartbeat(r)
  BY <1>28 DEF recv_heartbeat, at
<1>29. CASE socket_drained
  BY <1>29 DEF socket_drained, at, Loop!DrainSocket
<1>30. CASE socket_error
  <2>1. /\ body = "can" /\ body' = "can_close"
        /\ ctx' \in {ctx, [ctx EXCEPT !["can"] = "freed"]}
        /\ nulled' \in {nulled, nulled \cup ({"can"} \cap triggered)}
        /\ loop' \in {loop, "crashed"}
        /\ loop' = "crashed" => loop = "crashed" \/ ctx["can"] = "freed"
        /\ UNCHANGED <<ready, triggered, handler, ros>>
    BY <1>30, SocketDeregisterEffect DEF socket_error, at
  <2>2. "can" \notin triggered /\ loop # "fetched"
    BY <2>1
  <2>3. \A e \in NodeEvent \ {"can"} : ctx'[e] = ctx[e]
    BY <2>1
  <2> QED BY <2>1, <2>2, <2>3
<1>31. CASE socket_closed
  BY <1>31 DEF socket_closed, at, return, Loop!callback_returns
<1>32. CASE UNCHANGED vars
  BY <1>32 DEF vars
<1>33. CASE socket_return
  BY <1>33 DEF socket_return, at, return, Loop!callback_returns
<1>34. CASE deinit_can_close \/ deinit_can_break
  BY <1>34 DEF deinit_can_close, deinit_can_break
<1>35. CASE socket_close
  BY <1>35 DEF socket_close, at, goto
<1>36. QED
  BY <1>1, <1>2, <1>3, <1>4, <1>5, <1>6, <1>7, <1>8, <1>9, <1>10, <1>11, <1>12, <1>13,
       <1>14, <1>15, <1>16, <1>17, <1>18, <1>19, <1>20, <1>21, <1>22, <1>23, <1>24,
    <1>25, <1>26, <1>27, <1>28, <1>29, <1>30, <1>31, <1>32, <1>33, <1>34, <1>35
     DEF Next, Client, Main, LoopThread, Environment, Stopped, loop_step

\* A new message makes "sub" ready; the callback that then starts reads nothing older.
LEMMA ControlInvStep == IInv /\ [Next]_vars => ControlInv'
<1> SUFFICES ASSUME IInv, [Next]_vars PROVE ControlInv'
  OBVIOUS
<1> USE NodeAssumption DEF evars, stored, locals, service, socket, bus, IInv, TypeOK,
    Loop!Types, NodeEvent, InCallback, EventOf, Registered, Teardown, ControlInv,
         ControlSettled, Served, Messages, Frames, Supported, ControlMode
<1>1. CASE subscriber_callback
  BY <1>1 DEF subscriber_callback, Loop!set
<1>2. CASE service_store
  BY <1>2 DEF service_store
<1>3. CASE service_set
  BY <1>3 DEF service_set, Loop!set
<1>4. CASE one_second_passes
  BY <1>4 DEF one_second_passes
<1>5. CASE service_check
  BY <1>5 DEF service_check
<1>6. CASE spurious_wakeup
  BY <1>6 DEF spurious_wakeup
<1>7. CASE service_clear_errors_callback
  BY <1>7 DEF service_clear_errors_callback, Loop!set
<1>8. CASE set_limits_store
  BY <1>8 DEF set_limits_store
<1>9. CASE set_limits_set
  BY <1>9 DEF set_limits_set, Loop!set
<1>10. CASE spin_returns
  BY <1>10 DEF spin_returns, send_can_frame
<1>11. CASE deinit_event("sub", "deinit_sub", "deinit_srv")
  BY <1>11 DEF deinit_event, Loop!deregister_event_racing, Loop!deregister_event,
       Loop!drop_event
<1>12. CASE deinit_event("srv", "deinit_srv", "deinit_can")
  BY <1>12 DEF deinit_event, Loop!deregister_event_racing, Loop!deregister_event,
       Loop!drop_event
<1>13. CASE deinit_can
  BY <1>13 DEF deinit_can, socket_deregister, Loop!deregister_event_racing,
       Loop!deregister_event_again, Loop!deregister_event, Loop!drop_event
<1>14. CASE main_returns
  BY <1>14 DEF main_returns
<1>15. CASE loop_step /\ Loop!epoll_wait
  BY <1>15 DEF loop_step, Loop!epoll_wait, Loop!Ready
<1>16. CASE loop_step /\ \E e \in NodeEvent : Loop!fetch(e)
  BY <1>16 DEF loop_step, Loop!fetch
<1>17. CASE loop_interrupted
  BY <1>17 DEF loop_interrupted, Loop!loop_returns
<1>18. CASE dispatch
  BY <1>18 DEF dispatch, Loop!invoke, Loop!invoke_live, Entry
<1>19. CASE ctl_read
  BY <1>19 DEF ctl_read, at, goto
<1>20. CASE ctl_mode
  BY <1>20 DEF ctl_mode, at, goto, return, Loop!callback_returns, send_can_frame
<1>21. CASE ctl_input
  BY <1>21 DEF ctl_input, at, return, Loop!callback_returns, send_can_frame
<1>22. CASE st_read
  BY <1>22 DEF st_read, at, goto
<1>23. CASE st_clear
  BY <1>23 DEF st_clear, at, goto, send_can_frame
<1>24. CASE st_send
  BY <1>24 DEF st_send, at, return, Loop!callback_returns, send_can_frame
<1>25. CASE request_clear_errors_callback
  BY <1>25 DEF request_clear_errors_callback, at, return, Loop!callback_returns,
       send_can_frame
<1>26. CASE request_set_limits_callback
  BY <1>26 DEF request_set_limits_callback, at, return, Loop!callback_returns,
       send_can_frame
<1>27. CASE frame_arrives
  BY <1>27 DEF frame_arrives, Loop!set
<1>28. CASE \E r \in Results : recv_heartbeat(r)
  BY <1>28 DEF recv_heartbeat, at
<1>29. CASE socket_drained
  BY <1>29 DEF socket_drained, at, Loop!DrainSocket
<1>30. CASE socket_error
  BY <1>30 DEF socket_error, at, socket_deregister, Loop!deregister_event_racing,
       Loop!deregister_event_again, Loop!deregister_event, Loop!drop_event
<1>31. CASE socket_closed
  BY <1>31 DEF socket_closed, at, return, Loop!callback_returns
<1>32. CASE UNCHANGED vars
  BY <1>32 DEF vars
<1>33. CASE socket_return
  BY <1>33 DEF socket_return, at, return, Loop!callback_returns
<1>34. CASE deinit_can_close \/ deinit_can_break
  BY <1>34 DEF deinit_can_close, deinit_can_break
<1>35. CASE socket_close
  BY <1>35 DEF socket_close, at, goto
<1>36. QED
  BY <1>1, <1>2, <1>3, <1>4, <1>5, <1>6, <1>7, <1>8, <1>9, <1>10, <1>11, <1>12, <1>13,
       <1>14, <1>15, <1>16, <1>17, <1>18, <1>19, <1>20, <1>21, <1>22, <1>23, <1>24,
    <1>25, <1>26, <1>27, <1>28, <1>29, <1>30, <1>31, <1>32, <1>33, <1>34, <1>35
     DEF Next, Client, Main, LoopThread, Environment, Stopped, loop_step

\* The same for requests, clear_errors calls and limits.
LEMMA ServicesInvStep == IInv /\ [Next]_vars => ServicesInv'
<1> SUFFICES ASSUME IInv, [Next]_vars PROVE ServicesInv'
  OBVIOUS
<1> USE NodeAssumption DEF evars, stored, locals, service, socket, bus, IInv, TypeOK,
    Loop!Types, NodeEvent, InCallback, EventOf, Registered, Teardown, ServicesInv,
         ServicesSettled, Served, Requests, Frames, Idle
<1>1. CASE subscriber_callback
  BY <1>1 DEF subscriber_callback, Loop!set
<1>2. CASE service_store
  BY <1>2 DEF service_store
<1>3. CASE service_set
  BY <1>3 DEF service_set, Loop!set
<1>4. CASE one_second_passes
  BY <1>4 DEF one_second_passes
<1>5. CASE service_check
  BY <1>5 DEF service_check
<1>6. CASE spurious_wakeup
  BY <1>6 DEF spurious_wakeup
<1>7. CASE service_clear_errors_callback
  BY <1>7 DEF service_clear_errors_callback, Loop!set
<1>8. CASE set_limits_store
  BY <1>8 DEF set_limits_store
<1>9. CASE set_limits_set
  BY <1>9 DEF set_limits_set, Loop!set
<1>10. CASE spin_returns
  BY <1>10 DEF spin_returns, send_can_frame
<1>11. CASE deinit_event("sub", "deinit_sub", "deinit_srv")
  BY <1>11 DEF deinit_event, Loop!deregister_event_racing, Loop!deregister_event,
       Loop!drop_event
<1>12. CASE deinit_event("srv", "deinit_srv", "deinit_can")
  BY <1>12 DEF deinit_event, Loop!deregister_event_racing, Loop!deregister_event,
       Loop!drop_event
<1>13. CASE deinit_can
  BY <1>13 DEF deinit_can, socket_deregister, Loop!deregister_event_racing,
       Loop!deregister_event_again, Loop!deregister_event, Loop!drop_event
<1>14. CASE main_returns
  BY <1>14 DEF main_returns
<1>15. CASE loop_step /\ Loop!epoll_wait
  BY <1>15 DEF loop_step, Loop!epoll_wait, Loop!Ready
<1>16. CASE loop_step /\ \E e \in NodeEvent : Loop!fetch(e)
  BY <1>16 DEF loop_step, Loop!fetch
<1>17. CASE loop_interrupted
  BY <1>17 DEF loop_interrupted, Loop!loop_returns
<1>18. CASE dispatch
  BY <1>18 DEF dispatch, Loop!invoke, Loop!invoke_live, Entry
<1>19. CASE ctl_read
  BY <1>19 DEF ctl_read, at, goto
<1>20. CASE ctl_mode
  BY <1>20 DEF ctl_mode, at, goto, return, Loop!callback_returns, send_can_frame
<1>21. CASE ctl_input
  BY <1>21 DEF ctl_input, at, return, Loop!callback_returns, send_can_frame
<1>22. CASE st_read
  BY <1>22 DEF st_read, at, goto
<1>23. CASE st_clear
  BY <1>23 DEF st_clear, at, goto, send_can_frame
<1>24. CASE st_send
  BY <1>24 DEF st_send, at, return, Loop!callback_returns, send_can_frame
<1>25. CASE request_clear_errors_callback
  BY <1>25 DEF request_clear_errors_callback, at, return, Loop!callback_returns,
       send_can_frame
<1>26. CASE request_set_limits_callback
  BY <1>26 DEF request_set_limits_callback, at, return, Loop!callback_returns,
       send_can_frame
<1>27. CASE frame_arrives
  BY <1>27 DEF frame_arrives, Loop!set
<1>28. CASE \E r \in Results : recv_heartbeat(r)
  BY <1>28 DEF recv_heartbeat, at
<1>29. CASE socket_drained
  BY <1>29 DEF socket_drained, at, Loop!DrainSocket
<1>30. CASE socket_error
  BY <1>30 DEF socket_error, at, socket_deregister, Loop!deregister_event_racing,
       Loop!deregister_event_again, Loop!deregister_event, Loop!drop_event
<1>31. CASE socket_closed
  BY <1>31 DEF socket_closed, at, return, Loop!callback_returns
<1>32. CASE UNCHANGED vars
  BY <1>32 DEF vars
<1>33. CASE socket_return
  BY <1>33 DEF socket_return, at, return, Loop!callback_returns
<1>34. CASE deinit_can_close \/ deinit_can_break
  BY <1>34 DEF deinit_can_close, deinit_can_break
<1>35. CASE socket_close
  BY <1>35 DEF socket_close, at, goto
<1>36. QED
  BY <1>1, <1>2, <1>3, <1>4, <1>5, <1>6, <1>7, <1>8, <1>9, <1>10, <1>11, <1>12, <1>13,
       <1>14, <1>15, <1>16, <1>17, <1>18, <1>19, <1>20, <1>21, <1>22, <1>23, <1>24,
    <1>25, <1>26, <1>27, <1>28, <1>29, <1>30, <1>31, <1>32, <1>33, <1>34, <1>35
     DEF Next, Client, Main, LoopThread, Environment, Stopped, loop_step

\* Every step of every thread keeps the invariant.
LEMMA StepInv == IInv /\ [Next]_vars => IInv'
BY TypeOKStep, InCallbackStep, RegisteredStep, ControlInvStep, ServicesInvStep DEF IInv

\* The strengthened invariant holds in every reachable state of the node.
THEOREM NodeInvariant == Spec => []IInv
<1> QED BY InitInv, StepInv, PTL DEF Spec

\* Type correctness; in particular input frames are sent of supported modes only.
THEOREM NodeTypeOK == Spec => []TypeOK
<1>1. IInv => TypeOK
  BY DEF IInv
<1> QED BY <1>1, NodeInvariant, PTL

\* However subscriber_callback and ctrl_msg_callback interleave, the bus settles
\* on the last control message.
THEOREM NodeControlSettled == Spec => []ControlSettled
<1>1. IInv => ControlSettled
  BY DEF IInv, ControlInv
<1> QED BY <1>1, NodeInvariant, PTL

\* The same for the requested axis state, clear_errors and the limits.
THEOREM NodeServicesSettled == Spec => []ServicesSettled
<1>1. IInv => ServicesSettled
  BY DEF IInv, ServicesInv
<1> QED BY <1>1, NodeInvariant, PTL

\* Before deinit() neither a freed nor a cleared context is ever dereferenced.
THEOREM NodeCrashOnlyInTeardown == Spec => []CrashOnlyInTeardown
<1>1. IInv => CrashOnlyInTeardown
  BY DEF IInv, Registered, CrashOnlyInTeardown
<1> QED BY <1>1, NodeInvariant, PTL
=============================================================================
