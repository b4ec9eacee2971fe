------------------------- MODULE NodePromise_proofs -------------------------
(***************************************************************************)
(* Proofs that ODriveCanNode implements Requests, and of what the node     *)
(* promises when one second suffices: fresh answers, and IDLE last.        *)
(*                                                                         *)
(* PInv adds two parts to the invariant of ODriveCanNode_proofs; again one *)
(* lemma per part, one step per action.                                    *)
(***************************************************************************)
EXTENDS ODriveCanNode_proofs

\* Nothing has been asked, and nothing sent.
LEMMA InitPInv == Init => PInv
<1> SUFFICES ASSUME Init PROVE PInv
  OBVIOUS
<1>1. OrderInv
  BY DEF Init, OrderInv, NoMessage, NoRequest
<1>2. InTimeInv
  BY DEF Init, InTimeInv, Served, NoRequest, Teardown
<1> QED BY <1>1, <1>2, InitInv DEF PInv

\* Each frame is built from what is stored, or from the copy of it.
LEMMA OrderInvStep == PInv /\ [Next]_vars => OrderInv'
<1> SUFFICES ASSUME PInv, [Next]_vars PROVE OrderInv'
  OBVIOUS
<1> USE NodeAssumption DEF evars, stored, locals, service, socket, bus, PInv, IInv, TypeOK,
    Messages, Requests, Frames, OrderInv
<1>1. CASE subscriber_callback
  BY <1>1 DEF subscriber_callback, Loop!set
<1>2. CASE service_store
  BY <1>2 DEF service_store
<1>3. CASE service_set
  BY <1>3 DEF service_set, Loop!set
<1>4. CASE one_second_passes
  BY <1>4 DEF one_second_passes
<1>5. CASE service_check
  BY <1>5 DEF service_check
<1>6. CASE spurious_wakeup
  BY <1>6 DEF spurious_wakeup
<1>7. CASE service_clear_errors_callback
  BY <1>7 DEF service_clear_errors_callback, Loop!set
<1>8. CASE set_limits_store
  BY <1>8 DEF set_limits_store
<1>9. CASE set_limits_set
  BY <1>9 DEF set_limits_set, Loop!set
<1>10. CASE spin_returns
  <2>1. sent' = [sent EXCEPT !["axis"] = Idle] \/ sent' = sent
    BY <1>10 DEF spin_returns, send_can_frame
  <2>2. UNCHANGED <<ctrl_msg_, axis_state_, limits_, clears, axis_state>>
    BY <1>10 DEF spin_returns
  <2> QED BY <2>1, <2>2 DEF Idle
<1>11. CASE deinit_event("sub", "deinit_sub", "deinit_srv")
  BY <1>11 DEF deinit_event, Loop!deregister_event_racing, Loop!deregister_event,
       Loop!drop_event
<1>12. CASE deinit_event("srv", "deinit_srv", "deinit_can")
  BY <1>12 DEF deinit_event, Loop!deregister_event_racing, Loop!deregister_event,
       Loop!drop_event
<1>13. CASE deinit_can
  BY <1>13 DEF deinit_can, socket_deregister, Loop!deregister_event_racing,
       Loop!deregister_event_again, Loop!deregister_event, Loop!drop_event
<1>14. CASE main_returns
  BY <1>14 DEF main_returns
<1>15. CASE loop_step /\ Loop!epoll_wait
  BY <1>15 DEF loop_step, Loop!epoll_wait, Loop!Ready
<1>16. CASE loop_step /\ \E e \in NodeEvent : Loop!fetch(e)
  BY <1>16 DEF loop_step, Loop!fetch
<1>17. CASE loop_interrupted
  BY <1>17 DEF loop_interrupted, Loop!loop_returns
<1>18. CASE dispatch
  BY <1>18 DEF dispatch, Loop!invoke, Loop!invoke_live, Entry
<1>19. CASE ctl_read
  BY <1>19 DEF ctl_read, at, goto
<1>20. CASE ctl_mode
  BY <1>20 DEF ctl_mode, at, goto, return, Loop!callback_returns, send_can_frame
<1>21. CASE ctl_input
  BY <1>21 DEF ctl_input, at, return, Loop!callback_returns, send_can_frame
<1>22. CASE st_read
  BY <1>22 DEF st_read, at, goto
<1>23. CASE st_clear
  BY <1>23 DEF st_clear, at, goto, send_can_frame
<1>24. CASE st_send
  BY <1>24 DEF st_send, at, return, Loop!callback_returns, send_can_frame
<1>25. CASE request_clear_errors_callback
  BY <1>25 DEF request_clear_errors_callback, at, return, Loop!callback_returns,
       send_can_frame
<1>26. CASE request_set_limits_callback
  BY <1>26 DEF request_set_limits_callback, at, return, Loop!callback_returns,
       send_can_frame
<1>27. CASE frame_arrives
  BY <1>27 DEF frame_arrives, Loop!set
<1>28. CASE \E r \in Results : recv_heartbeat(r)
  BY <1>28 DEF recv_heartbeat, at
<1>29. CASE socket_drained
  BY <1>29 DEF socket_drained, at, Loop!DrainSocket
<1>30. CASE socket_error
  BY <1>30 DEF socket_error, at, socket_deregister, Loop!deregister_event_racing,
       Loop!deregister_event_again, Loop!deregister_event, Loop!drop_event
<1>31. CASE socket_closed
  BY <1>31 DEF socket_closed, at, return, Loop!callback_returns
<1>32. CASE UNCHANGED vars
  BY <1>32 DEF vars
<1>33. CASE socket_return
  BY <1>33 DEF socket_return, at, return, Loop!callback_returns
<1>34. CASE deinit_can_close \/ deinit_can_break
  BY <1>34 DEF deinit_can_close, deinit_can_break
<1>35. CASE socket_close
  BY <1>35 DEF socket_close, at, goto
<1>36. QED
  BY <1>1, <1>2, <1>3, <1>4, <1>5, <1>6, <1>7, <1>8, <1>9, <1>10, <1>11, <1>12, <1>13,
       <1>14, <1>15, <1>16, <1>17, <1>18, <1>19, <1>20, <1>21, <1>22, <1>23, <1>24,
       <1>25, <1>26, <1>27, <1>28, <1>29, <1>30, <1>31, <1>32, <1>33, <1>34, <1>35
     DEF Next, Client, Main, LoopThread, Environment, Stopped, loop_step

\* A service call returns only after its request is served; nothing asks later.
LEMMA InTimeInvStep == PInv /\ [Next]_vars => InTimeInv'
<1> SUFFICES ASSUME PInv, [Next]_vars PROVE InTimeInv'
  OBVIOUS
<1> USE NodeAssumption DEF evars, stored, locals, service, socket, bus, PInv, IInv, TypeOK,
    Loop!Types, NodeEvent, InCallback, EventOf, Registered, Teardown, ServicesInv,
    ServicesSettled, Served, Requests, Frames, Idle, InTime, InTimeInv
<1>1. CASE subscriber_callback
  BY <1>1 DEF subscriber_callback, Loop!set
<1>2. CASE service_store
  BY <1>2 DEF service_store
<1>3. CASE service_set
  BY <1>3 DEF service_set, Loop!set
<1>4. CASE one_second_passes
  BY <1>4 DEF one_second_passes
<1>5. CASE service_check
  BY <1>5 DEF service_check, complete
<1>6. CASE spurious_wakeup
  BY <1>6 DEF spurious_wakeup
<1>7. CASE service_clear_errors_callback
  BY <1>7 DEF service_clear_errors_callback, Loop!set
<1>8. CASE set_limits_store
  BY <1>8 DEF set_limits_store
<1>9. CASE set_limits_set
  BY <1>9 DEF set_limits_set, Loop!set
<1>10. CASE spin_returns
  BY <1>10 DEF spin_returns, send_can_frame
<1>11. CASE deinit_event("sub", "deinit_sub", "deinit_srv")
  BY <1>11 DEF deinit_event, Loop!deregister_event_racing, Loop!deregister_event,
       Loop!drop_event
<1>12. CASE deinit_event("srv", "deinit_srv", "deinit_can")
  BY <1>12 DEF deinit_event, Loop!deregister_event_racing, Loop!deregister_event,
       Loop!drop_event
<1>13. CASE deinit_can
  BY <1>13 DEF deinit_can, socket_deregister, Loop!deregister_event_racing,
       Loop!deregister_event_again, Loop!deregister_event, Loop!drop_event
<1>14. CASE main_returns
  BY <1>14 DEF main_returns
<1>15. CASE loop_step /\ Loop!epoll_wait
  BY <1>15 DEF loop_step, Loop!epoll_wait, Loop!Ready
<1>16. CASE loop_step /\ \E e \in NodeEvent : Loop!fetch(e)
  BY <1>16 DEF loop_step, Loop!fetch
<1>17. CASE loop_interrupted
  BY <1>17 DEF loop_interrupted, Loop!loop_returns
<1>18. CASE dispatch
  BY <1>18 DEF dispatch, Loop!invoke, Loop!invoke_live, Entry
<1>19. CASE ctl_read
  BY <1>19 DEF ctl_read, at, goto
<1>20. CASE ctl_mode
  BY <1>20 DEF ctl_mode, at, goto, return, Loop!callback_returns, send_can_frame
<1>21. CASE ctl_input
  BY <1>21 DEF ctl_input, at, return, Loop!callback_returns, send_can_frame
<1>22. CASE st_read
  BY <1>22 DEF st_read, at, goto
<1>23. CASE st_clear
  BY <1>23 DEF st_clear, at, goto, send_can_frame
<1>24. CASE st_send
  BY <1>24 DEF st_send, at, return, Loop!callback_returns, send_can_frame
<1>25. CASE request_clear_errors_callback
  BY <1>25 DEF request_clear_errors_callback, at, return, Loop!callback_returns,
       send_can_frame
<1>26. CASE request_set_limits_callback
  BY <1>26 DEF request_set_limits_callback, at, return, Loop!callback_returns,
       send_can_frame
<1>27. CASE frame_arrives
  BY <1>27 DEF frame_arrives, Loop!set
<1>28. CASE \E r \in Results : recv_heartbeat(r)
  BY <1>28 DEF recv_heartbeat, at
<1>29. CASE socket_drained
  BY <1>29 DEF socket_drained, at, Loop!DrainSocket
<1>30. CASE socket_error
  BY <1>30 DEF socket_error, at, socket_deregister, Loop!deregister_event_racing,
       Loop!deregister_event_again, Loop!deregister_event, Loop!drop_event
<1>31. CASE socket_closed
  BY <1>31 DEF socket_closed, at, return, Loop!callback_returns
<1>32. CASE UNCHANGED vars
  BY <1>32 DEF vars
<1>33. CASE socket_return
  BY <1>33 DEF socket_return, at, return, Loop!callback_returns
<1>34. CASE deinit_can_close \/ deinit_can_break
  BY <1>34 DEF deinit_can_close, deinit_can_break
<1>35. CASE socket_close
  BY <1>35 DEF socket_close, at, goto
<1>36. QED
  BY <1>1, <1>2, <1>3, <1>4, <1>5, <1>6, <1>7, <1>8, <1>9, <1>10, <1>11, <1>12, <1>13,
       <1>14, <1>15, <1>16, <1>17, <1>18, <1>19, <1>20, <1>21, <1>22, <1>23, <1>24,
       <1>25, <1>26, <1>27, <1>28, <1>29, <1>30, <1>31, <1>32, <1>33, <1>34, <1>35
     DEF Next, Client, Main, LoopThread, Environment, Stopped, loop_step

\* The three parts together hold in every reachable state.
THEOREM NodePInvariant == Spec => []PInv
<1>1. PInv /\ [Next]_vars => PInv'
  BY StepInv, OrderInvStep, InTimeInvStep DEF PInv
<1> QED BY InitPInv, <1>1, PTL DEF Spec

\* When one second suffices, the idle frame of a shutdown is the last axis state on
\* the bus, whatever was requested before.
THEOREM NodeIdleLast == ASSUME InTime PROVE Spec => []IdleLast
<1>1. PInv => IdleLast
  BY InTime DEF PInv, InTimeInv, IdleLast, Teardown
<1> QED BY <1>1, NodePInvariant, PTL

\* When one second suffices, request_axis_state answers from a heartbeat that was
\* received after the frame of its own request.
THEOREM NodeFreshResponse == ASSUME InTime PROVE Spec => []FreshResponse
<1>1. PInv => FreshResponse
  BY InTime DEF PInv, InTimeInv, FreshResponse
<1> QED BY <1>1, NodePInvariant, PTL

-----------------------------------------------------------------------------
(* The refinement.                                                         *)

\* Nothing has been asked, done or answered.
LEMMA PromiseInit == Init => Promise!Init
<1> SUFFICES ASSUME Init PROVE Promise!Init
  OBVIOUS
<1> QED
  BY DEF Init, Promise!Init, NoMessage, NoRequest, Alive, Down, Teardown, Serves

\* What clients see of the node, as the abstract specification names it.
Asked == [control |-> ctrl_msg_.id, axis |-> axis_state_.id, clear |-> clears,
          limits |-> limits_]
Done == [mode |-> sent.mode.id, input |-> sent.input.id, errors |-> sent.errors.id,
         axis |-> sent.axis.id, clear |-> sent.clear, limits |-> sent.limits]
Closing == ros \in Teardown

\* A step that clients do not see: it may only end the promise.
LEMMA QuietStep ==
  ASSUME UNCHANGED <<Asked, Done, response.id, Closing>>, Down => Down'
  PROVE  [Promise!Next]_Promise!avars
<1>1. CASE Down' = Down
  BY <1>1 DEF Promise!avars, Asked, Done, Closing
<1>2. CASE Down' # Down
  <2>1. Down' = TRUE
    BY <1>2 DEF Down
  <2>2. Promise!Fail
    BY <2>1 DEF Promise!Fail, Asked, Done, Closing
  <2> QED BY <2>2 DEF Promise!Next
<1> QED BY <1>1, <1>2

\* A client's request, of one of the four topics.
LEMMA AskStep ==
  ASSUME NEW t \in {"control", "axis", "clear", "limits"},
         Asked' = [Asked EXCEPT ![t] = @ + 1], ~Closing,
         UNCHANGED <<Done, response.id, Closing, Down>>
  PROVE  [Promise!Next]_Promise!avars
<1>1. Promise!Ask(t)
  BY DEF Promise!Ask, Asked, Done, Closing
<1> QED BY <1>1 DEF Promise!Next

\* A frame that is written carries a request not older than the last one carried.
LEMMA DoStep ==
  ASSUME NEW k \in DOMAIN Serves, NEW n \in Done[k] .. Asked[Serves[k]],
         Done' = [Done EXCEPT ![k] = n], InTime /\ k = "axis" => ~Closing,
         UNCHANGED <<Asked, response.id, Closing, Down>>
  PROVE  [Promise!Next]_Promise!avars
<1>1. Promise!Do(k)
  BY DEF Promise!Do, Asked, Done, Closing
<1> QED BY <1>1 DEF Promise!Next

\* Every step of the node is a step of the abstract specification, or unseen.
LEMMA PromiseStep == PInv /\ [Next]_vars => [Promise!Next]_Promise!avars
<1> SUFFICES ASSUME PInv, [Next]_vars PROVE [Promise!Next]_Promise!avars
  OBVIOUS
<1> USE NodeAssumption DEF evars, stored, locals, service, socket, bus, PInv, IInv,
     TypeOK,
    Loop!Types, NodeEvent, InCallback, EventOf, Teardown, Messages, Requests, Frames,
         OrderInv,
    Closing, Down, Alive, Asked, Done
<1>1. CASE subscriber_callback
  <2>1. Asked' = [Asked EXCEPT !["control"] = @ + 1]
    BY <1>1 DEF subscriber_callback, Loop!set
  <2> QED BY <1>1, <2>1, AskStep DEF subscriber_callback, Loop!set
<1>2. CASE service_store
  <2>1. Asked' = [Asked EXCEPT !["axis"] = @ + 1]
    BY <1>2 DEF service_store
  <2> QED BY <1>2, <2>1, AskStep DEF service_store
<1>3. CASE service_set
  BY <1>3, QuietStep DEF service_set, Loop!set
<1>4. CASE one_second_passes
  BY <1>4, QuietStep DEF one_second_passes
<1>5. CASE service_check
  <2>1. CASE ~complete
    BY <1>5, <2>1, QuietStep DEF service_check
  <2>2. CASE complete
    <3>1. InTime => sent.axis.id = axis_state_.id
      BY <1>5, <2>2 DEF service_check, complete, InTimeInv, InTime, ServicesInv,
           ServicesSettled, Served
    <3>2. Promise!Answer
      BY <1>5, <2>2, <3>1 DEF service_check, Promise!Answer, Serves
    <3> QED BY <3>2 DEF Promise!Next
  <2> QED BY <2>1, <2>2
<1>6. CASE spurious_wakeup
  BY <1>6, QuietStep DEF spurious_wakeup
<1>7. CASE service_clear_errors_callback
  <2>1. Asked' = [Asked EXCEPT !["clear"] = @ + 1]
    BY <1>7 DEF service_clear_errors_callback, Loop!set
  <2> QED BY <1>7, <2>1, AskStep DEF service_clear_errors_callback, Loop!set
<1>8. CASE set_limits_store
  <2>1. Asked' = [Asked EXCEPT !["limits"] = @ + 1]
    BY <1>8 DEF set_limits_store
  <2> QED BY <1>8, <2>1, AskStep DEF set_limits_store
<1>9. CASE set_limits_set
  BY <1>9, QuietStep DEF set_limits_set, Loop!set
<1>10. CASE spin_returns
  <2>1. Promise!Shutdown
    BY <1>10 DEF spin_returns, send_can_frame, Promise!Shutdown, Idle
  <2> QED BY <2>1 DEF Promise!Next
<1>11. CASE deinit_event("sub", "deinit_sub", "deinit_srv")
  BY <1>11, QuietStep DEF deinit_event, Loop!deregister_event_racing,
       Loop!deregister_event,
       Loop!drop_event
<1>12. CASE deinit_event("srv", "deinit_srv", "deinit_can")
  BY <1>12, QuietStep DEF deinit_event, Loop!deregister_event_racing,
       Loop!deregister_event,
       Loop!drop_event
<1>13. CASE deinit_can
  BY <1>13, SocketDeregisterEffect, QuietStep DEF deinit_can
<1>14. CASE main_returns
  BY <1>14, QuietStep DEF main_returns
<1>15. CASE loop_step /\ Loop!epoll_wait
  BY <1>15, QuietStep DEF loop_step, Loop!epoll_wait, Loop!Ready
<1>16. CASE loop_step /\ \E e \in NodeEvent : Loop!fetch(e)
  BY <1>16, QuietStep DEF loop_step, Loop!fetch
<1>17. CASE loop_interrupted
  BY <1>17, QuietStep DEF loop_interrupted, Loop!loop_returns
<1>18. CASE dispatch
  BY <1>18, QuietStep DEF dispatch, Loop!invoke, Loop!invoke_live, Entry
<1>19. CASE ctl_read
  BY <1>19, QuietStep DEF ctl_read, at, goto
<1>20. CASE ctl_mode
  <2>1. CASE sent' = sent
    BY <1>20, <2>1, QuietStep DEF ctl_mode, goto, at, return, Loop!callback_returns,
         send_can_frame
  <2>2. CASE sent' # sent
    <3>1. Done' = [Done EXCEPT !["mode"] = ctrl_msg_.id]
      BY <1>20, <2>2 DEF ctl_mode, goto, at, return, Loop!callback_returns, send_can_frame
    <3>2. ctrl_msg_.id \in Done["mode"] .. Asked[Serves["mode"]]
      BY <1>20 DEF ctl_mode, goto, at, return, Loop!callback_returns, send_can_frame,
           Serves
    <3>3. UNCHANGED <<Asked, response.id, Closing, Down>>
      BY <1>20 DEF ctl_mode, goto, at, return, Loop!callback_returns, send_can_frame
    <3> QED BY <3>1, <3>2, <3>3, DoStep DEF Serves
  <2> QED BY <2>1, <2>2
<1>21. CASE ctl_input
  <2>1. CASE sent' = sent
    BY <1>21, <2>1, QuietStep DEF ctl_input, at, return, Loop!callback_returns,
         send_can_frame
  <2>2. CASE sent' # sent
    <3>1. Done' = [Done EXCEPT !["input"] = ctrl_msg_.id]
      BY <1>21, <2>2 DEF ctl_input, at, return, Loop!callback_returns, send_can_frame
    <3>2. ctrl_msg_.id \in Done["input"] .. Asked[Serves["input"]]
      BY <1>21 DEF ctl_input, at, return, Loop!callback_returns, send_can_frame, Serves
    <3>3. UNCHANGED <<Asked, response.id, Closing, Down>>
      BY <1>21 DEF ctl_input, at, return, Loop!callback_returns, send_can_frame
    <3> QED BY <3>1, <3>2, <3>3, DoStep DEF Serves
  <2> QED BY <2>1, <2>2
<1>22. CASE st_read
  BY <1>22, QuietStep DEF st_read, at, goto
<1>23. CASE st_clear
  <2>1. CASE sent' = sent
    BY <1>23, <2>1, QuietStep DEF st_clear, goto, at, send_can_frame
  <2>2. CASE sent' # sent
    <3>1. Done' = [Done EXCEPT !["errors"] = axis_state.id]
      BY <1>23, <2>2 DEF st_clear, goto, at, send_can_frame
    <3>2. axis_state.id \in Done["errors"] .. Asked[Serves["errors"]]
      BY <1>23 DEF st_clear, goto, at, send_can_frame, Serves
    <3>3. UNCHANGED <<Asked, response.id, Closing, Down>>
      BY <1>23 DEF st_clear, goto, at, send_can_frame
    <3> QED BY <3>1, <3>2, <3>3, DoStep DEF Serves
  <2> QED BY <2>1, <2>2
<1>24. CASE st_send
  <2>1. CASE sent' = sent
    BY <1>24, <2>1, QuietStep DEF st_send, at, return, Loop!callback_returns,
         send_can_frame
  <2>2. CASE sent' # sent
    <3>1. Done' = [Done EXCEPT !["axis"] = axis_state.id]
      BY <1>24, <2>2 DEF st_send, at, return, Loop!callback_returns, send_can_frame
    <3>2. axis_state.id \in Done["axis"] .. Asked[Serves["axis"]]
      BY <1>24 DEF st_send, at, return, Loop!callback_returns, send_can_frame, Serves
    <3>3. UNCHANGED <<Asked, response.id, Closing, Down>>
      BY <1>24 DEF st_send, at, return, Loop!callback_returns, send_can_frame
    <3>4. InTime => ~Closing
      BY <1>24 DEF st_send, at, InTimeInv, Served
    <3> QED BY <3>1, <3>2, <3>3, <3>4, DoStep DEF Serves
  <2> QED BY <2>1, <2>2
<1>25. CASE request_clear_errors_callback
  <2>1. CASE sent' = sent
    BY <1>25, <2>1, QuietStep DEF request_clear_errors_callback, at, return,
         Loop!callback_returns, send_can_frame
  <2>2. CASE sent' # sent
    <3>1. Done' = [Done EXCEPT !["clear"] = clears]
      BY <1>25, <2>2 DEF request_clear_errors_callback, at, return,
           Loop!callback_returns, send_can_frame
    <3>2. clears \in Done["clear"] .. Asked[Serves["clear"]]
      BY <1>25 DEF request_clear_errors_callback, at, return, Loop!callback_returns,
           send_can_frame, Serves
    <3>3. UNCHANGED <<Asked, response.id, Closing, Down>>
      BY <1>25 DEF request_clear_errors_callback, at, return, Loop!callback_returns,
           send_can_frame
    <3> QED BY <3>1, <3>2, <3>3, DoStep DEF Serves
  <2> QED BY <2>1, <2>2
<1>26. CASE request_set_limits_callback
  <2>1. CASE sent' = sent
    BY <1>26, <2>1, QuietStep DEF request_set_limits_callback, at, return,
         Loop!callback_returns, send_can_frame
  <2>2. CASE sent' # sent
    <3>1. Done' = [Done EXCEPT !["limits"] = limits_]
      BY <1>26, <2>2 DEF request_set_limits_callback, at, return,
           Loop!callback_returns, send_can_frame
    <3>2. limits_ \in Done["limits"] .. Asked[Serves["limits"]]
      BY <1>26 DEF request_set_limits_callback, at, return, Loop!callback_returns,
           send_can_frame, Serves
    <3>3. UNCHANGED <<Asked, response.id, Closing, Down>>
      BY <1>26 DEF request_set_limits_callback, at, return, Loop!callback_returns,
           send_can_frame
    <3> QED BY <3>1, <3>2, <3>3, DoStep DEF Serves
  <2> QED BY <2>1, <2>2
<1>27. CASE frame_arrives
  BY <1>27, QuietStep DEF frame_arrives, Loop!set
<1>28. CASE \E r \in Results : recv_heartbeat(r)
  BY <1>28, QuietStep DEF recv_heartbeat, at
<1>29. CASE socket_drained
  BY <1>29, QuietStep DEF socket_drained, at, Loop!DrainSocket
<1>30. CASE socket_error
  BY <1>30, SocketDeregisterEffect, QuietStep DEF socket_error, at
<1>31. CASE socket_closed
  BY <1>31, QuietStep DEF socket_closed, at, return, Loop!callback_returns
<1>32. CASE UNCHANGED vars
  BY <1>32, QuietStep DEF vars
<1>33. CASE socket_return
  BY <1>33, QuietStep DEF socket_return, at, return, Loop!callback_returns
<1>34. CASE deinit_can_close \/ deinit_can_break
  BY <1>34, QuietStep DEF deinit_can_close, deinit_can_break
<1>35. CASE socket_close
  BY <1>35, QuietStep DEF socket_close, at, goto
<1>36. QED
  BY <1>1, <1>2, <1>3, <1>4, <1>5, <1>6, <1>7, <1>8, <1>9, <1>10, <1>11, <1>12, <1>13,
       <1>14, <1>15, <1>16, <1>17, <1>18, <1>19, <1>20, <1>21, <1>22, <1>23, <1>24,
       <1>25, <1>26, <1>27, <1>28, <1>29, <1>30, <1>31, <1>32, <1>33, <1>34, <1>35
     DEF Next, Client, Main, LoopThread, Environment, Stopped, loop_step

\* The node implements what the abstract specification promises, with and without
\* faults: requests are numbered, never invented, never undone but by the shutdown,
\* and, when one second suffices, answered only when done.
THEOREM NodeImplements == Spec => ImplementsRequests
<1>1. PInv /\ [Next]_vars => [Promise!Next]_Promise!avars
  BY PromiseStep
<1> QED BY PromiseInit, <1>1, NodePInvariant, PTL DEF Spec, ImplementsRequests, Promise!SafeSpec
=============================================================================
