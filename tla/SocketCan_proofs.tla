-------------------------- MODULE SocketCan_proofs --------------------------
(***************************************************************************)
(* Proofs about SocketCan, for any number of descriptors and sessions:     *)
(* the invariant IInv, one lemma per action, and under each one step per   *)
(* part that the action can disturb.                                       *)
(***************************************************************************)
EXTENDS SocketCan, TLAPS

\* Sessions are numbered from 1, descriptors from 0.
LEMMA Numbers ==
  /\ 1 \in Session /\ Session \subseteq Nat \ {0}
  /\ \A e \in Session : e <= MaxSessions /\ 1 .. e \subseteq Session
  /\ 0 \in Fd /\ -1 \notin Fd /\ Fd \subseteq Nat
  /\ MaxSessions \in Nat
BY SocketAssumption DEF Session, Fd

\* Nothing is open, nothing has been called.
LEMMA InitInv == Init => IInv
<1> SUFFICES ASSUME Init PROVE IInv
  OBVIOUS
<1> USE SocketAssumption, Numbers DEF Init, Loop!Init
<1>1. TypeOK
  <2>1. Loop!Types /\ n_events_ <= MaxSessions
    BY DEF Loop!Types
  <2>2. table \in [Fd -> {"free", "can", "other"}]
    OBVIOUS
  <2>3. pc \in [main : {"down", "up", "deregister", "close", "break", "over"},
               loop : {"none", "read", "check", "deregister", "close", "break"}]
    OBVIOUS
  <2> QED  BY <2>1, <2>2, <2>3 DEF TypeOK, Thread
<1>2. SessionsInv
  <2>1. \A e \in Session : ctx[e] = "new" /\ e > 0
    OBVIOUS
  <2> QED  BY <2>1 DEF SessionsInv
<1>3. ThreadsInv
  BY DEF ThreadsInv, InDeinit
<1>4. SocketInv
  BY DEF SocketInv, OneSocket, ContextFollowsSocket, Connected, Closes
<1>5. ForeignInv
  BY DEF ForeignInv, ForeignOnlyAfterDeinit
<1> QED  BY <1>1, <1>2, <1>3, <1>4, <1>5 DEF IInv

-----------------------------------------------------------------------------
(* init.                                                                   *)

\* A failure: whatever socket_id_ is now, no socket is open.
LEMMA InitFails ==
  ASSUME IInv, init, after_failure, socket_id_' \in Fd \cup {-1},
         UNCHANGED <<evars, table, socket_evt_id_>>
  PROVE  IInv'
<1> USE DEF IInv, init, evars, after_failure, goto
<1>1. /\ pc.main = "down" /\ pc'.main = "over" /\ pc'.loop = pc.loop /\ pc.loop = "none"
      /\ closers' = {} /\ foreign' = {} /\ ~Connected
  BY DEF TypeOK, ThreadsInv, ForeignInv, SocketInv, OneSocket
<1>2. TypeOK'
  BY <1>1 DEF TypeOK, Loop!Types
<1>3. SessionsInv'
  BY <1>1 DEF SessionsInv
<1>4. ThreadsInv'
  BY <1>1 DEF ThreadsInv, InDeinit
<1>5. SocketInv'
  <2>1. \A fd \in Fd : table'[fd] # "can"
    BY <1>1 DEF SocketInv, OneSocket, Connected
  <2>2. ~Connected'
    BY <2>1 DEF Connected
  <2> QED
    BY <1>1, <2>1, <2>2 DEF SocketInv, OneSocket, ContextFollowsSocket, Closes
<1>6. ForeignInv'
  BY <1>1 DEF ForeignInv, ForeignOnlyAfterDeinit
<1> QED  BY <1>2, <1>3, <1>4, <1>5, <1>6

\* A success: the first session, or one more with broken_ still set.
LEMMA InitSucceeds ==
  ASSUME IInv, init, NEW fd \in Lowest, init_succeeds(fd), goto("main", "up")
  PROVE  IInv'
<1> USE DEF IInv, init, goto
<1>1. /\ pc.main = "down" /\ pc'.main = "up" /\ pc'.loop = "none" /\ pc.loop = "none"
      /\ closers' = {} /\ foreign' = {} /\ ~Connected /\ fd \in Fd /\ table[fd] = "free"
      /\ UNCHANGED <<program, broken_>>
  BY DEF TypeOK, ThreadsInv, ForeignInv, SocketInv, OneSocket, Lowest
<1>2. PICK e \in Session : /\ \A f \in 1 .. e - 1 : ctx[f] # "new"
                           /\ Loop!register_event(e) /\ socket_evt_id_' = e
  BY DEF init_succeeds
<1>3. /\ ctx[e] = "new" /\ ctx' = [ctx EXCEPT ![e] = "live"] /\ n_events_' = n_events_ + 1
      /\ UNCHANGED <<ready, triggered, nulled, handler, loop>>
  BY <1>2 DEF Loop!register_event
<1>4. e = socket_evt_id_ + 1
  <2>1. e > socket_evt_id_ /\ socket_evt_id_ \in Nat /\ e \in Nat
    BY <1>3, Numbers DEF SessionsInv, TypeOK
  <2>2. ASSUME e > socket_evt_id_ + 1 PROVE FALSE
    <3>1. e - 1 \in 1 .. e - 1 /\ e - 1 \in Session /\ e - 1 > socket_evt_id_
      BY <2>1, <2>2, Numbers
    <3> QED  BY <3>1, <1>2 DEF SessionsInv
  <2> QED  BY <2>1, <2>2
<1>5. socket_id_' = fd /\ table' = [table EXCEPT ![fd] = "can"]
  BY DEF init_succeeds
<1>6. /\ ctx \in [Session -> {"new", "live", "freed"}] /\ table \in [Fd -> {"free", "can", "other"}]
      /\ socket_evt_id_ \in Nat /\ n_events_ = socket_evt_id_
  BY Numbers DEF TypeOK, Loop!Types, SessionsInv
<1>7. TypeOK'
  BY <1>1, <1>2, <1>3, <1>4, <1>5, <1>6, Numbers DEF TypeOK, Loop!Types
<1>8. SessionsInv'
  BY <1>1, <1>2, <1>3, <1>4, <1>6, Numbers DEF SessionsInv
<1>9. ThreadsInv'
  BY <1>1, <1>2, <1>3, Numbers DEF ThreadsInv, InDeinit
<1>10. SocketInv'
  <2>1. \A d \in Fd : table'[d] = "can" <=> d = fd
    BY <1>1, <1>5, <1>6 DEF SocketInv, OneSocket, Connected
  <2>2. Connected'
    BY <1>1, <1>5, <2>1 DEF Connected
  <2>3. OneSocket'
    BY <1>1, <1>2, <1>5, <2>1, <2>2, Numbers DEF OneSocket
  <2>4. ContextFollowsSocket'
    BY <1>1, <1>2, <1>3, <1>6, <2>2 DEF ContextFollowsSocket, SocketInv
  <2> QED  BY <1>1, <2>3, <2>4 DEF SocketInv, Closes
<1>11. ForeignInv'
  BY <1>1 DEF ForeignInv, ForeignOnlyAfterDeinit
<1> QED  BY <1>7, <1>8, <1>9, <1>10, <1>11

\* The two kinds of outcome of init.
LEMMA InitStep == ASSUME IInv, init PROVE IInv'
<1>1. CASE no_socket /\ after_failure
  BY <1>1, InitFails DEF no_socket
<1>2. ASSUME NEW fd \in Lowest, init_fails(fd), after_failure PROVE IInv'
  BY <1>2, InitFails, Numbers DEF init_fails, Lowest
<1>3. ASSUME NEW fd \in Lowest, init_succeeds(fd), goto("main", "up") PROVE IInv'
  BY <1>3, InitSucceeds
<1> QED  BY <1>1, <1>2, <1>3 DEF init

-----------------------------------------------------------------------------
(* Steps that touch nothing but conditions, descriptors of others, and the *)
(* history: they keep all that the invariant says of the socket.           *)

\* Using the socket is using one's own unless somebody has called deinit.
LEMMA Touching ==
  ASSUME IInv, NEW how \in {"read", "write"}, touch(how), closers' = closers,
         UNCHANGED <<program, pc.main>>,
         program = "plugin" => pc.main = "up", pc.main # "down",
         closers = {} => pc.main = "up"
  PROVE  /\ ForeignInv'
         /\ foreign' \subseteq {"read", "write", "close"}
<1> USE DEF IInv, touch
<1>1. foreign' \subseteq {"read", "write", "close"} /\ ("close" \in foreign' => "close" \in foreign)
  BY DEF TypeOK
<1>2. closers = {} => foreign' = foreign
  BY DEF SocketInv, OneSocket, Connected
<1>3. program = "plugin" => closers = {}
  BY DEF ThreadsInv, TypeOK, Thread
<1>4. program \in {"plugin", "node"}
  BY SocketAssumption DEF TypeOK
<1> QED  BY <1>1, <1>2, <1>3, <1>4 DEF ForeignInv, ForeignOnlyAfterDeinit

\* What a step that leaves program, pc, table, fields and contexts alone keeps.
LEMMA SocketKept ==
  ASSUME IInv, UNCHANGED <<program, table, fields, pc, closers, ctx, n_events_>>
  PROVE  SessionsInv' /\ SocketInv'
<1> USE DEF IInv, fields
<1>1. SessionsInv'
  BY DEF SessionsInv
<1>2. SocketInv'
  BY DEF SocketInv, OneSocket, ContextFollowsSocket, Closes, Connected
<1> QED  BY <1>1, <1>2

LEMMA SendStep == ASSUME IInv, send_can_frame PROVE IInv'
<1> USE DEF send_can_frame, evars, fields
<1>1. SessionsInv' /\ SocketInv'
  BY SocketKept
<1>2. pc.main # "down" /\ (program = "plugin" => pc.main = "up")
  BY DEF IInv, ThreadsInv, TypeOK, SocketAssumption
<1>3. closers = {} => pc.main = "up"
  BY <1>2 DEF IInv, ThreadsInv, InDeinit, TypeOK, Alive
<1>4. ForeignInv' /\ foreign' \subseteq {"read", "write", "close"}
  BY <1>2, <1>3, Touching
<1>5. TypeOK'
  BY <1>4 DEF IInv, TypeOK, Loop!Types, take_error
<1>6. ThreadsInv'
  BY DEF IInv, ThreadsInv, InDeinit
<1> QED  BY <1>1, <1>4, <1>5, <1>6 DEF IInv

LEMMA ReadStep == ASSUME IInv, read_nonblocking PROVE IInv'
<1> USE DEF read_nonblocking, evars, fields
<1>1. SessionsInv' /\ SocketInv'
  BY SocketKept
<1>2. ForeignInv' /\ foreign' \subseteq {"read", "write", "close"}
  BY Touching
<1>3. TypeOK'
  BY <1>2 DEF IInv, TypeOK, Loop!Types, take_error
<1>4. ThreadsInv'
  BY DEF IInv, ThreadsInv, InDeinit
<1> QED  BY <1>1, <1>2, <1>3, <1>4 DEF IInv

\* A new condition of the socket.
LEMMA ConditionStep == ASSUME IInv, condition PROVE IInv'
<1> USE DEF condition, history, fields, Loop!set
<1>1. SessionsInv' /\ SocketInv'
  BY SocketKept
<1>2. TypeOK'
  <2>1. socket_evt_id_ \in Session
    BY DEF IInv, SocketInv, OneSocket, Connected, TypeOK
  <2> QED  BY <2>1 DEF IInv, TypeOK, Loop!Types
<1>3. ThreadsInv' /\ ForeignInv'
  BY DEF IInv, ThreadsInv, ForeignInv, ForeignOnlyAfterDeinit, InDeinit
<1> QED  BY <1>1, <1>2, <1>3 DEF IInv

\* Others take and give back numbers, never ours.
LEMMA OthersStep == ASSUME IInv, others_open \/ others_close PROVE IInv'
<1>1. UNCHANGED <<evars, program, fields, pc, pending, mask, history>>
  BY DEF others_open, others_close
<1>2. /\ table' \in [Fd -> {"free", "can", "other"}]
      /\ \A fd \in Fd : table'[fd] = "can" <=> table[fd] = "can"
  <2>1. table \in [Fd -> {"free", "can", "other"}]
    BY DEF IInv, TypeOK
  <2>2. CASE others_open
    BY <2>1, <2>2 DEF others_open, Lowest
  <2>3. CASE others_close
    BY <2>1, <2>3 DEF others_close
  <2> QED  BY <2>2, <2>3
<1> USE <1>1 DEF evars, fields, history
<1>3. Connected' = Connected
  BY <1>2 DEF Connected
<1>4. TypeOK' /\ SessionsInv'
  BY <1>2 DEF IInv, TypeOK, Loop!Types, SessionsInv
<1>5. ThreadsInv' /\ ForeignInv'
  BY DEF IInv, ThreadsInv, ForeignInv, ForeignOnlyAfterDeinit, InDeinit
<1>6. SocketInv'
  BY <1>2, <1>3 DEF IInv, SocketInv, OneSocket, ContextFollowsSocket, Closes
<1> QED  BY <1>4, <1>5, <1>6 DEF IInv

-----------------------------------------------------------------------------
(* The loop thread outside deinit.                                         *)

LEMMA StartStep == ASSUME IInv, start_thread PROVE IInv'
<1> USE DEF start_thread, Loop!start_thread, history, fields, kernel
<1>1. SessionsInv' /\ SocketInv'
  BY SocketKept
<1>2. TypeOK' /\ ForeignInv'
  BY DEF IInv, TypeOK, Loop!Types, ForeignInv, ForeignOnlyAfterDeinit
<1>3. ThreadsInv'
  BY DEF IInv, ThreadsInv, InDeinit
<1> QED  BY <1>1, <1>2, <1>3 DEF IInv

\* Waiting, loading an entry, and giving up.
LEMMA LoopStep == ASSUME IInv, loop_step \/ loop_interrupted PROVE IInv'
<1> USE DEF history, fields, kernel
<1> DEFINE Effect ==
      /\ UNCHANGED <<program, kernel, fields, pc, history, ctx, ready, n_events_>>
      /\ loop = "idle" /\ loop' \in {"idle", "crashed", "returned", "fetched"}
      /\ mask' \in {mask, pending}
      /\ triggered' \subseteq triggered \cup ready /\ nulled' \subseteq nulled
      /\ handler' \in Session \cup {handler}
      /\ loop' = "fetched" => handler' \in Session
<1>1. Effect
  <2>1. CASE loop_step /\ Loop!epoll_wait /\ mask' = pending
    BY <2>1 DEF loop_step, Loop!epoll_wait, Loop!Ready
  <2>2. ASSUME loop_step, NEW e \in Session, Loop!fetch(e), UNCHANGED mask PROVE Effect
    BY <2>2 DEF loop_step, Loop!fetch
  <2>3. CASE loop_interrupted
    BY <2>3 DEF loop_interrupted, Loop!loop_returns
  <2> QED  BY <2>1, <2>2, <2>3 DEF loop_step
<1>2. SessionsInv' /\ SocketInv'
  BY <1>1, SocketKept
<1>3. TypeOK' /\ ForeignInv'
  BY <1>1 DEF IInv, TypeOK, Loop!Types, ForeignInv, ForeignOnlyAfterDeinit
<1>4. ThreadsInv'
  BY <1>1 DEF IInv, ThreadsInv, InDeinit
<1> QED  BY <1>2, <1>3, <1>4 DEF IInv

\* A callback is entered only through the node's only context, perhaps after main has
\* freed it, but not after the loop thread has been through deinit.
LEMMA DispatchStep == ASSUME IInv, BatchInv, dispatch PROVE IInv'
<1> USE DEF dispatch, history, fields, kernel
<1>1. /\ loop = "fetched" /\ loop' \in {"callback", "crashed", "idle"}
      /\ loop' = "callback" => handler \in Session /\ ctx[handler] # "new"
      /\ handler' \in {handler, 0} /\ ready' \subseteq ready
      /\ UNCHANGED <<ctx, triggered, nulled, n_events_>>
  <2>1. handler \in Session /\ ctx[handler] # "new"
    BY DEF Loop!invoke, IInv, ThreadsInv, BatchInv
  <2> QED  BY <2>1 DEF Loop!invoke, Loop!invoke_live
<1>2. /\ pc'.main = pc.main
      /\ pc'.loop \in {"none", "read", "check"}
      /\ pc'.loop # "none" => loop' = "callback"
      /\ pc' \in [main : {"down", "up", "deregister", "close", "break", "over"},
                  loop : {"none", "read", "check", "deregister", "close", "break"}]
  BY DEF goto, IInv, TypeOK
<1>3. pc.loop = "none" /\ program = "node" /\ pc.main # "down"
  BY <1>1, SocketAssumption DEF IInv, ThreadsInv, TypeOK
<1>4. ASSUME pc'.loop # "none"
      PROVE  handler = 1 /\ socket_evt_id_ = 1
  <2>1. handler \in Session /\ ctx[handler] # "new"
    BY <1>1, <1>2, <1>4 DEF IInv, ThreadsInv
  <2>2. handler <= socket_evt_id_ /\ socket_evt_id_ <= 1
    BY <1>3, <2>1, Numbers DEF IInv, SessionsInv, TypeOK
  <2>3. handler = 1 /\ socket_evt_id_ = 1
    BY <2>1, <2>2, Numbers DEF IInv, TypeOK
  <2> QED  BY <2>1, <2>3
<1>5. TypeOK'
  BY <1>1, <1>2 DEF IInv, TypeOK, Loop!Types
<1>6. SessionsInv' /\ ForeignInv'
  BY <1>1, <1>2 DEF IInv, SessionsInv, ForeignInv, ForeignOnlyAfterDeinit
<1>7. ThreadsInv'
  BY <1>1, <1>2, <1>3, <1>4 DEF IInv, ThreadsInv, BatchInv, InDeinit
<1>8. SocketInv'
  BY <1>1, <1>2 DEF IInv, SocketInv, OneSocket, ContextFollowsSocket, Closes, Connected
<1> QED  BY <1>5, <1>6, <1>7, <1>8 DEF IInv

\* Draining the socket.
LEMMA DrainStep == ASSUME IInv, on_socket_event_read PROVE IInv'
<1> USE DEF on_socket_event_read, evars, fields
<1>1. /\ pc.loop = "read" /\ pc'.main = pc.main /\ pc'.loop \in {"read", "check"}
      /\ pc' \in [main : {"down", "up", "deregister", "close", "break", "over"},
                  loop : {"none", "read", "check", "deregister", "close", "break"}]
      /\ pending' \subseteq pending
      /\ ready' \subseteq ready /\ UNCHANGED <<ctx, triggered, nulled, handler, loop, n_events_>>
  BY DEF goto, IInv, TypeOK, Loop!DrainSocket
<1>2. program = "node" /\ pc.main # "down" /\ pc.main # "over"
  BY <1>1, SocketAssumption DEF IInv, ThreadsInv, TypeOK, Alive
<1>3. closers = {} => pc.main = "up"
  BY <1>2 DEF IInv, ThreadsInv, InDeinit, TypeOK
<1>4. ForeignInv' /\ foreign' \subseteq {"read", "write", "close"}
  BY <1>1, <1>2, <1>3, Touching
<1>5. TypeOK'
  BY <1>1, <1>4 DEF IInv, TypeOK, Loop!Types, take_error
<1>6. SessionsInv' /\ ThreadsInv'
  BY <1>1 DEF IInv, SessionsInv, ThreadsInv, InDeinit
<1>7. SocketInv'
  BY <1>1 DEF IInv, SocketInv, OneSocket, ContextFollowsSocket, Closes, Connected
<1> QED  BY <1>4, <1>5, <1>6, <1>7 DEF IInv

\* After the drain: the end of the callback, or deinit for the first time.
LEMMA CheckStep == ASSUME IInv, on_socket_event_check PROVE IInv'
<1> USE DEF on_socket_event_check, fields, kernel
<1>1. pc.loop = "check" /\ program = "node" /\ pc.main # "down" /\ pc.main # "over"
  BY SocketAssumption DEF IInv, ThreadsInv, TypeOK, Alive
<1>2. "loop" \notin closers /\ loop \in {"callback", "crashed"} /\ socket_evt_id_ = 1
  BY <1>1 DEF IInv, ThreadsInv
<1>3. CASE deinit_called("loop") /\ UNCHANGED evars
  <2>1. /\ pc'.main = pc.main /\ pc'.loop = "deregister" /\ closers' = closers \cup {"loop"}
        /\ pc' \in [main : {"down", "up", "deregister", "close", "break", "over"},
                    loop : {"none", "read", "check", "deregister", "close", "break"}]
    BY <1>3 DEF deinit_called, goto, IInv, TypeOK
  <2>2. closers' = {"loop"} => Connected
    BY <1>1, <1>2, <2>1 DEF IInv, ThreadsInv, InDeinit, SocketInv, OneSocket, TypeOK
  <2>3. TypeOK' /\ SessionsInv'
    BY <1>3, <2>1 DEF IInv, TypeOK, Loop!Types, Thread, SessionsInv, evars
  <2>4. ThreadsInv'
    BY <1>1, <1>2, <1>3, <2>1 DEF IInv, ThreadsInv, InDeinit, evars
  <2>5. SocketInv'
    BY <1>1, <1>2, <1>3, <2>1, <2>2
       DEF IInv, SocketInv, OneSocket, ContextFollowsSocket, Closes, Connected, evars
  <2>6. ForeignInv'
    BY <1>1, <2>1 DEF IInv, ForeignInv, ForeignOnlyAfterDeinit, TypeOK, Thread
  <2> QED  BY <2>3, <2>4, <2>5, <2>6 DEF IInv
<1>4. CASE callback_ends /\ UNCHANGED closers
  <2>1. /\ pc'.main = pc.main /\ pc'.loop = "none" /\ loop' = "idle" /\ handler' = 0
        /\ pc' \in [main : {"down", "up", "deregister", "close", "break", "over"},
                    loop : {"none", "read", "check", "deregister", "close", "break"}]
        /\ UNCHANGED <<ctx, ready, triggered, nulled, n_events_, closers>>
    BY <1>4 DEF callback_ends, Loop!callback_returns, goto, IInv, TypeOK
  <2>2. TypeOK' /\ SessionsInv'
    BY <2>1 DEF IInv, TypeOK, Loop!Types, SessionsInv
  <2>3. ThreadsInv' /\ ForeignInv'
    BY <1>1, <1>2, <2>1 DEF IInv, ThreadsInv, InDeinit, ForeignInv, ForeignOnlyAfterDeinit
  <2>4. SocketInv'
    BY <1>1, <2>1 DEF IInv, SocketInv, OneSocket, ContextFollowsSocket, Closes, Connected
  <2> QED  BY <2>2, <2>3, <2>4 DEF IInv
<1> QED  BY <1>3, <1>4

-----------------------------------------------------------------------------
(* deinit, step by step, by either thread.                                 *)

\* Main enters deinit: the socket is open unless the loop thread has been here.
LEMMA DeinitMainStep == ASSUME IInv, deinit_main PROVE IInv'
<1> USE DEF deinit_main, deinit_called, fields, kernel, evars
<1>1. /\ pc.main = "up" /\ pc'.main = "deregister" /\ pc'.loop = pc.loop
      /\ closers' = closers \cup {"main"} /\ "main" \notin closers
      /\ pc' \in [main : {"down", "up", "deregister", "close", "break", "over"},
                  loop : {"none", "read", "check", "deregister", "close", "break"}]
  BY DEF goto, IInv, TypeOK, ThreadsInv
<1>2. closers' = {"main"} => closers = {}
  BY <1>1
<1>3. TypeOK' /\ SessionsInv'
  BY <1>1 DEF IInv, TypeOK, Loop!Types, Thread, SessionsInv
<1>4. ThreadsInv'
  BY <1>1 DEF IInv, ThreadsInv, InDeinit
<1>5. SocketInv'
  BY <1>1, <1>2 DEF IInv, SocketInv, OneSocket, ContextFollowsSocket, Closes, Connected
<1>6. ForeignInv'
  BY <1>1 DEF IInv, ForeignInv, ForeignOnlyAfterDeinit, TypeOK, Thread
<1> QED  BY <1>3, <1>4, <1>5, <1>6 DEF IInv

\* The context is freed, was freed by the other thread, or is left behind.
LEMMA DeregisterStep ==
  ASSUME IInv, NEW t \in Thread, deinit_deregister(t) PROVE IInv'
<1> USE DEF fields, kernel, history
<1> DEFINE e == socket_evt_id_
<1>1. /\ pc[t] = "deregister" /\ Alive
      /\ UNCHANGED <<program, table, pending, socket_id_, e, broken_, mask>>
      /\ UNCHANGED <<closers, foreign, swallowed>>
  BY DEF deinit_deregister
<1>2. /\ t \in closers /\ e \in Session /\ pc.main \notin {"down", "over"}
  BY <1>1, SocketAssumption
     DEF IInv, ThreadsInv, InDeinit, TypeOK, Thread, Alive
<1>3. /\ pc' \in [main : {"down", "up", "deregister", "close", "break", "over"},
                  loop : {"none", "read", "check", "deregister", "close", "break"}]
      /\ t = "main" => pc'.main = "close" /\ pc'.loop = pc.loop
      /\ t = "loop" => pc'.loop = "close" /\ pc'.main = pc.main
  BY DEF deinit_deregister, goto, IInv, TypeOK, Thread
<1>4. /\ ctx' \in {ctx, [ctx EXCEPT ![e] = "freed"]}
      /\ ctx' # ctx => ctx[e] = "live" /\ ~broken_
      /\ broken_ \/ ctx'[e] = "freed"
      /\ loop' \in {loop, "crashed"}
      /\ nulled' \subseteq nulled \cup {e}
      /\ UNCHANGED <<ready, triggered, handler, n_events_>>
  <2>1. ctx \in [Session -> {"new", "live", "freed"}]
    BY DEF IInv, TypeOK, Loop!Types
  <2>2. CASE broken_ /\ UNCHANGED evars
    BY <2>2 DEF evars
  <2>3. CASE ~broken_ /\ Loop!deregister_event_racing(e)
    BY <1>2, <2>1, <2>3
       DEF Loop!deregister_event_racing, Loop!deregister_event, Loop!drop_event
  <2>4. CASE ~broken_ /\ Loop!deregister_event_again(e)
    BY <2>4 DEF Loop!deregister_event_again
  <2> QED  BY <2>2, <2>3, <2>4 DEF deinit_deregister
<1>5. /\ ctx' \in [Session -> {"new", "live", "freed"}]
      /\ \A x \in Session : /\ ctx'[x] = "new" <=> ctx[x] = "new"
                            /\ ctx[x] = "freed" => ctx'[x] = "freed"
                            /\ ctx'[x] = "live" => ctx[x] = "live"
  BY <1>2, <1>4 DEF IInv, TypeOK, Loop!Types
<1>6. broken_ => ctx'[1] = "freed"
  BY <1>5, Numbers DEF IInv, SessionsInv
<1>7. ~broken_ => e = 1
  BY <1>2, Numbers DEF IInv, SessionsInv
<1>8. TypeOK'
  BY <1>1, <1>2, <1>3, <1>4, <1>5 DEF IInv, TypeOK, Loop!Types
<1>9. SessionsInv'
  BY <1>1, <1>2, <1>3, <1>4, <1>5, <1>6 DEF IInv, SessionsInv, Thread
<1>10. ctx'[1] = "freed"
  BY <1>4, <1>6, <1>7
<1>11. ThreadsInv'
  BY <1>1, <1>2, <1>3, <1>4, <1>10 DEF IInv, ThreadsInv, InDeinit, Thread
<1>12. Connected' = Connected
  BY <1>1 DEF Connected
<1>13. OneSocket' /\ ContextFollowsSocket'
  BY <1>1, <1>2, <1>3, <1>5, <1>12 DEF IInv, SocketInv, OneSocket, ContextFollowsSocket, Thread
<1>14. ctx'[e] # "live" \/ e > 1
  BY <1>2, <1>10, Numbers DEF IInv, TypeOK
<1>15. SocketInv'
  BY <1>1, <1>3, <1>12, <1>13, <1>14 DEF IInv, SocketInv, Closes, Thread
<1>16. ForeignInv'
  BY <1>1, <1>2, <1>3 DEF IInv, ForeignInv, ForeignOnlyAfterDeinit, Thread
<1> QED  BY <1>8, <1>9, <1>11, <1>15, <1>16 DEF IInv

\* The first close() is of the socket; only a second one can hit another's file.
LEMMA CloseStep == ASSUME IInv, NEW t \in Thread, deinit_close(t) PROVE IInv'
<1> USE DEF fields, kernel, history
<1>1. /\ pc[t] = "close" /\ Alive
      /\ table' = [table EXCEPT ![socket_id_] = "free"] /\ pending' \subseteq pending
      /\ UNCHANGED <<evars, program, fields, mask, closers, swallowed>>
  BY DEF deinit_close
<1>2. /\ t \in closers /\ socket_evt_id_ \in Session /\ pc.main \notin {"down", "over"}
  BY <1>1, SocketAssumption
     DEF IInv, ThreadsInv, InDeinit, TypeOK, Thread, Alive
<1>3. /\ pc' \in [main : {"down", "up", "deregister", "close", "break", "over"},
                  loop : {"none", "read", "check", "deregister", "close", "break"}]
      /\ t = "main" => pc'.main = "break" /\ pc'.loop = pc.loop
      /\ t = "loop" => pc'.loop = "break" /\ pc'.main = pc.main
  BY DEF deinit_close, goto, IInv, TypeOK, Thread
<1>4. /\ table' \in [Fd -> {"free", "can", "other"}] /\ ~Connected'
      /\ \A fd \in Fd : table'[fd] # "can"
  BY <1>1 DEF IInv, TypeOK, SocketInv, OneSocket, Connected
<1>5. /\ foreign' \subseteq {"read", "write", "close"}
      /\ foreign' # foreign => closers = Thread /\ program = "node"
  <2>1. foreign' \in {foreign, foreign \cup {"close"}}
        /\ (foreign' # foreign => ~Connected)
    BY DEF deinit_close, touch, Connected
  <2>2. closers = {t} => Connected
    BY <1>1 DEF IInv, SocketInv, Closes, Thread
  <2>3. program = "plugin" => closers = {t}
    BY <1>2 DEF IInv, ThreadsInv, TypeOK, Thread
  <2>4. closers = {t} \/ closers = Thread
    BY <1>2 DEF IInv, TypeOK, Thread
  <2>5. program \in {"plugin", "node"} /\ foreign \subseteq {"read", "write", "close"}
    BY SocketAssumption DEF IInv, TypeOK
  <2>6. {"main"} # Thread /\ {"loop"} # Thread
    BY DEF Thread
  <2>7. foreign' \subseteq {"read", "write", "close"}
    BY <2>1, <2>5
  <2> QED  BY <2>1, <2>2, <2>3, <2>4, <2>5, <2>6, <2>7 DEF Thread
<1>6. TypeOK'
  BY <1>1, <1>3, <1>4, <1>5 DEF IInv, TypeOK, Loop!Types, evars
<1>7. SessionsInv' /\ ThreadsInv'
  BY <1>1, <1>2, <1>3 DEF IInv, SessionsInv, ThreadsInv, InDeinit, Thread, evars
<1>8. ctx[socket_evt_id_] # "live" \/ socket_evt_id_ > 1
  BY <1>1 DEF IInv, SocketInv, Closes, Thread
<1>9. socket_evt_id_ > 1 => broken_
  BY <1>2, Numbers DEF IInv, SessionsInv
<1>10. OneSocket'
  BY <1>1, <1>2, <1>3, <1>4 DEF OneSocket, Thread
<1>11. ContextFollowsSocket'
  BY <1>1, <1>8, <1>9 DEF IInv, SocketInv, ContextFollowsSocket, evars
<1>12. SocketInv'
  <2>1. pc'.main \in {"deregister", "close"} => "main" \in closers /\ t = "loop"
    BY <1>3 DEF IInv, ThreadsInv, InDeinit, Thread
  <2>2. pc'.loop \in {"deregister", "close"} => "loop" \in closers /\ t = "main"
    BY <1>3 DEF IInv, ThreadsInv, InDeinit, Thread
  <2> QED
    BY <1>1, <1>2, <1>3, <1>4, <1>8, <1>10, <1>11, <2>1, <2>2
       DEF IInv, SocketInv, Closes, Thread, evars
<1>13. ForeignInv'
  BY <1>1, <1>2, <1>3, <1>5 DEF IInv, ForeignInv, ForeignOnlyAfterDeinit, Thread
<1> QED  BY <1>6, <1>7, <1>12, <1>13 DEF IInv

\* deinit returns.
LEMMA BreakStep == ASSUME IInv, NEW t \in Thread, deinit_break(t) PROVE IInv'
<1> USE DEF fields, kernel, history
<1>1. /\ pc[t] = "break" /\ Alive /\ broken_' = TRUE
      /\ UNCHANGED <<program, table, pending, socket_id_, socket_evt_id_, mask>>
      /\ UNCHANGED <<closers, foreign, swallowed>>
  BY DEF deinit_break
<1>2. /\ t \in closers /\ socket_evt_id_ \in Session /\ pc.main \notin {"down", "over"}
  BY <1>1, SocketAssumption
     DEF IInv, ThreadsInv, InDeinit, TypeOK, Thread, Alive
<1>3. /\ pc' \in [main : {"down", "up", "deregister", "close", "break", "over"},
                  loop : {"none", "read", "check", "deregister", "close", "break"}]
      /\ t = "main" => /\ pc'.main = IF program = "plugin" THEN "down" ELSE "over"
                       /\ pc'.loop = pc.loop /\ UNCHANGED evars
      /\ t = "loop" => /\ pc'.loop = "none" /\ pc'.main = pc.main
                       /\ loop' = "idle" /\ handler' = 0
                       /\ UNCHANGED <<ctx, ready, triggered, nulled, n_events_>>
  BY DEF deinit_break, goto, IInv, TypeOK, Thread, Loop!callback_returns
<1>4. UNCHANGED <<ctx, ready, triggered, nulled, n_events_>>
      /\ loop' \in {loop, "idle"} /\ handler' \in {handler, 0}
  BY <1>3 DEF evars, Thread
<1>5. ctx[1] = "freed"
  <2>1. ctx[socket_evt_id_] # "live" \/ socket_evt_id_ > 1
    BY <1>1 DEF IInv, SocketInv, Closes, Thread
  <2>2. CASE socket_evt_id_ > 1
    BY <2>2 DEF IInv, SessionsInv
  <2>3. CASE socket_evt_id_ = 1
    BY <2>1, <2>3, Numbers DEF IInv, SessionsInv, TypeOK, Loop!Types
  <2> QED  BY <1>2, <2>2, <2>3, Numbers
<1>6. TypeOK'
  BY <1>1, <1>3, <1>4 DEF IInv, TypeOK, Loop!Types
<1>7. SessionsInv'
  BY <1>1, <1>2, <1>3, <1>4, <1>5, Numbers DEF IInv, SessionsInv, Thread
<1>8. ThreadsInv'
  <2>1. CASE t = "main"
    BY <1>1, <1>2, <1>3, <1>5, <2>1 DEF IInv, ThreadsInv, InDeinit, evars
  <2>2. CASE t = "loop"
    BY <1>1, <1>2, <1>3, <1>5, <2>2, SocketAssumption DEF IInv, ThreadsInv, InDeinit, TypeOK
  <2> QED  BY <2>1, <2>2 DEF Thread
<1>9. Connected' = Connected /\ (t = "main" => ~Connected)
  BY <1>1 DEF Connected, IInv, SocketInv
<1>10. SocketInv'
  BY <1>1, <1>2, <1>3, <1>4, <1>9
     DEF IInv, SocketInv, OneSocket, ContextFollowsSocket, Closes, Thread
<1>11. ForeignInv'
  <2>1. program = "plugin" => foreign = {}
    BY DEF IInv, ForeignInv, ForeignOnlyAfterDeinit
  <2> QED  BY <1>1, <1>2, <1>3, <2>1 DEF IInv, ForeignInv, ForeignOnlyAfterDeinit, Thread
<1> QED  BY <1>6, <1>7, <1>8, <1>10, <1>11 DEF IInv

-----------------------------------------------------------------------------
(* The batch.                                                              *)

\* Steps that neither fill the batch nor load an entry, nor enter deinit on the loop
\* thread.
LEMMA BatchKept ==
  ASSUME IInv, BatchInv, UNCHANGED triggered,
         loop' = loop \/ loop' = "crashed" \/ (loop # "fetched" /\ loop' = "idle"),
         handler' = handler \/ loop' # "fetched",
         "loop" \in closers' => "loop" \in closers,
         \A e \in Session : ctx[e] # "new" => ctx'[e] # "new"
  PROVE  BatchInv'
<1>1. triggered \subseteq Session
  BY DEF IInv, TypeOK, Loop!Types
<1> QED  BY <1>1 DEF IInv, ThreadsInv, BatchInv

LEMMA BatchStep ==
  ASSUME IInv, BatchInv, [Next]_vars
  PROVE  BatchInv'
<1> USE DEF fields, kernel, history, evars
<1>1. ctx \in [Session -> {"new", "live", "freed"}]
  BY DEF IInv, TypeOK, Loop!Types
<1>2. CASE init
  <2>1. ASSUME NEW e \in Session, Loop!register_event(e), closers' = {} PROVE BatchInv'
    BY <1>1, <2>1, BatchKept DEF Loop!register_event
  <2>2. CASE UNCHANGED evars /\ closers' = {}
    BY <2>2, BatchKept
  <2> QED
    BY <1>2, <2>1, <2>2 DEF init, no_socket, init_fails, init_succeeds
<1>3. CASE start_thread
  BY <1>3, BatchKept DEF start_thread, Loop!start_thread
<1>4. CASE deinit_main
  BY <1>4, BatchKept DEF deinit_main, deinit_called
<1>5. CASE send_can_frame \/ read_nonblocking \/ others_open \/ others_close \/ UNCHANGED vars
  BY <1>5, BatchKept DEF send_can_frame, read_nonblocking, others_open, others_close, vars
<1>6. CASE condition
  BY <1>6, BatchKept DEF condition, Loop!set
<1>7. CASE loop_interrupted
  BY <1>7 DEF loop_interrupted, Loop!loop_returns, BatchInv
<1>8. CASE loop_step /\ Loop!epoll_wait
  <2>1. program = "node"
    BY <1>8, SocketAssumption DEF Loop!epoll_wait, IInv, ThreadsInv, TypeOK
  <2>2. \A e \in Session : ctx[e] = "live" => e = 1
    BY <2>1, Numbers DEF IInv, SessionsInv, TypeOK
  <2>3. pc.loop = "none" /\ ready \subseteq Session
    BY <1>8 DEF Loop!epoll_wait, IInv, ThreadsInv, TypeOK, Loop!Types
  <2>4. "loop" \in closers => ctx[1] = "freed"
    BY <2>3 DEF IInv, ThreadsInv
  <2>5. triggered' \subseteq {1} /\ ("loop" \in closers => triggered' = {})
    BY <1>8, <2>2, <2>3, <2>4 DEF Loop!epoll_wait, Loop!Ready
  <2>6. /\ loop' = "idle" /\ UNCHANGED <<ctx, closers>>
        /\ \A e \in triggered' : ctx[e] # "new"
    BY <1>8 DEF loop_step, Loop!epoll_wait, Loop!Ready
  <2> QED  BY <2>5, <2>6 DEF BatchInv
<1>9. ASSUME NEW e \in Session, loop_step, Loop!fetch(e) PROVE BatchInv'
  <2>1. e \in triggered /\ triggered' = triggered \ {e} /\ triggered \subseteq {1}
    BY <1>9 DEF Loop!fetch, BatchInv
  <2>2. e = 1 /\ triggered' = {} /\ "loop" \notin closers /\ ctx[1] # "new"
    BY <2>1 DEF BatchInv
  <2>3. /\ UNCHANGED <<ctx, closers>>
        /\ loop' = "crashed" \/ (loop' = "fetched" /\ handler' = 1)
    BY <1>9, <2>2 DEF loop_step, Loop!fetch
  <2> QED  BY <2>2, <2>3 DEF BatchInv
<1>10. CASE dispatch
  <2>1. /\ loop = "fetched" /\ loop' \in {"crashed", "idle", "callback"}
        /\ UNCHANGED <<ctx, triggered, closers>>
    BY <1>10 DEF dispatch, Loop!invoke, Loop!invoke_live
  <2> QED  BY <2>1 DEF BatchInv
<1>11. CASE on_socket_event_read
  BY <1>11, BatchKept DEF on_socket_event_read, Loop!DrainSocket
<1>12. CASE on_socket_event_check
  <2>1. loop = "callback"
    BY <1>12 DEF on_socket_event_check, Alive, IInv, ThreadsInv
  <2> QED
    BY <1>12, <2>1 DEF on_socket_event_check, deinit_called, callback_ends,
                       Loop!callback_returns, BatchInv
<1>13. ASSUME NEW t \in Thread, Deinit(t) PROVE BatchInv'
  <2>1. CASE deinit_deregister(t)
    BY <1>1, <2>1, BatchKept
       DEF deinit_deregister, Loop!deregister_event_racing, Loop!deregister_event,
           Loop!deregister_event_again
  <2>2. CASE deinit_close(t)
    BY <2>2, BatchKept DEF deinit_close
  <2>3. CASE deinit_break(t)
    BY <2>3, BatchKept DEF deinit_break, Loop!callback_returns
  <2> QED  BY <1>13, <2>1, <2>2, <2>3 DEF Deinit
<1> QED
  BY <1>2, <1>3, <1>4, <1>5, <1>6, <1>7, <1>8, <1>9, <1>10, <1>11, <1>12, <1>13
     DEF Next, Main, LoopThread, Environment, Stopped, Thread, loop_step

-----------------------------------------------------------------------------
\* The invariant is inductive, together with what is known of the batch.
LEMMA SocketInvariant == Spec => []IInv
<1>1. ASSUME IInv, BatchInv, [Next]_vars PROVE IInv'
  <2>1. CASE UNCHANGED vars
    <3> USE <1>1, <2>1 DEF vars, evars, fields, kernel, history
    <3>1. SessionsInv' /\ SocketInv'
      BY SocketKept
    <3>2. TypeOK' /\ ThreadsInv' /\ ForeignInv'
      BY DEF IInv, TypeOK, Loop!Types, ThreadsInv, InDeinit, ForeignInv, ForeignOnlyAfterDeinit
    <3> QED  BY <3>1, <3>2 DEF IInv
  <2>2. CASE Main
    BY <1>1, <2>2, InitStep, StartStep, DeinitMainStep, SendStep, ReadStep DEF Main
  <2>3. ASSUME NEW t \in Thread, Deinit(t) PROVE IInv'
    BY <1>1, <2>3, DeregisterStep, CloseStep, BreakStep DEF Deinit
  <2>4. CASE LoopThread
    BY <1>1, <2>3, <2>4, LoopStep, DispatchStep, DrainStep, CheckStep DEF LoopThread, Thread
  <2>5. CASE Environment
    BY <1>1, <2>5, ConditionStep, LoopStep, OthersStep DEF Environment
  <2> QED  BY <1>1, <2>1, <2>2, <2>3, <2>4, <2>5 DEF Next, Stopped, Thread
<1>2. Init => BatchInv
  BY DEF Init, Loop!Init, BatchInv
<1> QED  BY <1>1, <1>2, BatchStep, InitInv, PTL DEF Spec

\* Every field of the interface and of the loop under it keeps its type: over
\* any number of sessions no more contexts are made than there are sessions.
THEOREM SocketTypeOK == Spec => []TypeOK
BY SocketInvariant, PTL DEF IInv

\* The plugin never touches another's descriptor, and the node only after a
\* deinit, over any number of configurations, failures and reused numbers.
THEOREM SocketForeign == Spec => []ForeignOnlyAfterDeinit
BY SocketInvariant, PTL DEF IInv, ForeignInv

\* No path through init and deinit leaks a socket.
THEOREM SocketOne == Spec => []OneSocket
BY SocketInvariant, PTL DEF IInv, SocketInv

\* Contexts live as long as their socket, but for those broken_ leaves behind.
THEOREM SocketContext == Spec => []ContextFollowsSocket
BY SocketInvariant, PTL DEF IInv, SocketInv

-----------------------------------------------------------------------------
(* The socket is a client of the event loop: SocketCan implements EventLoop. *)

\* A registration happens before the thread is started, and of a new context.
LEMMA InitLoop == ASSUME IInv, init PROVE [Loop!Next]_evars
<1>1. CASE UNCHANGED evars
  BY <1>1
<1>2. ASSUME NEW fd \in Lowest, init_succeeds(fd) PROVE Loop!Next
  <2>1. PICK e \in Session : Loop!register_event(e)
    BY <1>2 DEF init_succeeds
  <2>2. loop = "init"
    BY DEF init, Alive, IInv, ThreadsInv
  <2> QED  BY <2>1, <2>2 DEF Loop!Register, Loop!Next
<1> QED  BY <1>1, <1>2 DEF init, no_socket, init_fails

\* What deinit does to the context of its session is what any thread may do.
LEMMA DeinitLoop ==
  ASSUME IInv, NEW t \in Thread, Deinit(t) PROVE [Loop!Next]_evars
<1>1. CASE deinit_deregister(t)
  <2>1. socket_evt_id_ \in Session /\ loop # "crashed"
    <3>1. pc[t] = "deregister" /\ Alive
      BY <1>1 DEF deinit_deregister
    <3>2. InDeinit("main") \/ pc.loop # "none"
      BY <3>1 DEF InDeinit, Thread
    <3> QED  BY <3>1, <3>2, Numbers DEF Alive, IInv, ThreadsInv, TypeOK
  <2>2. \/ UNCHANGED evars
        \/ Loop!deregister_event_racing(socket_evt_id_)
        \/ Loop!deregister_event_again(socket_evt_id_)
    BY <1>1 DEF deinit_deregister
  <2>3. [e \in Session |-> "thread"][socket_evt_id_] = "thread"
    BY <2>1
  <2> QED  BY <2>1, <2>2, <2>3 DEF Loop!DeregisterRacing, Loop!Next
<1>2. CASE deinit_close(t)
  BY <1>2 DEF deinit_close
<1>3. CASE deinit_break(t)
  BY <1>3 DEF deinit_break, Loop!Loop, Loop!Next
<1> QED  BY <1>1, <1>2, <1>3 DEF Deinit

\* The loop thread's own steps.
LEMMA ThreadLoop ==
  ASSUME loop_step \/ loop_interrupted \/ dispatch \/ on_socket_event_read
         \/ on_socket_event_check
  PROVE  [Loop!Next]_evars
<1>1. CASE loop_step \/ dispatch
  BY <1>1 DEF loop_step, dispatch, Loop!Loop, Loop!Next
<1>2. CASE loop_interrupted
  BY <1>2 DEF loop_interrupted, Loop!Next
<1>3. CASE on_socket_event_read
  BY <1>3 DEF on_socket_event_read, Loop!Next
<1>4. CASE on_socket_event_check
  BY <1>4 DEF on_socket_event_check, callback_ends, Loop!Loop, Loop!Next
<1> QED  BY <1>1, <1>2, <1>3, <1>4

\* The kernel signals the context of an open socket, which is registered unless
\* deinit has freed it already.
LEMMA ConditionLoop == ASSUME IInv, condition PROVE [Loop!Next]_evars
<1>1. /\ Loop!set(socket_evt_id_) /\ loop # "crashed"
      /\ socket_evt_id_ \in Session
  BY DEF condition, Alive, Connected, IInv, TypeOK, SocketInv, OneSocket
<1>2. CASE ctx[socket_evt_id_] = "live"
  BY <1>1, <1>2 DEF Loop!Signal, Loop!Next
<1>3. CASE ctx[socket_evt_id_] # "live"
  BY <1>1, <1>3 DEF Loop!set, evars
<1> QED  BY <1>2, <1>3

\* Every step of the socket, in either program, is one of the event loop or
\* leaves it alone: over any number of sessions, and with both threads in deinit.
THEOREM SocketImplementsLoop == Spec => ImplementsLoop
<1>1. Init => Loop!Init
  BY DEF Init
<1>2. ASSUME IInv, [Next]_vars PROVE [Loop!Next]_evars
  <2>1. CASE Main
    <3>1. CASE init
      BY <1>2, <3>1, InitLoop
    <3>2. CASE start_thread
      BY <3>2 DEF start_thread, Loop!Next
    <3>3. CASE deinit_main \/ send_can_frame \/ read_nonblocking
      BY <3>3 DEF deinit_main, send_can_frame, read_nonblocking
    <3> QED  BY <2>1, <3>1, <3>2, <3>3 DEF Main
  <2>2. CASE Deinit("main") \/ Deinit("loop")
    BY <1>2, <2>2, DeinitLoop DEF Thread
  <2>3. CASE LoopThread
    BY <2>2, <2>3, ThreadLoop DEF LoopThread
  <2>4. CASE Environment
    BY <1>2, <2>4, ThreadLoop, ConditionLoop DEF Environment, others_open, others_close
  <2>5. CASE UNCHANGED vars
    BY <2>5 DEF vars
  <2> QED  BY <1>2, <2>1, <2>2, <2>3, <2>4, <2>5 DEF Next, Stopped
<1>3. ASSUME IInv, [Next]_vars PROVE [Loop!Next]_(Loop!evars)
  BY <1>2, <1>3 DEF evars, Loop!evars
<1> QED  BY <1>1, <1>3, SocketInvariant, PTL DEF Spec, ImplementsLoop, Loop!Spec
=============================================================================
