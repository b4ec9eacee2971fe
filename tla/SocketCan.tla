----------------------------- MODULE SocketCan ------------------------------
(***************************************************************************)
(* SocketCanIntf of odrive_base over a whole life: init with each of its   *)
(* error paths, deinit, and what is done through socket_id_ in between.    *)
(* The two programs that own one differ in who calls what (program):       *)
(*   - "plugin": the controller manager's thread alone: on_configure calls *)
(*     init, read and write use the socket, on_cleanup calls deinit, then  *)
(*     on_configure again.  Nobody runs the event loop.                    *)
(*   - "node": main calls init once, starts the loop thread (EventLoop) and *)
(*     calls deinit at the end; on_socket_event on the loop thread calls   *)
(*     deinit when the interface vanishes.                                 *)
(*                                                                         *)
(* A descriptor is a number in the table of the process, and the rest of   *)
(* the process (DDS, files) opens and closes descriptors as well: a number *)
(* that was closed may be somebody else's the next time it is used.        *)
(***************************************************************************)
EXTENDS Integers, FiniteSets

CONSTANTS
  Program,       \* the programs tried, a subset of {"plugin", "node"}
  MaxFd,         \* bound: descriptor numbers
  MaxSessions    \* bound: successful inits

Fd == 0 .. MaxFd
Session == 1 .. MaxSessions
Thread == {"main", "loop"}

ASSUME SocketAssumption ==
  /\ Program \subseteq {"plugin", "node"}
  /\ MaxFd \in Nat /\ MaxSessions \in 1 .. 16

VARIABLES
  ctx, ready, triggered, nulled, handler, loop, n_events_,   \* of EventLoop
  program,
  table,            \* per number: "free", "can" (our socket), "other" (not ours)
  socket_id_,       \* may be stale, -1 (no socket) or 0, which is stdin
  socket_evt_id_,   \* the context of the last registration, 0 if none
  broken_,
  pc,               \* where each thread is
  pending,          \* conditions of the socket that epoll would report
  mask,             \* those it did report
  closers,          \* the threads that called deinit since init (history)
  foreign,          \* what was done to descriptors of others (history)
  swallowed         \* was an error of the socket taken unnoticed? (history)

Loop == INSTANCE EventLoop WITH
  Event <- Session, EventFd <- {}, NoEvent <- 0, kMaxEventsPerIteration <- 16,
  Discipline <- [e \in Session |-> "thread"]

evars == <<ctx, ready, triggered, nulled, handler, loop, n_events_>>
history == <<closers, foreign, swallowed>>
fields == <<socket_id_, socket_evt_id_, broken_>>
kernel == <<table, pending>>
vars == <<evars, program, fields, kernel, mask, pc, history>>

TypeOK ==
  /\ Loop!Types /\ n_events_ <= MaxSessions
  /\ program \in Program
  /\ table \in [Fd -> {"free", "can", "other"}]
  /\ socket_id_ \in Fd \cup {-1}
  /\ socket_evt_id_ \in Session \cup {0}
  /\ broken_ \in BOOLEAN
  /\ pc \in [main : {"down", "up", "deregister", "close", "break", "over"},
             loop : {"none", "read", "check", "deregister", "close", "break"}]
  /\ pending \subseteq {"in", "err", "other"} /\ mask \subseteq {"in", "err", "other"}
  /\ closers \subseteq Thread
  /\ foreign \subseteq {"read", "write", "close"}
  /\ swallowed \in BOOLEAN

\* Number 0 is stdin.
Init ==
  /\ Loop!Init
  /\ program \in Program
  /\ table = [fd \in Fd |-> IF fd = 0 THEN "other" ELSE "free"]
  /\ socket_id_ = -1 /\ socket_evt_id_ = 0 /\ broken_ = FALSE
  /\ pc = [main |-> "down", loop |-> "none"]
  /\ pending = {} /\ mask = {}
  /\ closers = {} /\ foreign = {} /\ swallowed = FALSE

Alive == loop # "crashed" /\ ~(program = "node" /\ pc.main = "over")

goto(t, place) == pc' = [pc EXCEPT ![t] = place]

\* A system call on socket_id_: on a free number it fails (EBADF).
touch(how) ==
  foreign' = IF socket_id_ \in Fd /\ table[socket_id_] = "other"
             THEN foreign \cup {how} ELSE foreign

\* The kernel reports an error of a socket once, to the next read or write, and
\* to epoll only until then; both callers take it for any other failure.
take_error ==
  swallowed' = (swallowed \/ ("err" \in pending /\ "err" \notin mask))

\* socket() takes the lowest free number, if there is one.
Lowest ==
  {fd \in Fd : /\ table[fd] = "free"
                /\ \A other \in Fd : table[other] = "free" => fd <= other}

-----------------------------------------------------------------------------
(* init.                                                                   *)

no_socket ==
  /\ socket_id_' = -1
  /\ UNCHANGED <<evars, table, socket_evt_id_>>

\* Mutant: ioctl or bind fails and the socket stays open.
init_fails_open(fd) ==
  /\ socket_id_' = fd
  /\ table' = [table EXCEPT ![fd] = "can"]
  /\ UNCHANGED <<evars, socket_evt_id_>>

\* ioctl or bind fails: the socket is closed, its number stays in socket_id_;
\* the test read or the registration fails: socket_id_ is 0 after the close.
init_fails(fd) ==
  /\ socket_id_' \in {fd, 0}
  /\ UNCHANGED <<evars, table, socket_evt_id_>>

init_succeeds(fd) ==
  /\ socket_id_' = fd
  /\ table' = [table EXCEPT ![fd] = "can"]
  /\ \E e \in Session : /\ \A f \in 1 .. e - 1 : ctx[f] # "new"
                        /\ Loop!register_event(e)
                        /\ socket_evt_id_' = e

\* Mutant: the result of init is ignored.
after_failure_up == goto("main", "up")

\* The node's main returns; on_configure returns ERROR, and the manager
\* finalizes the component since on_error is not overridden.
after_failure == goto("main", "over")

init ==
  /\ Alive /\ pc.main = "down"
  /\ \/ no_socket /\ after_failure
     \/ \E fd \in Lowest : init_fails(fd) /\ after_failure
     \/ \E fd \in Lowest : init_succeeds(fd) /\ goto("main", "up")
  /\ pending' = {} /\ mask' = {}
  /\ closers' = {}
  /\ UNCHANGED <<program, broken_, foreign, swallowed>>

\* Mutant: the thread is started before init has registered the socket.
start_thread_early ==
  /\ Alive /\ program = "node" /\ pc.main = "down"
  /\ Loop!start_thread
  /\ UNCHANGED <<program, kernel, fields, pc, mask, history>>

start_thread ==
  /\ Alive /\ program = "node" /\ pc.main = "up"
  /\ Loop!start_thread
  /\ UNCHANGED <<program, kernel, fields, pc, mask, history>>

-----------------------------------------------------------------------------
(* deinit, by thread t: at "deregister", then "close", then "break".       *)

deinit_called(t) ==
  /\ goto(t, "deregister")
  /\ closers' = closers \cup {t}

\* Mutant: broken_ is set before it is tested.
deinit_breaks_first(t) ==
  /\ Alive /\ pc[t] = "deregister"
  /\ UNCHANGED evars
  /\ goto(t, "close")
  /\ UNCHANGED <<program, kernel, fields, mask, history>>

\* A context that the other thread has freed is read, and may be freed, again.
deinit_deregister(t) ==
  /\ Alive /\ pc[t] = "deregister"
  /\ \/ broken_ /\ UNCHANGED evars
     \/ ~broken_ /\ Loop!deregister_event_racing(socket_evt_id_)
     \/ ~broken_ /\ Loop!deregister_event_again(socket_evt_id_)
  /\ goto(t, "close")
  /\ UNCHANGED <<program, kernel, fields, mask, history>>

\* The number is closed, whoever owns it by now, and stays in socket_id_.
deinit_close(t) ==
  /\ Alive /\ pc[t] = "close"
  /\ touch("close")
  /\ table' = [table EXCEPT ![socket_id_] = "free"]
  /\ pending' = IF table[socket_id_] = "can" THEN {} ELSE pending
  /\ goto(t, "break")
  /\ UNCHANGED <<evars, program, fields, mask, closers, swallowed>>

\* After on_cleanup the plugin may be configured again; the node's main ends.
deinit_break(t) ==
  /\ Alive /\ pc[t] = "break"
  /\ broken_' = TRUE
  /\ IF t = "main"
     THEN /\ goto("main", IF program = "plugin" THEN "down" ELSE "over")
          /\ UNCHANGED evars
     ELSE goto("loop", "none") /\ Loop!callback_returns
  /\ UNCHANGED <<program, kernel, socket_id_, socket_evt_id_, mask, history>>

-----------------------------------------------------------------------------
(* Main, while init has succeeded: on_cleanup or the end of spin; and      *)
(* read_nonblocking and send_can_frame, from read and write of the plugin. *)

deinit_main ==
  /\ Alive /\ pc.main = "up"
  /\ program = "node" => loop # "init"
  /\ deinit_called("main")
  /\ UNCHANGED <<evars, program, kernel, fields, mask, foreign, swallowed>>

send_can_frame ==
  /\ Alive
  /\ \/ pc.main = "up"
     \/ program = "node" /\ loop = "idle"   \* another callback, of this batch or its own
  /\ touch("write") /\ take_error
  /\ pending' = pending \ {"err"}
  /\ UNCHANGED <<evars, program, table, fields, pc, mask, closers>>

read_nonblocking ==
  /\ Alive /\ program = "plugin" /\ pc.main = "up"
  /\ touch("read") /\ take_error
  /\ pending' \in {pending \ {"err"}, pending \ {"in", "err"}}
  /\ UNCHANGED <<evars, program, table, fields, pc, mask, closers>>

-----------------------------------------------------------------------------
(* The loop thread and on_socket_event.                                    *)

loop_step ==
  /\ Alive
  /\ \/ Loop!epoll_wait /\ pending # {} /\ mask' = pending
     \/ \E e \in Session : Loop!fetch(e) /\ UNCHANGED mask
  /\ UNCHANGED <<program, kernel, fields, pc, history>>

\* A signal interrupts epoll_wait.
loop_interrupted ==
  /\ Alive
  /\ Loop!loop_returns
  /\ UNCHANGED <<program, kernel, fields, pc, mask, history>>

\* on_socket_event begins, perhaps through a context that main has just freed.
dispatch ==
  /\ Alive
  /\ Loop!invoke
  /\ goto("loop", IF loop' # "callback" THEN "none"
                  ELSE IF "in" \in mask THEN "read" ELSE "check")
  /\ UNCHANGED <<program, kernel, fields, mask, history>>

\* One read_nonblocking of the while loop: a frame of several, the last frame,
\* or an error, which is taken for an empty queue.  While a condition lasts epoll
\* reports it again.
on_socket_event_read ==
  /\ Alive /\ pc.loop = "read"
  /\ touch("read") /\ take_error
  /\ \/ /\ ~broken_ /\ "in" \in pending /\ "err" \notin pending
        /\ UNCHANGED <<evars, pending, pc>>
     \/ /\ pending' = pending \ (IF "err" \in pending THEN {"err"} ELSE {"in"})
        /\ IF pending' = {} THEN Loop!DrainSocket ELSE UNCHANGED evars
        /\ goto("loop", "check")
  /\ UNCHANGED <<program, table, fields, mask, closers>>

callback_ends == goto("loop", "none") /\ Loop!callback_returns

\* Mutant: an unexpected condition is only logged.
on_socket_event_check_err ==
  /\ Alive /\ pc.loop = "check"
  /\ IF "err" \in mask
     THEN deinit_called("loop") /\ UNCHANGED evars
     ELSE callback_ends /\ UNCHANGED closers
  /\ mask' = {}
  /\ UNCHANGED <<program, kernel, fields, foreign, swallowed>>

\* EPOLLERR and every other condition than EPOLLIN end the socket.
on_socket_event_check ==
  /\ Alive /\ pc.loop = "check"
  /\ IF mask \ {"in"} # {}
     THEN deinit_called("loop") /\ UNCHANGED evars
     ELSE callback_ends /\ UNCHANGED closers
  /\ mask' = {}
  /\ UNCHANGED <<program, kernel, fields, foreign, swallowed>>

-----------------------------------------------------------------------------
(* The kernel and the rest of the process (external).                      *)

Connected == socket_id_ \in Fd /\ table[socket_id_] = "can"

\* A frame, or the interface goes down (an error) or away (a hangup).
condition ==
  /\ Alive /\ Connected
  /\ \E c \in {"in", "err", "other"} \ pending : pending' = pending \cup {c}
  /\ Loop!set(socket_evt_id_)
  /\ UNCHANGED <<program, table, fields, pc, mask, history>>

others_open ==
  /\ Alive
  /\ \E fd \in Lowest : table' = [table EXCEPT ![fd] = "other"]
  /\ UNCHANGED <<evars, program, fields, pc, pending, mask, history>>

others_close ==
  /\ Alive
  /\ \E fd \in Fd \ {0} : table[fd] = "other" /\ table' = [table EXCEPT ![fd] = "free"]
  /\ UNCHANGED <<evars, program, fields, pc, pending, mask, history>>

\* The process has ended, or nothing will be configured any more.
Stopped ==
  /\ ~Alive \/ pc.main \in {"over", "down"}
  /\ UNCHANGED vars

Main == init \/ start_thread \/ deinit_main \/ send_can_frame \/ read_nonblocking
Deinit(t) == deinit_deregister(t) \/ deinit_close(t) \/ deinit_break(t)
LoopThread ==
  loop_step \/ dispatch \/ on_socket_event_read \/ on_socket_event_check \/ Deinit("loop")
Environment == condition \/ loop_interrupted \/ others_open \/ others_close

Next == Main \/ Deinit("main") \/ LoopThread \/ Environment \/ Stopped

\* The loop thread is scheduled and a drain of the socket ends.
Spec ==
  /\ Init /\ [][Next]_vars
  /\ WF_vars(loop_step \/ dispatch \/ on_socket_event_check \/ Deinit("loop"))
  /\ WF_vars(on_socket_event_read /\ pc'.loop # "read")

-----------------------------------------------------------------------------
(* Properties.                                                             *)

\* Nothing is done to a descriptor of somebody else through a stale socket_id_
\* before a deinit, nor by the plugin at all, over any number of failed and
\* successful configurations; and a foreign descriptor is only closed if both
\* threads of the node called deinit: the interface had vanished, and the
\* second close() came after its number was reused.
ForeignOnlyAfterDeinit ==
  foreign # {} =>
    /\ program = "node" /\ closers # {}
    /\ "close" \in foreign => closers = Thread

\* No path through init or deinit leaks a socket: one is open from a successful
\* init until the first close, under the number in socket_id_.
OneSocket ==
  /\ \A fd \in Fd : table[fd] = "can" => fd = socket_id_ /\ socket_evt_id_ # 0
  /\ pc.main = "up" /\ closers = {} => Connected
  /\ pc.main \in {"down", "over"} => ~Connected

\* A context is registered only as long as its socket is open (EPOLL_CTL_DEL
\* fails on a closed one, which would leak it), except in the sessions after
\* the first: broken_ stays set, so their deinit leaves the context behind.
ContextFollowsSocket ==
  \A e \in Session :
    ctx[e] = "live" => (e = socket_evt_id_ /\ Connected) \/ (e > 1 /\ broken_)

\* A vanished interface is deregistered, and the loop is not woken for ever by
\* a socket in error, unless a read or write came in between and took the error
\* for a failure of its own: then nobody notices.
VanishedIsDeregistered ==
  (program = "node" /\ loop # "init" /\ pending \cap {"err", "other"} # {})
    ~> (ctx[1] = "freed" \/ swallowed \/ loop = "returned" \/ ~Alive)

\* The socket is a client of the event loop like any other: each of its steps is
\* one of EventLoop, or does not concern it.  It registers only before the thread
\* starts, signals only what is registered, and of the two deinits that may race one
\* is a double deregistration, as EventLoop allows another thread (it may crash); so
\* what EventLoop promises its clients holds here too, the late call included.
ImplementsLoop == Loop!Spec

-----------------------------------------------------------------------------
(* Strengthening used by the proofs in SocketCan_proofs.                   *)

InDeinit(t) == pc[t] \in {"deregister", "close", "break"}

\* Contexts are made one after the other, and broken_ is set when the first one
\* is freed: by the first deinit, and for good.
SessionsInv ==
  /\ n_events_ = socket_evt_id_
  /\ \A e \in Session : ctx[e] = "new" <=> e > socket_evt_id_
  /\ broken_ => socket_evt_id_ > 0 /\ ctx[1] = "freed"
  /\ socket_evt_id_ > 1 \/ (socket_evt_id_ = 1 /\ pc.main = "down") => broken_
  /\ program = "node" /\ pc.main = "down" => socket_evt_id_ = 0
  /\ program = "node" => socket_evt_id_ <= 1

\* Who may be where: only the node has a loop thread, and it calls deinit once.
ThreadsInv ==
  /\ program = "plugin" \/ pc.main = "down" =>
       loop \in {"init", "crashed"} /\ pc.loop = "none"
  /\ program = "plugin" => "loop" \notin closers
  /\ pc.loop # "none" => loop \in {"callback", "crashed"} /\ socket_evt_id_ = 1
  /\ loop = "fetched" => handler \in Session
  /\ pc.main = "up" \/ InDeinit("main") => socket_evt_id_ # 0
  /\ pc.main = "up" => "main" \notin closers
  /\ InDeinit("main") => "main" \in closers
  /\ InDeinit("loop") => "loop" \in closers
  /\ "loop" \in closers =>
       /\ pc.loop \notin {"read", "check"}
       /\ pc.loop # "deregister" => ctx[1] = "freed"

\* The node has one context; once its callback has called deinit no further call is due.
BatchInv ==
  /\ triggered \subseteq {1} /\ (loop \notin {"idle", "crashed"} => triggered = {})
  /\ \A e \in triggered : ctx[e] # "new"
  /\ loop = "fetched" => ctx[handler] # "new"
  /\ "loop" \in closers => triggered = {} /\ loop # "fetched"

\* The first thread in deinit finds the socket open, and frees the context of
\* the session before it closes it (or leaves it behind, after the first).
Closes(t) ==
  /\ pc[t] \in {"deregister", "close"} /\ closers = {t} => Connected
  /\ pc[t] \in {"close", "break"} => ctx[socket_evt_id_] # "live" \/ socket_evt_id_ > 1

SocketInv ==
  /\ OneSocket /\ ContextFollowsSocket
  /\ pc.main = "break" => ~Connected
  /\ Closes("main") /\ Closes("loop")

ForeignInv ==
  /\ ForeignOnlyAfterDeinit
  /\ pc.main = "down" => foreign = {}

IInv == TypeOK /\ SessionsInv /\ ThreadsInv /\ SocketInv /\ ForeignInv
=============================================================================
