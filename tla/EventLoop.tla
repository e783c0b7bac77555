------------------------------ MODULE EventLoop ------------------------------
(***************************************************************************)
(* EventLoop and its ConnectionManager: threads that run and stop the loop, *)
(* register sockets and clients, and the select loop that calls back while  *)
(* it holds socket_mutex_.                                                  *)
(*                                                                          *)
(* A call that holds a mutex only for its own body is one step.  The        *)
(* callback of a client's socket is the handler the class has for its event *)
(* (handle_client_data, handle_client_write, handle_client_error); that of  *)
(* the listening socket is handle_new_connection, which only logs.          *)
(***************************************************************************)
EXTENDS Integers, FiniteSets, Functions

CONSTANTS Threads,
          ListenFd,     \* the listening socket, never closed
          ClientFds,    \* descriptors accepted clients may get
          Masks,        \* the sets of events sockets are registered for
          MaxClients,   \* bound on the calls of add_client
          NoThread, NoFd

READ == 1
WRITE == 2
ERROR_EVENT == 4
EventTypes == {READ, WRITE, ERROR_EVENT}

ASSUME EventLoopAssumption ==
  /\ MaxClients \in Nat
  /\ Masks \subseteq SUBSET EventTypes
  /\ ClientFds \subseteq Nat \ {0} /\ ListenFd \in Nat \ (ClientFds \cup {0})
  /\ NoThread \notin Threads /\ NoFd \notin Nat

VARIABLES
  running, stop_requested,   \* the two flags
  socket_events,             \* descriptor -> the events it is registered for;
                             \* socket_callbacks_ has the same keys
  callbacks,                 \* the keys of socket_callbacks_
  socket_mutex,              \* its owner
  connections,               \* connection id -> descriptor of its socket
  next_conn_id,
  pc,                        \* where each thread is
  fds,                       \* its fd_sets, as pairs of a descriptor and an event
  conn,                      \* the connection its handler has found
  at                         \* the descriptor whose callbacks it is calling

socketVars == <<socket_events, callbacks>>
clientVars == <<connections, next_conn_id>>
localVars == <<pc, fds, at, conn>>
vars == <<running, stop_requested, socketVars, socket_mutex, clientVars, localVars>>

Goto(t, label) == pc' = [pc EXCEPT ![t] = label]

Fds == ClientFds \cup {ListenFd}
Open(fd) == fd = ListenFd \/ fd \in Range(connections)
Register(f, fd, v) == [g \in DOMAIN f \cup {fd} |-> IF g = fd THEN v ELSE f[g]]
Smallest(S) == CHOOSE e \in S : \A g \in S : e <= g

Init ==
  /\ running = FALSE /\ stop_requested = FALSE
  /\ socket_events = [fd \in {} |-> {}] /\ callbacks = {}
  /\ socket_mutex = NoThread
  /\ connections = [id \in {} |-> NoFd] /\ next_conn_id = 1
  /\ pc = [t \in Threads |-> "idle"]
  /\ fds = [t \in Threads |-> {}]
  /\ at = [t \in Threads |-> NoFd]
  /\ conn = [t \in Threads |-> 0]
-----------------------------------------------------------------------------
(* run() tests the flag, sets it, and clears the other one, in three steps. *)
run(t) ==
  /\ pc[t] = "idle" /\ ~running
  /\ Goto(t, "starting")
  /\ UNCHANGED <<running, stop_requested, socketVars, socket_mutex, clientVars, fds, at, conn>>

SetRunning(t) ==
  /\ pc[t] = "starting"
  /\ running' = TRUE
  /\ Goto(t, "clearing")
  /\ UNCHANGED <<stop_requested, socketVars, socket_mutex, clientVars, fds, at, conn>>

ClearStop(t) ==
  /\ pc[t] = "clearing"
  /\ stop_requested' = FALSE
  /\ Goto(t, "loop")
  /\ UNCHANGED <<running, socketVars, socket_mutex, clientVars, fds, at, conn>>

(* stop() tests the one flag and sets the other, in two steps: the loop may *)
(* have ended by then, and another call of run() begun.  event_thread_ is   *)
(* never started, so there is nothing to join.                              *)
stop(t) ==
  /\ pc[t] = "idle" /\ running
  /\ Goto(t, "stopping")
  /\ UNCHANGED <<running, stop_requested, socketVars, socket_mutex, clientVars, fds, at, conn>>

RequestStop(t) ==
  /\ pc[t] = "stopping"
  /\ stop_requested' = TRUE
  /\ Goto(t, "idle")
  /\ UNCHANGED <<running, socketVars, socket_mutex, clientVars, fds, at, conn>>

Registering(t) == pc[t] = "idle" /\ socket_mutex = NoThread

add_socket(t, fd, events) ==
  /\ Registering(t) /\ Open(fd)
  /\ socket_events' = Register(socket_events, fd, events)
  /\ callbacks' = callbacks \cup {fd}
  /\ UNCHANGED <<running, stop_requested, socket_mutex, clientVars, localVars>>

remove_socket(t, fd) ==
  /\ Registering(t)
  /\ socket_events' = Restrict(socket_events, DOMAIN socket_events \ {fd})
  /\ callbacks' = callbacks \ {fd}
  /\ UNCHANGED <<running, stop_requested, socket_mutex, clientVars, localVars>>

update_socket(t, fd, events) ==
  /\ Registering(t) /\ fd \in DOMAIN socket_events
  /\ socket_events' = [socket_events EXCEPT ![fd] = events]
  /\ UNCHANGED <<running, stop_requested, callbacks, socket_mutex, clientVars, localVars>>

(* ConnectionManager::add_connection, for a socket just accepted. *)
add_client(t, fd) ==
  /\ pc[t] = "idle" /\ ~Open(fd)
  /\ next_conn_id <= MaxClients
  /\ connections' = Register(connections, next_conn_id, fd)
  /\ next_conn_id' = next_conn_id + 1
  /\ UNCHANGED <<running, stop_requested, socketVars, socket_mutex, localVars>>

(* ConnectionManager::remove_connection destroys the connection, which      *)
(* closes its socket.                                                       *)
Without(id) == Restrict(connections, DOMAIN connections \ {id})

remove_client(t, id) ==
  /\ pc[t] = "idle"
  /\ connections' = Without(id)
  /\ UNCHANGED <<running, stop_requested, socketVars, socket_mutex, next_conn_id, localVars>>

(* ConnectionManager::clear. *)
clear(t) ==
  /\ pc[t] = "idle"
  /\ connections' = [id \in {} |-> NoFd]
  /\ UNCHANGED <<running, stop_requested, socketVars, socket_mutex, next_conn_id, localVars>>
-----------------------------------------------------------------------------
(* The condition of event_loop_main's loop. *)
event_loop_main(t) ==
  /\ pc[t] = "loop"
  /\ Goto(t, IF stop_requested THEN "leaving" ELSE "setup")
  /\ UNCHANGED <<running, stop_requested, socketVars, socket_mutex, clientVars, fds, at, conn>>

(* setup_fd_sets, under the mutex; without sockets process_events sleeps    *)
(* and returns.                                                             *)
setup_fd_sets(t) ==
  /\ pc[t] = "setup" /\ socket_mutex = NoThread
  /\ fds' = [fds EXCEPT ![t] =
       {p \in Fds \X EventTypes : p[1] \in DOMAIN socket_events /\ p[2] \in socket_events[p[1]]}]
  /\ Goto(t, IF DOMAIN socket_events = {} THEN "loop" ELSE "select")
  /\ UNCHANGED <<running, stop_requested, socketVars, socket_mutex, clientVars, at, conn>>

(* select() refuses a descriptor that is closed by now, which ends the      *)
(* loop, and waits otherwise.                                               *)
SelectEnters(t) ==
  /\ pc[t] = "select"
  /\ Goto(t, IF \E p \in fds[t] : ~Open(p[1]) THEN "leaving" ELSE "wait")
  /\ UNCHANGED <<running, stop_requested, socketVars, socket_mutex, clientVars, fds, at, conn>>

SelectWaitsForever(t) ==    \* mutant: no timeout is given to select
  /\ pc[t] = "wait" /\ fds[t] = {}
  /\ fds' = [fds EXCEPT ![t] = {}]
  /\ Goto(t, "loop")
  /\ UNCHANGED <<running, stop_requested, socketVars, socket_mutex, clientVars, at, conn>>

(* A signal interrupts it, which ends the loop like any error. *)
SelectFails(t) ==
  /\ pc[t] = "wait"
  /\ Goto(t, "leaving")
  /\ UNCHANGED <<running, stop_requested, socketVars, socket_mutex, clientVars, fds, at, conn>>

(* It returns 0 after 100 ms. *)
SelectTimeout(t) ==
  /\ pc[t] = "wait"
  /\ fds' = [fds EXCEPT ![t] = {}]
  /\ Goto(t, "loop")
  /\ UNCHANGED <<running, stop_requested, socketVars, socket_mutex, clientVars, at, conn>>

(* It leaves in the sets what is ready. *)
SelectReturns(t, ready) ==
  /\ pc[t] = "wait" /\ ready # {}
  /\ fds' = [fds EXCEPT ![t] = ready]
  /\ Goto(t, "process")
  /\ UNCHANGED <<running, stop_requested, socketVars, socket_mutex, clientVars, at, conn>>

process_select_eventsUnlocks(t) ==    \* mutant: the callbacks run without the mutex
  /\ pc[t] = "process" /\ socket_mutex = NoThread
  /\ fds' = [fds EXCEPT ![t] = {p \in @ : p[1] \in callbacks}]
  /\ Goto(t, "callbacks")
  /\ UNCHANGED <<running, stop_requested, socketVars, socket_mutex, clientVars, at, conn>>

(* process_select_events locks the mutex; only the descriptors that have a  *)
(* callback now matter.                                                     *)
process_select_events(t) ==
  /\ pc[t] = "process" /\ socket_mutex = NoThread
  /\ socket_mutex' = t
  /\ fds' = [fds EXCEPT ![t] = {p \in @ : p[1] \in callbacks}]
  /\ Goto(t, "callbacks")
  /\ UNCHANGED <<running, stop_requested, socketVars, clientVars, at, conn>>

(* The next callback: descriptors in any order, the events of one in the    *)
(* order READ, WRITE, ERROR_EVENT.                                          *)
Calls(t, fd, event) ==
  /\ pc[t] = "callbacks" /\ at[t] \in {NoFd, fd}
  /\ event = Smallest({e \in EventTypes : <<fd, e>> \in fds[t]})
  /\ fds' = [fds EXCEPT ![t] = @ \ {<<fd, event>>}]
  /\ at' = [at EXCEPT ![t] = IF \E e \in EventTypes : <<fd, e>> \in fds'[t] THEN fd ELSE NoFd]

(* handle_new_connection, handle_client_write, and a handler that finds no  *)
(* connection for the descriptor, return.                                   *)
CallbackReturns(t, fd, event) ==
  /\ Calls(t, fd, event)
  /\ event = WRITE \/ fd \notin Range(connections)
  /\ UNCHANGED <<running, stop_requested, socketVars, socket_mutex, clientVars, pc, conn>>

(* handle_client_data or handle_client_error has found its connection and   *)
(* goes on with the pointer, outside the connection manager's mutex.        *)
CallbackFinds(t, fd, event) ==
  /\ Calls(t, fd, event)
  /\ event # WRITE
  /\ \E id \in DOMAIN connections : connections[id] = fd /\ conn' = [conn EXCEPT ![t] = id]
  /\ Goto(t, IF event = READ THEN "data" ELSE "error")
  /\ UNCHANGED <<running, stop_requested, socketVars, socket_mutex, clientVars>>

(* The read of handle_client_data brings bytes, or is one of a connection   *)
(* another thread has destroyed by now, and may return anything.            *)
handle_client_data(t) ==
  /\ pc[t] = "data"
  /\ conn' = [conn EXCEPT ![t] = 0]
  /\ Goto(t, "callbacks")
  /\ UNCHANGED <<running, stop_requested, socketVars, socket_mutex, clientVars, fds, at>>

(* The read ended the connection, or there was an error: the client goes if *)
(* it is still there, and remove_socket waits for the mutex its own thread  *)
(* holds.                                                                   *)
handle_client_error(t) ==
  /\ pc[t] \in {"data", "error"}
  /\ connections' = Without(conn[t])
  /\ conn' = [conn EXCEPT ![t] = 0]
  /\ Goto(t, "relock")
  /\ UNCHANGED <<running, stop_requested, socketVars, socket_mutex, next_conn_id, fds, at>>

ProcessDone(t) ==
  /\ pc[t] = "callbacks" /\ fds[t] = {}
  /\ socket_mutex' = NoThread
  /\ Goto(t, "loop")
  /\ UNCHANGED <<running, stop_requested, socketVars, clientVars, fds, at, conn>>

(* run() returns. *)
Leave(t) ==
  /\ pc[t] = "leaving"
  /\ running' = FALSE
  /\ fds' = [fds EXCEPT ![t] = {}]
  /\ Goto(t, "idle")
  /\ UNCHANGED <<stop_requested, socketVars, socket_mutex, clientVars, at, conn>>

LoopStep(t) ==
  \/ SetRunning(t) \/ ClearStop(t) \/ event_loop_main(t) \/ setup_fd_sets(t)
  \/ SelectEnters(t) \/ SelectTimeout(t)
  \/ process_select_events(t) \/ ProcessDone(t) \/ Leave(t)
  \/ \E p \in fds[t] : CallbackReturns(t, p[1], p[2]) \/ CallbackFinds(t, p[1], p[2])
  \/ handle_client_data(t) \/ handle_client_error(t)

Call(t) ==
  \/ run(t) \/ stop(t) \/ RequestStop(t) \/ clear(t)
  \/ \E fd \in Fds : \/ remove_socket(t, fd)
                     \/ \E events \in Masks : add_socket(t, fd, events) \/ update_socket(t, fd, events)
  \/ \E fd \in ClientFds : add_client(t, fd)
  \/ \E id \in DOMAIN connections : remove_client(t, id)

Ready(t) == \E ready \in SUBSET fds[t] : SelectReturns(t, ready)

Next == \E t \in Threads : LoopStep(t) \/ Ready(t) \/ SelectFails(t) \/ Call(t)

Spec == Init /\ [][Next]_vars

(* A thread inside run() keeps running; select returns after its timeout.   *)
(* No socket has to become ready, no signal has to come, and nobody has to  *)
(* call anything.                                                           *)
FairSpec == Spec /\ \A t \in Threads : WF_vars(LoopStep(t))
-----------------------------------------------------------------------------
InCallbacks(t) == pc[t] \in {"callbacks", "data", "error", "relock"}

(* A callback is called only while its socket is registered, although the   *)
(* sets of select are older, and never by two threads at once, although two *)
(* calls of run() that begin together both loop (process_select_events).    *)
CalledWhileRegistered ==
  \A t \in Threads : InCallbacks(t) =>
    /\ {p[1] : p \in fds[t]} \subseteq callbacks
    /\ \A u \in Threads \ {t} : ~InCallbacks(u)

Starting(t) == pc[t] \in {"starting", "clearing"}
Looping(t)  == pc[t] \notin {"idle", "stopping"}

(* A stop that no call of run() is about to clear ends every loop within a  *)
(* round, unless a callback dropped a client and with it locked the mutex   *)
(* its thread holds (stop, event_loop_main, process_events).                *)
StopHeeded ==
  (stop_requested /\ \A t \in Threads : ~Starting(t)) ~>
     \/ \A t \in Threads : ~Looping(t)
     \/ \E t \in Threads : Starting(t) \/ pc[t] = "relock"
=============================================================================
