--------------------------- MODULE EventLoopProofs ---------------------------
(***************************************************************************)
(* CalledWhileRegistered, for every set of threads and descriptors.         *)
(*                                                                          *)
(* The invariant is not inductive: it does not say why nobody unregisters a *)
(* socket meanwhile.  LockInv does, the thread that calls back owns         *)
(* socket_mutex_ and every change of the registrations wants it free.       *)
(***************************************************************************)
EXTENDS EventLoop, TLAPS

Labels == {"idle", "stopping", "starting", "clearing", "loop", "setup", "select", "wait", "process",
           "callbacks", "data", "error", "relock", "leaving"}

Typed ==
  /\ pc \in [Threads -> Labels]
  /\ DOMAIN fds = Threads

(* socket_mutex_ is held from the lock of process_select_events to its      *)
(* return, and nowhere else across steps.                                   *)
LockInv == \A t \in Threads : InCallbacks(t) <=> socket_mutex = t

(* What is left to call is registered. *)
RegisteredInv ==
  \A t \in Threads : socket_mutex = t => \A p \in fds[t] : p[1] \in callbacks

CallInv == Typed /\ LockInv /\ RegisteredInv

LEMMA CallInvInit == Init => CallInv
BY EventLoopAssumption DEF Init, CallInv, Typed, LockInv, RegisteredInv, InCallbacks, Labels

LEMMA CallInvImplies == CallInv => CalledWhileRegistered
BY DEF CallInv, LockInv, RegisteredInv, CalledWhileRegistered

(* A step that moves thread t from a label outside the callbacks to another *)
(* one such, and touches neither the mutex nor the callbacks.               *)
LEMMA OutsideStep ==
  ASSUME CallInv, NEW t \in Threads, NEW label \in Labels,
         ~InCallbacks(t), label \notin {"callbacks", "data", "error", "relock"},
         pc' = [pc EXCEPT ![t] = label],
         DOMAIN fds' = Threads, \A u \in Threads \ {t} : fds'[u] = fds[u],
         UNCHANGED <<callbacks, socket_mutex>>
  PROVE  CallInv'
<1>1. Typed'
  BY DEF CallInv, Typed
<1>2. LockInv'
  BY DEF CallInv, Typed, LockInv, InCallbacks
<1>3. RegisteredInv'
  BY DEF CallInv, RegisteredInv, LockInv
<1> QED
  BY <1>1, <1>2, <1>3 DEF CallInv

(* A step of the thread that calls back, which may only call. *)
LEMMA InsideStep ==
  ASSUME CallInv, NEW t \in Threads, NEW label \in {"callbacks", "data", "error", "relock"},
         InCallbacks(t),
         pc' = [pc EXCEPT ![t] = label],
         DOMAIN fds' = Threads, \A u \in Threads \ {t} : fds'[u] = fds[u],
         fds'[t] \subseteq fds[t],
         UNCHANGED <<callbacks, socket_mutex>>
  PROVE  CallInv'
<1>1. Typed'
  BY DEF CallInv, Typed, Labels
<1>2. LockInv'
  BY DEF CallInv, Typed, LockInv, InCallbacks
<1>3. RegisteredInv'
  BY DEF CallInv, RegisteredInv, LockInv
<1> QED
  BY <1>1, <1>2, <1>3 DEF CallInv

(* A step of an idle thread that leaves the threads alone, and changes the  *)
(* callbacks only while the mutex is free.                                  *)
LEMMA IdleStep ==
  ASSUME CallInv, UNCHANGED <<pc, fds, socket_mutex>>,
         callbacks' = callbacks \/ socket_mutex = NoThread
  PROVE  CallInv'
<1>1. Typed' /\ LockInv'
  BY DEF CallInv, Typed, LockInv, InCallbacks
<1>2. RegisteredInv'
  BY EventLoopAssumption DEF CallInv, RegisteredInv
<1> QED
  BY <1>1, <1>2 DEF CallInv

LEMMA CallInvLock ==
  ASSUME CallInv, NEW t \in Threads, process_select_events(t)
  PROVE  CallInv'
<1> USE DEF process_select_events, Goto, socketVars
<1>1. Typed'
  BY DEF CallInv, Typed, Labels
<1>2. \A u \in Threads : ~InCallbacks(u)
  BY EventLoopAssumption DEF CallInv, LockInv
<1>3. LockInv'
  BY <1>2 DEF CallInv, Typed, LockInv, InCallbacks
<1>4. \A p \in fds'[t] : p[1] \in callbacks
  BY DEF CallInv, Typed
<1>5. RegisteredInv'
  BY <1>4 DEF RegisteredInv
<1> QED
  BY <1>1, <1>3, <1>5 DEF CallInv

LEMMA CallInvUnlock ==
  ASSUME CallInv, NEW t \in Threads, ProcessDone(t)
  PROVE  CallInv'
<1> USE DEF ProcessDone, Goto
<1>1. Typed'
  BY DEF CallInv, Typed, Labels
<1>2. \A u \in Threads \ {t} : ~InCallbacks(u)
  BY DEF CallInv, LockInv, InCallbacks
<1>3. LockInv'
  BY <1>2, EventLoopAssumption DEF CallInv, Typed, LockInv, InCallbacks
<1>4. RegisteredInv'
  BY EventLoopAssumption DEF RegisteredInv
<1> QED
  BY <1>1, <1>3, <1>4 DEF CallInv

LEMMA CallInvLoop ==
  ASSUME CallInv, NEW t \in Threads, LoopStep(t)
  PROVE  CallInv'
<1> USE DEF Goto, socketVars
<1>0. Typed
  BY DEF CallInv
<1>1. CASE SetRunning(t) \/ ClearStop(t)
  BY <1>0, <1>1, OutsideStep DEF SetRunning, ClearStop, Typed, InCallbacks, Labels
<1>2. CASE event_loop_main(t)
  <2>1. PICK label \in {"leaving", "setup"} : pc' = [pc EXCEPT ![t] = label]
    BY <1>2 DEF event_loop_main
  <2> QED
    BY <1>0, <1>2, <2>1, OutsideStep DEF event_loop_main, Typed, InCallbacks, Labels
<1>3. CASE setup_fd_sets(t)
  <2>1. PICK label \in {"loop", "select"} : pc' = [pc EXCEPT ![t] = label]
    BY <1>3 DEF setup_fd_sets
  <2>2. DOMAIN fds' = Threads /\ \A u \in Threads \ {t} : fds'[u] = fds[u]
    BY <1>0, <1>3 DEF setup_fd_sets, Typed
  <2> QED
    BY <1>0, <1>3, <2>1, <2>2, OutsideStep DEF setup_fd_sets, Typed, InCallbacks, Labels
<1>4. CASE SelectEnters(t)
  <2>1. PICK label \in {"leaving", "wait"} : pc' = [pc EXCEPT ![t] = label]
    BY <1>4 DEF SelectEnters
  <2> QED
    BY <1>0, <1>4, <2>1, OutsideStep DEF SelectEnters, Typed, InCallbacks, Labels
<1>5. CASE SelectTimeout(t) \/ Leave(t)
  BY <1>0, <1>5, OutsideStep DEF SelectTimeout, Leave, Typed, InCallbacks, Labels
<1>6. CASE process_select_events(t)
  BY <1>6, CallInvLock
<1>7. CASE ProcessDone(t)
  BY <1>7, CallInvUnlock
<1>8. ASSUME NEW p \in fds[t], CallbackReturns(t, p[1], p[2])
      PROVE  CallInv'
  <2>1. /\ DOMAIN fds' = Threads /\ \A u \in Threads \ {t} : fds'[u] = fds[u]
        /\ fds'[t] \subseteq fds[t]
    BY <1>0, <1>8 DEF CallbackReturns, Calls, Typed
  <2>2. pc' = [pc EXCEPT ![t] = "callbacks"] /\ InCallbacks(t)
    BY <1>0, <1>8 DEF CallbackReturns, Calls, Typed, InCallbacks
  <2> QED
    BY <1>8, <2>1, <2>2, InsideStep DEF CallbackReturns
<1>9. ASSUME NEW p \in fds[t], CallbackFinds(t, p[1], p[2])
      PROVE  CallInv'
  <2>1. /\ DOMAIN fds' = Threads /\ \A u \in Threads \ {t} : fds'[u] = fds[u]
        /\ fds'[t] \subseteq fds[t]
    BY <1>0, <1>9 DEF CallbackFinds, Calls, Typed
  <2>2. InCallbacks(t)
    BY <1>9 DEF CallbackFinds, Calls, InCallbacks
  <2>3. PICK label \in {"data", "error"} : pc' = [pc EXCEPT ![t] = label]
    BY <1>9 DEF CallbackFinds
  <2> QED
    BY <1>9, <2>1, <2>2, <2>3, InsideStep DEF CallbackFinds
<1>10. CASE handle_client_data(t) \/ handle_client_error(t)
  BY <1>0, <1>10, InsideStep DEF handle_client_data, handle_client_error, Typed, InCallbacks
<1> QED
  BY <1>1, <1>2, <1>3, <1>4, <1>5, <1>6, <1>7, <1>8, <1>9, <1>10 DEF LoopStep

LEMMA CallInvCall ==
  ASSUME CallInv, NEW t \in Threads, Call(t)
  PROVE  CallInv'
<1>0. Typed
  BY DEF CallInv
<1>1. CASE run(t)
  BY <1>0, <1>1, OutsideStep DEF run, Goto, socketVars, Typed, InCallbacks, Labels
<1>2. CASE stop(t) \/ RequestStop(t) \/ clear(t)
  <2>1. CASE clear(t)
    BY <2>1, IdleStep DEF clear, localVars, socketVars
  <2>2. CASE stop(t)
    BY <1>0, <2>2, OutsideStep DEF stop, Goto, socketVars, Typed, InCallbacks, Labels
  <2>3. CASE RequestStop(t)
    BY <1>0, <2>3, OutsideStep DEF RequestStop, Goto, socketVars, Typed, InCallbacks, Labels
  <2> QED
    BY <1>2, <2>1, <2>2, <2>3
<1>3. ASSUME NEW fd \in Fds, remove_socket(t, fd)
      PROVE  CallInv'
  BY <1>3, IdleStep DEF remove_socket, Registering, localVars
<1>4. ASSUME NEW fd \in Fds, NEW events \in Masks,
             add_socket(t, fd, events) \/ update_socket(t, fd, events)
      PROVE  CallInv'
  BY <1>4, IdleStep DEF add_socket, update_socket, Registering, localVars
<1>5. ASSUME NEW fd \in ClientFds, add_client(t, fd)
      PROVE  CallInv'
  BY <1>5, IdleStep DEF add_client, localVars, socketVars
<1>6. ASSUME NEW id \in DOMAIN connections, remove_client(t, id)
      PROVE  CallInv'
  BY <1>6, IdleStep DEF remove_client, localVars, socketVars
<1> QED
  BY <1>1, <1>2, <1>3, <1>4, <1>5, <1>6 DEF Call

LEMMA CallInvReady ==
  ASSUME CallInv, NEW t \in Threads, Ready(t) \/ SelectFails(t)
  PROVE  CallInv'
<1>0. Typed
  BY DEF CallInv
<1>1. CASE Ready(t)
  <2>1. PICK ready \in SUBSET fds[t] : SelectReturns(t, ready)
    BY <1>1 DEF Ready
  <2> QED
    BY <1>0, <2>1, OutsideStep DEF SelectReturns, Goto, socketVars, Typed, InCallbacks, Labels
<1>2. CASE SelectFails(t)
  BY <1>0, <1>2, OutsideStep DEF SelectFails, Goto, socketVars, Typed, InCallbacks, Labels
<1> QED
  BY <1>1, <1>2

LEMMA CallInvStep ==
  ASSUME CallInv, [Next]_vars
  PROVE  CallInv'
<1>1. CASE UNCHANGED vars
  BY <1>1, IdleStep DEF vars, localVars, socketVars
<1>2. CASE Next
  BY <1>2, CallInvLoop, CallInvCall, CallInvReady DEF Next
<1> QED
  BY <1>1, <1>2

(* A callback runs only for a socket that is registered at that moment,     *)
(* although select's sets were filled before the mutex was released, and    *)
(* only one thread runs callbacks, although run() lets two threads loop     *)
(* (process_select_events, add_socket, remove_socket).                      *)
THEOREM CallsRegistered == Spec => []CalledWhileRegistered
<1>1. Init => CallInv
  BY CallInvInit
<1>2. CallInv /\ [Next]_vars => CallInv'
  BY CallInvStep
<1> QED
  BY <1>1, <1>2, CallInvImplies, PTL DEF Spec
=============================================================================
