---------------------------- MODULE KVStoreProofs ----------------------------
(***************************************************************************)
(* What the commands of any number of threads leave in the store, in their  *)
(* replies and in the counters, for every set of keys and requests.         *)
(***************************************************************************)
EXTENDS KVStore, FiniteSetTheorems, TLAPS

Labels == handlers \cup
            {"idle", "dispatch", "get", "set", "del", "exists", "stats", "clear", "done"}

Typed ==
  /\ db \in [Keys -> Values \cup {Nil}]
  /\ stats \in [Counters -> Nat] /\ raw \in Nat /\ overlapped \in BOOLEAN
  /\ pc \in [Threads -> Labels]
  /\ args \in [Threads -> Requests \cup {<<>>}]
  /\ i \in [Threads -> Nat] /\ count \in [Threads -> Nat]
  /\ DOMAIN reply = Threads
  /\ always \in [Threads -> SUBSET Keys] /\ ever \in [Threads -> SUBSET Keys]

(* Where a thread is tells what its arguments are, and what it has not      *)
(* touched yet.                                                             *)
ArgsInv(t) ==
  /\ pc[t] \in handlers => args[t] \in Requests /\ args[t] # <<>> /\ args[t][1] = pc[t]
  /\ pc[t] = "set" => args[t][2] \in Keys /\ args[t][3] \in Values
  /\ pc[t] \in {"del", "exists"} =>
       /\ args[t] \in Requests /\ i[t] \in 2 .. Len(args[t]) + 1
       /\ \A j \in 2 .. Len(args[t]) : args[t][j] \in Keys
  /\ pc[t] = "idle" => i[t] = 0
  /\ pc[t] = "clear" => i[t] \in 0 .. 4
  /\ pc[t] \in {"idle", "dispatch"} \cup handlers => count[t] = 0
  /\ pc[t] \in {"idle", "dispatch"} => reply[t] = NoReply

ControlInv == Typed /\ \A t \in Threads : ArgsInv(t)

(* A step of t that leaves the other threads alone. *)
Alone(t) ==
  \A u \in Threads \ {t} :
    /\ pc'[u] = pc[u] /\ args'[u] = args[u] /\ i'[u] = i[u] /\ count'[u] = count[u]
    /\ reply'[u] = reply[u]

LEMMA ControlInit == Init => ControlInv
<1> SUFFICES ASSUME Init PROVE ControlInv
  OBVIOUS
<1>1. Typed
  BY DEF Init, Typed, Labels
<1>2. ASSUME NEW t \in Threads PROVE ArgsInv(t)
  BY DEF Init, ArgsInv, handlers
<1> QED
  BY <1>1, <1>2 DEF ControlInv

LEMMA ControlStep ==
  ASSUME ControlInv, NEW t \in Threads, Alone(t), Typed', ArgsInv(t)'
  PROVE  ControlInv'
<1>1. ASSUME NEW u \in Threads, u # t PROVE ArgsInv(u)'
  BY <1>1 DEF ControlInv, ArgsInv, Alone
<1> QED
  BY <1>1 DEF ControlInv

(* The contents a step leaves in the table. *)
LEMMA ContentsTyped ==
  ASSUME Typed, NEW c \in [Keys -> Values \cup {Nil}], Contents(c)
  PROVE  /\ db' \in [Keys -> Values \cup {Nil}]
         /\ always' \in [Threads -> SUBSET Keys] /\ ever' \in [Threads -> SUBSET Keys]
<1>1. \A S : Stored(S) \subseteq Keys
  BY DEF Stored
<1>2. db' \in [Keys -> Values \cup {Nil}]
  BY DEF Contents
<1>3. always' \in [Threads -> SUBSET Keys]
  BY <1>1 DEF Contents, Typed
<1>4. ever' \in [Threads -> SUBSET Keys]
  BY <1>1 DEF Contents, Typed
<1> QED
  BY <1>2, <1>3, <1>4

LEMMA ControlEnter ==
  ASSUME ControlInv, NEW t \in Threads, Call(t)
  PROVE  ControlInv'
<1>1. PICK request \in Requests \cup {<<>>}, label \in {"dispatch", "stats", "clear"} :
        Enter(t, request, label)
  BY DEF Call, execute_command, raw_command, get_stats, clear
<1>2. stats' \in [Counters -> Nat] /\ raw' \in Nat
  BY DEF Call, execute_command, raw_command, get_stats, clear, Bump, ControlInv, Typed, Counters
<1>3. Typed'
  <2>1. Stored(db) \subseteq Keys
    BY DEF Stored
  <2> QED
    BY <1>1, <1>2, <2>1 DEF Enter, Goto, ControlInv, Typed, Labels
<1>4. Alone(t)
  BY <1>1 DEF Enter, Goto, Alone, ControlInv, Typed
<1>5. ArgsInv(t)'
  BY <1>1 DEF Enter, Goto, ControlInv, Typed, ArgsInv, handlers
<1> QED
  BY <1>3, <1>4, <1>5, ControlStep

LEMMA ControlDispatch ==
  ASSUME ControlInv, NEW t \in Threads, execute_raw(t)
  PROVE  ControlInv'
<1>1. Typed' /\ Alone(t)
  BY DEF execute_raw, Returns, Goto, ControlInv, Typed, Alone, Labels, history
<1>2. ArgsInv(t)'
  BY DEF execute_raw, Returns, Goto, ControlInv, Typed, ArgsInv, handlers
<1> QED
  BY <1>1, <1>2, ControlStep

LEMMA ControlBegin ==
  ASSUME ControlInv, NEW t \in Threads,
         handle_get(t) \/ handle_set(t) \/ handle_del(t) \/ handle_exists(t)
  PROVE  ControlInv'
<1>1. ASSUME NEW name \in handlers, NEW arityOK \in BOOLEAN, NEW counter,
             NEW label \in {"get", "set", "del", "exists"}, Begin(t, name, arityOK, counter, label),
             arityOK => /\ label = "set" => name = "SET" /\ Len(args[t]) >= 3
                        /\ label \in {"del", "exists"} => name \in {"DEL", "EXISTS"} /\ Len(args[t]) >= 2
      PROVE  ControlInv'
  <2>1. stats' \in [Counters -> Nat]
    <3>1. stats \in [Counters -> Nat]
      BY DEF ControlInv, Typed
    <3>2. CASE arityOK
      BY <1>1, <3>1, <3>2 DEF Begin
    <3>3. CASE ~arityOK
      BY <1>1, <3>1, <3>3 DEF Begin
    <3> QED
      BY <3>2, <3>3
  <2>2. Typed' /\ Alone(t)
    BY <1>1, <2>1 DEF Begin, Returns, Goto, ControlInv, Typed, Alone, Labels, history
  <2>3. args[t] \in Requests /\ args[t] # <<>> /\ args[t][1] = name /\ count[t] = 0
    BY <1>1 DEF Begin, ControlInv, ArgsInv
  <2>4. CASE arityOK
    <3>1. /\ pc'[t] = label /\ i'[t] = 2 /\ args' = args /\ count' = count
      BY <1>1, <2>4 DEF Begin, Goto, ControlInv, Typed
    <3>2. label = "set" => args[t][2] \in Keys /\ args[t][3] \in Values
      BY <1>1, <2>3, <2>4, KVStoreAssumption
    <3>3. label \in {"del", "exists"} => /\ \A j \in 2 .. Len(args[t]) : args[t][j] \in Keys
                                         /\ 2 \in 2 .. Len(args[t]) + 1
      BY <1>1, <2>3, <2>4, KVStoreAssumption
    <3>4. ArgsInv(t)'
      BY <2>3, <3>1, <3>2, <3>3 DEF ArgsInv, handlers
    <3> QED
      BY <2>2, <3>4, ControlStep
  <2>5. CASE ~arityOK
    <3>1. pc'[t] = "done"
      BY <1>1, <2>5 DEF Begin, Returns, Goto, ControlInv, Typed
    <3>2. ArgsInv(t)'
      BY <3>1 DEF ArgsInv, handlers
    <3> QED
      BY <2>2, <3>2, ControlStep
  <2> QED
    BY <2>4, <2>5
<1>2. CASE handle_get(t)
  BY <1>1, <1>2 DEF handle_get, handlers
<1>3. CASE handle_set(t)
  <2> DEFINE enough == Len(args[t]) >= 3
  <2>1. Begin(t, "SET", enough, "set_commands", "set") /\ enough \in BOOLEAN
    BY <1>3 DEF handle_set
  <2>2. enough => Len(args[t]) >= 3
    OBVIOUS
  <2> HIDE DEF enough
  <2> QED
    BY <1>1, <2>1, <2>2 DEF handlers
<1>4. CASE handle_del(t)
  <2> DEFINE enough == Len(args[t]) >= 2
  <2>1. Begin(t, "DEL", enough, "del_commands", "del") /\ enough \in BOOLEAN
    BY <1>4 DEF handle_del
  <2>2. enough => Len(args[t]) >= 2
    OBVIOUS
  <2> HIDE DEF enough
  <2> QED
    BY <1>1, <2>1, <2>2 DEF handlers
<1>5. CASE handle_exists(t)
  <2> DEFINE enough == Len(args[t]) >= 2
  <2>1. Begin(t, "EXISTS", enough, "none", "exists") /\ enough \in BOOLEAN
    BY <1>5 DEF handle_exists
  <2>2. enough => Len(args[t]) >= 2
    OBVIOUS
  <2> HIDE DEF enough
  <2> QED
    BY <1>1, <2>1, <2>2 DEF handlers
<1> QED
  BY <1>2, <1>3, <1>4, <1>5

(* The steps that end a command, or a turn of reading a list. *)
LEMMA ControlQuery ==
  ASSUME ControlInv, NEW t \in Threads, NEW label, NEW value, Query(t, label, value)
  PROVE  ControlInv'
<1>1. Typed' /\ Alone(t) /\ pc'[t] = "done"
  BY DEF Query, Returns, Goto, ControlInv, Typed, Alone, Labels, history
<1>2. ArgsInv(t)'
  BY <1>1 DEF ArgsInv, handlers
<1> QED
  BY <1>1, <1>2, ControlStep

LEMMA ControlRead ==
  ASSUME ControlInv, NEW t \in Threads, handle_info(t) \/ ReadStats(t)
  PROVE  ControlInv'
<1>1. PICK label \in {"INFO", "stats"} : \E reads : ReadNext(t, label, reads)
  BY DEF handle_info, ReadStats
<1>2. /\ Typed' /\ Alone(t) /\ pc[t] = label /\ pc'[t] \in {label, "done"}
      /\ UNCHANGED <<args, count>>
  BY <1>1, ZenonT(30) DEF ReadNext, Goto, ControlInv, Typed, Alone, Labels, history
<1>3. ArgsInv(t)'
  BY <1>2 DEF ControlInv, ArgsInv, handlers
<1> QED
  BY <1>2, <1>3, ControlStep

LEMMA ControlSet ==
  ASSUME ControlInv, NEW t \in Threads, SetValue(t)
  PROVE  ControlInv'
<1>1. [db EXCEPT ![args[t][2]] = args[t][3]] \in [Keys -> Values \cup {Nil}]
  BY DEF SetValue, ControlInv, Typed, ArgsInv
<1>2. Typed' /\ Alone(t) /\ pc'[t] = "done"
  BY <1>1, ContentsTyped DEF SetValue, Returns, Goto, ControlInv, Typed, Alone, Labels
<1>3. ArgsInv(t)'
  BY <1>2 DEF ArgsInv, handlers
<1> QED
  BY <1>2, <1>3, ControlStep

LEMMA ControlFlush ==
  ASSUME ControlInv, NEW t \in Threads, handle_flushdb(t)
  PROVE  ControlInv'
<1>1. [k \in Keys |-> Nil] \in [Keys -> Values \cup {Nil}]
  OBVIOUS
<1>2. /\ db' \in [Keys -> Values \cup {Nil}]
      /\ always' \in [Threads -> SUBSET Keys] /\ ever' \in [Threads -> SUBSET Keys]
  BY <1>1, ContentsTyped DEF handle_flushdb, ControlInv, Typed, history
<1>3. Typed' /\ Alone(t) /\ pc'[t] = "done"
  BY <1>2 DEF handle_flushdb, Returns, Goto, ControlInv, Typed, Alone, Labels
<1>4. ArgsInv(t)'
  BY <1>3 DEF ArgsInv, handlers
<1> QED
  BY <1>3, <1>4, ControlStep

LEMMA ControlLoop ==
  ASSUME ControlInv, NEW t \in Threads, DelKey(t) \/ ExistsKey(t)
  PROVE  ControlInv'
<1>1. /\ pc[t] \in {"del", "exists"} /\ i[t] \in 2 .. Len(args[t]) /\ args[t][i[t]] \in Keys
      /\ Len(args[t]) \in Nat /\ i[t] \in Nat /\ count[t] \in Nat
  BY KVStoreAssumption DEF DelKey, ExistsKey, ControlInv, Typed, ArgsInv
<1>2. /\ pc' = pc /\ args' = args /\ reply' = reply /\ i' = [i EXCEPT ![t] = i[t] + 1]
      /\ \E n \in {0, 1} : count' = [count EXCEPT ![t] = count[t] + n]
      /\ UNCHANGED <<stats, raw, overlapped>>
  BY DEF DelKey, ExistsKey
<1>3. /\ db' \in [Keys -> Values \cup {Nil}]
      /\ always' \in [Threads -> SUBSET Keys] /\ ever' \in [Threads -> SUBSET Keys]
  <2>1. [db EXCEPT ![args[t][i[t]]] = Nil] \in [Keys -> Values \cup {Nil}]
    BY <1>1 DEF ControlInv, Typed
  <2> QED
    BY <2>1, ContentsTyped DEF DelKey, ExistsKey, ControlInv, Typed, history
<1>4. Typed' /\ Alone(t)
  <2>1. i' \in [Threads -> Nat] /\ \A u \in Threads : u # t => i'[u] = i[u]
    BY <1>1, <1>2 DEF ControlInv, Typed
  <2>2. count' \in [Threads -> Nat] /\ \A u \in Threads : u # t => count'[u] = count[u]
    BY <1>1, <1>2 DEF ControlInv, Typed
  <2>3. Typed'
    BY <1>2, <1>3, <2>1, <2>2 DEF ControlInv, Typed
  <2> QED
    BY <1>2, <2>1, <2>2, <2>3 DEF Alone
<1>5. ArgsInv(t)'
  BY <1>1, <1>2 DEF ControlInv, Typed, ArgsInv, handlers
<1> QED
  BY <1>4, <1>5, ControlStep

LEMMA ControlCounted ==
  ASSUME ControlInv, NEW t \in Threads, Counted(t)
  PROVE  ControlInv'
<1>1. Typed' /\ Alone(t) /\ pc'[t] = "done"
  BY DEF Counted, Returns, Goto, ControlInv, Typed, Alone, Labels, history
<1>2. ArgsInv(t)'
  BY <1>1 DEF ArgsInv, handlers
<1> QED
  BY <1>1, <1>2, ControlStep

LEMMA ControlClear ==
  ASSUME ControlInv, NEW t \in Threads, ClearStore(t) \/ ClearCounter(t)
  PROVE  ControlInv'
<1>1. CASE ClearStore(t)
  <2>1. [k \in Keys |-> Nil] \in [Keys -> Values \cup {Nil}]
    OBVIOUS
  <2>2. Typed' /\ Alone(t) /\ pc'[t] = "clear" /\ i'[t] = 1
    BY <1>1, <2>1, ContentsTyped DEF ClearStore, ControlInv, Typed, Alone
  <2>3. ArgsInv(t)'
    BY <2>2 DEF ArgsInv, handlers
  <2> QED
    BY <2>2, <2>3, ControlStep
<1>2. CASE ClearCounter(t)
  <2>1. stats' \in [Counters -> Nat]
    BY <1>2 DEF ClearCounter, ControlInv, Typed
  <2>2. /\ Typed' /\ Alone(t)
        /\ (pc'[t] = "clear" /\ i'[t] \in 0 .. 4) \/ pc'[t] = "done"
    BY <1>2, <2>1, SMTT(30) DEF ClearCounter, Goto, ControlInv, Typed, Alone, Labels, history
  <2>3. ArgsInv(t)'
    BY <2>2 DEF ArgsInv, handlers
  <2> QED
    BY <2>2, <2>3, ControlStep
<1> QED
  BY <1>1, <1>2

LEMMA ControlReturn ==
  ASSUME ControlInv, NEW t \in Threads, Return(t)
  PROVE  ControlInv'
<1>1. /\ Typed' /\ Alone(t)
      /\ pc'[t] = "idle" /\ i'[t] = 0 /\ count'[t] = 0 /\ reply'[t] = NoReply
  BY DEF Return, Goto, ControlInv, Typed, Alone, Labels
<1>2. ArgsInv(t)'
  BY <1>1 DEF ArgsInv, handlers
<1> QED
  BY <1>1, <1>2, ControlStep

LEMMA ControlNext == ControlInv /\ [Next]_vars => ControlInv'
<1> SUFFICES ASSUME ControlInv, [Next]_vars PROVE ControlInv'
  OBVIOUS
<1>1. ASSUME NEW t \in Threads, Step(t) PROVE ControlInv'
  BY <1>1, ControlDispatch, ControlBegin, ControlQuery, ControlRead, ControlSet, ControlFlush,
     ControlLoop, ControlCounted, ControlClear, ControlReturn
     DEF Step, handle_keys, handle_dbsize, handle_ping, handle_echo, GetValue
<1>2. CASE UNCHANGED vars
  BY <1>2 DEF vars, threadVars, history, ControlInv, Typed, ArgsInv
<1> QED
  BY <1>1, <1>2, ControlEnter DEF Next
-----------------------------------------------------------------------------
(* The store: what is there, and what every call under way has seen of it. *)
HistoryInv(t) ==
  /\ always[t] \subseteq Stored(db)
  /\ IsFiniteSet(ever[t])
  /\ pc[t] # "idle" => Stored(db) \subseteq ever[t]

StoreInv ==
  /\ IsFiniteSet(Stored(db)) /\ Accounted
  /\ \A t \in Threads : HistoryInv(t)

LEMMA StoredChanges ==
  ASSUME NEW f \in [Keys -> Values \cup {Nil}], IsFiniteSet(Stored(f)), NEW k \in Keys
  PROVE  /\ \A v \in Values :
              /\ IsFiniteSet(Stored([f EXCEPT ![k] = v]))
              /\ Cardinality(Stored([f EXCEPT ![k] = v]))
                   = Cardinality(Stored(f)) + IF f[k] = Nil THEN 1 ELSE 0
         /\ IsFiniteSet(Stored([f EXCEPT ![k] = Nil]))
         /\ Cardinality(Stored([f EXCEPT ![k] = Nil]))
              = Cardinality(Stored(f)) - IF f[k] # Nil THEN 1 ELSE 0
<1>1. Cardinality(Stored(f)) \in Nat /\ (k \in Stored(f) <=> f[k] # Nil)
  BY FS_CardinalityType DEF Stored
<1>2. \A v \in Values : Stored([f EXCEPT ![k] = v]) = Stored(f) \cup {k}
  BY KVStoreAssumption DEF Stored
<1>3. Stored([f EXCEPT ![k] = Nil]) = Stored(f) \ {k}
  BY DEF Stored
<1>4. /\ IsFiniteSet(Stored(f) \cup {k})
      /\ Cardinality(Stored(f) \cup {k}) = Cardinality(Stored(f)) + IF f[k] = Nil THEN 1 ELSE 0
  BY <1>1, FS_AddElement
<1>5. /\ IsFiniteSet(Stored(f) \ {k})
      /\ Cardinality(Stored(f) \ {k}) = Cardinality(Stored(f)) - IF f[k] # Nil THEN 1 ELSE 0
  BY <1>1, FS_RemoveElement
<1> QED
  BY <1>2, <1>3, <1>4, <1>5

LEMMA NothingStored == Stored([k \in Keys |-> Nil]) = {}
  BY DEF Stored

LEMMA StoreInit == Init => StoreInv
<1> SUFFICES ASSUME Init PROVE StoreInv
  OBVIOUS
<1>1. Stored(db) = {}
  BY NothingStored DEF Init
<1> QED
  BY <1>1, FS_EmptySet DEF Init, StoreInv, HistoryInv, Accounted

(* The table changed; nobody entered or left. *)
LEMMA ContentsHistory ==
  ASSUME ControlInv, StoreInv, NEW c, Contents(c), IsFiniteSet(Stored(c)),
         \A u \in Threads : pc'[u] # "idle" => pc[u] # "idle"
  PROVE  \A u \in Threads : HistoryInv(u)'
<1> SUFFICES ASSUME NEW u \in Threads PROVE HistoryInv(u)'
  OBVIOUS
<1>1. /\ db' = c /\ always'[u] = always[u] \cap Stored(c)
      /\ ever'[u] = IF pc[u] = "idle" THEN {} ELSE ever[u] \cup Stored(c)
  BY DEF Contents
<1>2. IsFiniteSet(ever[u] \cup Stored(c)) /\ IsFiniteSet({})
  BY FS_Union, FS_EmptySet DEF StoreInv, HistoryInv
<1> QED
  BY <1>1, <1>2 DEF HistoryInv

(* Nothing in the table changed, and nobody entered or left. *)
LEMMA StoreSame ==
  ASSUME StoreInv, UNCHANGED <<db, history>>,
         \A u \in Threads : pc'[u] # "idle" => pc[u] # "idle"
  PROVE  StoreInv'
<1>1. UNCHANGED <<db, balance, always, ever>>
  BY DEF history
<1> QED
  BY <1>1 DEF StoreInv, Accounted, HistoryInv

LEMMA StoreEnter ==
  ASSUME ControlInv, StoreInv, NEW t \in Threads, Call(t)
  PROVE  StoreInv'
<1>1. \E request, label : Enter(t, request, label)
  BY DEF Call, execute_command, raw_command, get_stats, clear
<1>2. /\ always' = [always EXCEPT ![t] = Stored(db)] /\ ever' = [ever EXCEPT ![t] = Stored(db)]
      /\ UNCHANGED <<db, balance>> /\ \A u \in Threads : u # t => pc'[u] = pc[u]
  BY <1>1 DEF Enter, Goto, ControlInv, Typed
<1>3. ASSUME NEW u \in Threads PROVE HistoryInv(u)'
  BY <1>2 DEF StoreInv, HistoryInv, ControlInv, Typed
<1> QED
  BY <1>2, <1>3 DEF StoreInv, Accounted

LEMMA StoreReturn ==
  ASSUME ControlInv, StoreInv, NEW t \in Threads, Return(t)
  PROVE  StoreInv'
<1>1. /\ always' = [always EXCEPT ![t] = {}] /\ ever' = [ever EXCEPT ![t] = {}]
      /\ UNCHANGED <<db, balance>> /\ pc'[t] = "idle"
      /\ \A u \in Threads : u # t => pc'[u] = pc[u]
  BY DEF Return, Goto, ControlInv, Typed
<1>2. ASSUME NEW u \in Threads PROVE HistoryInv(u)'
  BY <1>1, FS_EmptySet DEF StoreInv, HistoryInv, ControlInv, Typed
<1> QED
  BY <1>1, <1>2 DEF StoreInv, Accounted

LEMMA StoreSet ==
  ASSUME ControlInv, StoreInv, NEW t \in Threads, SetValue(t)
  PROVE  StoreInv'
<1> DEFINE c == [db EXCEPT ![args[t][2]] = args[t][3]]
<1>1. /\ Contents(c) /\ args[t][2] \in Keys /\ args[t][3] \in Values /\ pc[t] = "set"
      /\ balance' = balance + (IF db[args[t][2]] = Nil THEN 1 ELSE 0)
  BY DEF SetValue, ControlInv, ArgsInv
<1>2. IsFiniteSet(Stored(c)) /\ balance' = Cardinality(Stored(c))
  BY <1>1, StoredChanges DEF StoreInv, Accounted, ControlInv, Typed
<1>3. \A u \in Threads : pc'[u] # "idle" => pc[u] # "idle"
  BY <1>1 DEF SetValue, Returns, Goto, ControlInv, Typed
<1> HIDE DEF c
<1>4. \A u \in Threads : HistoryInv(u)'
  BY <1>1, <1>2, <1>3, ContentsHistory
<1>5. db' = c
  BY <1>1 DEF Contents
<1> QED
  BY <1>2, <1>4, <1>5 DEF StoreInv, Accounted

LEMMA StoreDel ==
  ASSUME ControlInv, StoreInv, NEW t \in Threads, DelKey(t)
  PROVE  StoreInv'
<1> DEFINE key == args[t][i[t]]
           c == [db EXCEPT ![key] = Nil]
<1>1. i[t] \in 2 .. Len(args[t]) /\ key \in Keys
  BY KVStoreAssumption DEF DelKey, ControlInv, Typed, ArgsInv
<1>2. /\ Contents(c) /\ balance' = balance - (IF db[key] # Nil THEN 1 ELSE 0) /\ pc' = pc
  BY DEF DelKey
<1>3. IsFiniteSet(Stored(c)) /\ balance' = Cardinality(Stored(c))
  BY <1>1, <1>2, StoredChanges DEF StoreInv, Accounted, ControlInv, Typed
<1> HIDE DEF c
<1>4. \A u \in Threads : HistoryInv(u)'
  BY <1>2, <1>3, ContentsHistory
<1>5. db' = c
  BY <1>2 DEF Contents
<1> QED
  BY <1>3, <1>4, <1>5 DEF StoreInv, Accounted

(* FLUSHDB and clear() empty the table. *)
LEMMA StoreEmptied ==
  ASSUME ControlInv, StoreInv, Contents([k \in Keys |-> Nil]), balance' = 0,
         \A u \in Threads : pc'[u] # "idle" => pc[u] # "idle"
  PROVE  StoreInv'
<1>1. Stored([k \in Keys |-> Nil]) = {} /\ IsFiniteSet({}) /\ Cardinality({}) = 0
  BY NothingStored, FS_EmptySet
<1>2. \A u \in Threads : HistoryInv(u)'
  BY <1>1, ContentsHistory
<1>3. db' = [k \in Keys |-> Nil]
  BY DEF Contents
<1> QED
  BY <1>1, <1>2, <1>3 DEF StoreInv, Accounted

(* The steps that leave the table, and what is known of it, as it is. *)
Looks(t) ==
  \/ execute_raw(t)
  \/ handle_get(t) \/ handle_set(t) \/ handle_del(t) \/ handle_exists(t)
  \/ handle_keys(t) \/ handle_dbsize(t) \/ handle_ping(t) \/ handle_echo(t)
  \/ handle_info(t) \/ GetValue(t) \/ ExistsKey(t) \/ Counted(t)
  \/ ReadStats(t) \/ ClearCounter(t)

LEMMA LooksOnly ==
  ASSUME ControlInv, NEW t \in Threads, Looks(t)
  PROVE  /\ UNCHANGED <<db, history>> /\ Alone(t)
         /\ pc[t] \notin {"idle", "done", "set", "FLUSHDB"} /\ pc'[t] # "idle"
<1>1. CASE execute_raw(t)
  BY <1>1 DEF execute_raw, Returns, Goto, ControlInv, Typed, Alone, handlers
<1>2. ASSUME NEW name \in {"GET", "SET", "DEL", "EXISTS"}, NEW arityOK, NEW counter,
             NEW label \in {"get", "set", "del", "exists"}, Begin(t, name, arityOK, counter, label)
      PROVE  /\ UNCHANGED <<db, history>> /\ Alone(t)
             /\ pc[t] \notin {"idle", "done", "set", "FLUSHDB"} /\ pc'[t] # "idle"
  BY <1>2 DEF Begin, Returns, Goto, ControlInv, Typed, Alone
<1>3. ASSUME NEW label \in {"KEYS", "DBSIZE", "PING", "ECHO", "get"}, NEW value,
             Query(t, label, value)
      PROVE  /\ UNCHANGED <<db, history>> /\ Alone(t)
             /\ pc[t] \notin {"idle", "done", "set", "FLUSHDB"} /\ pc'[t] # "idle"
  BY <1>3 DEF Query, Returns, Goto, ControlInv, Typed, Alone
<1>4. ASSUME NEW label \in {"INFO", "stats"}, NEW reads, ReadNext(t, label, reads)
      PROVE  /\ UNCHANGED <<db, history>> /\ Alone(t)
             /\ pc[t] \notin {"idle", "done", "set", "FLUSHDB"} /\ pc'[t] # "idle"
  BY <1>4 DEF ReadNext, Goto, ControlInv, Typed, Alone
<1>5. CASE ExistsKey(t)
  BY <1>5 DEF ExistsKey, ControlInv, Typed, Alone
<1>6. CASE Counted(t)
  BY <1>6 DEF Counted, Returns, Goto, ControlInv, Typed, Alone
<1>7. CASE ClearCounter(t)
  BY <1>7 DEF ClearCounter, Goto, ControlInv, Typed, Alone
<1> QED
  BY <1>1, <1>2, <1>3, <1>4, <1>5, <1>6, <1>7
     DEF Looks, handle_get, handle_set, handle_del, handle_exists, handle_keys, handle_dbsize,
         handle_ping, handle_echo, handle_info, GetValue, ReadStats

LEMMA FlushCases ==
  ASSUME ControlInv, NEW t \in Threads, handle_flushdb(t)
  PROVE  /\ Alone(t) /\ pc[t] = "FLUSHDB" /\ pc'[t] = "done"
         /\ \/ Contents([k \in Keys |-> Nil]) /\ balance' = 0
            \/ UNCHANGED <<db, history>>
  BY DEF handle_flushdb, Returns, Goto, ControlInv, Typed, Alone

LEMMA StoreNext == ControlInv /\ StoreInv /\ [Next]_vars => StoreInv'
<1> SUFFICES ASSUME ControlInv, StoreInv, [Next]_vars PROVE StoreInv'
  OBVIOUS
<1>1. ASSUME NEW t \in Threads, Looks(t) PROVE StoreInv'
  BY <1>1, LooksOnly, StoreSame DEF Alone
<1>2. ASSUME NEW t \in Threads, handle_flushdb(t) PROVE StoreInv'
  BY <1>2, FlushCases, StoreEmptied, StoreSame DEF Alone
<1>3. ASSUME NEW t \in Threads, ClearStore(t) PROVE StoreInv'
  BY <1>3, StoreEmptied DEF ClearStore
<1>4. CASE UNCHANGED vars
  BY <1>4, StoreSame DEF vars, threadVars
<1> QED
  BY <1>1, <1>2, <1>3, <1>4, StoreEnter, StoreReturn, StoreSet, StoreDel DEF Next, Step, Looks
-----------------------------------------------------------------------------
(* What a call that looks several times has counted so far, between what    *)
(* was there all the time and what was there at some time.                  *)
SeenIn(a, n, S) == {j \in 2 .. n - 1 : a[j] \in S}

Between(p, a, n, c, al, ev) ==
  /\ p = "exists" => Cardinality(SeenIn(a, n, al)) <= c
  /\ p \in {"del", "exists"} => c <= Cardinality(SeenIn(a, n, ev))

Reads(p) == IF p = "stats" THEN StatsReads ELSE InfoReads

Sized(p, r, al, ev) ==
  p \in {"INFO", "stats"} =>
    /\ r.value \in Seq(Nat) /\ Len(r.value) < Len(Reads(p))
    /\ \A n \in DOMAIN r.value :
         Reads(p)[n] = "size" => Cardinality(al) <= r.value[n] /\ r.value[n] <= Cardinality(ev)

WitnessOf(t) ==
  /\ Between(pc[t], args[t], i[t], count[t], always[t], ever[t])
  /\ Sized(pc[t], reply[t], always[t], ever[t])

WitnessInv == \A t \in Threads : WitnessOf(t)

LEMMA SeenFinite ==
  ASSUME NEW a, NEW n \in Nat, NEW S
  PROVE  IsFiniteSet(SeenIn(a, n, S)) /\ Cardinality(SeenIn(a, n, S)) \in Nat
<1>1. IsFiniteSet(2 .. n - 1) /\ SeenIn(a, n, S) \subseteq 2 .. n - 1
  BY FS_Interval DEF SeenIn
<1> QED
  BY <1>1, FS_Subset, FS_CardinalityType

LEMMA SeenMonotone ==
  ASSUME NEW a, NEW n \in Nat, NEW S, NEW T, S \subseteq T
  PROVE  Cardinality(SeenIn(a, n, S)) <= Cardinality(SeenIn(a, n, T))
<1>1. SeenIn(a, n, S) \subseteq SeenIn(a, n, T)
  BY DEF SeenIn
<1> QED
  BY <1>1, SeenFinite, FS_Subset

LEMMA SeenNext ==
  ASSUME NEW a, NEW n \in Nat, n >= 2, NEW S
  PROVE  Cardinality(SeenIn(a, n + 1, S))
           = Cardinality(SeenIn(a, n, S)) + IF a[n] \in S THEN 1 ELSE 0
<1>1. CASE a[n] \in S
  <2>1. SeenIn(a, n + 1, S) = SeenIn(a, n, S) \cup {n} /\ n \notin SeenIn(a, n, S)
    BY <1>1 DEF SeenIn
  <2> QED
    BY <1>1, <2>1, SeenFinite, FS_AddElement
<1>2. CASE a[n] \notin S
  <2>1. SeenIn(a, n + 1, S) = SeenIn(a, n, S)
    BY <1>2 DEF SeenIn
  <2> QED
    BY <1>2, <2>1, SeenFinite
<1> QED
  BY <1>1, <1>2

LEMMA SeenNone ==
  ASSUME NEW a, NEW S
  PROVE  Cardinality(SeenIn(a, 2, S)) = 0
<1>1. SeenIn(a, 2, S) = {}
  BY DEF SeenIn
<1> QED
  BY <1>1, FS_EmptySet

(* The bounds still hold when they widen. *)
LEMMA BetweenWider ==
  ASSUME NEW p, NEW a, NEW n \in Nat, NEW c \in Nat,
         NEW al, NEW al2, al2 \subseteq al, NEW ev, NEW ev2, ev \subseteq ev2,
         Between(p, a, n, c, al, ev)
  PROVE  Between(p, a, n, c, al2, ev2)
<1>1. /\ Cardinality(SeenIn(a, n, al2)) <= Cardinality(SeenIn(a, n, al))
      /\ Cardinality(SeenIn(a, n, ev)) <= Cardinality(SeenIn(a, n, ev2))
      /\ Cardinality(SeenIn(a, n, al2)) \in Nat /\ Cardinality(SeenIn(a, n, al)) \in Nat
      /\ Cardinality(SeenIn(a, n, ev)) \in Nat /\ Cardinality(SeenIn(a, n, ev2)) \in Nat
  BY SeenMonotone, SeenFinite
<1> QED
  BY <1>1 DEF Between

LEMMA SizedWider ==
  ASSUME NEW p, NEW r, NEW al, NEW al2, al2 \subseteq al, IsFiniteSet(al),
         NEW ev, NEW ev2, ev \subseteq ev2, IsFiniteSet(ev2), Sized(p, r, al, ev)
  PROVE  Sized(p, r, al2, ev2)
<1> SUFFICES ASSUME p \in {"INFO", "stats"} PROVE Sized(p, r, al2, ev2)
  BY DEF Sized
<1>1. /\ Cardinality(al2) <= Cardinality(al) /\ Cardinality(ev) <= Cardinality(ev2)
      /\ Cardinality(al2) \in Nat /\ Cardinality(al) \in Nat
      /\ Cardinality(ev) \in Nat /\ Cardinality(ev2) \in Nat
  BY FS_Subset, FS_CardinalityType
<1>2. /\ r.value \in Seq(Nat) /\ Len(r.value) < Len(Reads(p))
      /\ \A m \in DOMAIN r.value :
           Reads(p)[m] = "size" => Cardinality(al) <= r.value[m] /\ r.value[m] <= Cardinality(ev)
  BY DEF Sized
<1>3. \A m \in DOMAIN r.value : r.value[m] \in Nat
  BY <1>2
<1>4. \A m \in DOMAIN r.value :
        Reads(p)[m] = "size" => Cardinality(al2) <= r.value[m] /\ r.value[m] <= Cardinality(ev2)
  BY <1>1, <1>2, <1>3
<1> QED
  BY <1>2, <1>4 DEF Sized

LEMMA WitnessInit == Init => WitnessInv
  BY DEF Init, WitnessInv, WitnessOf, Between, Sized

(* A thread that was not the one to move. *)
LEMMA WitnessOther ==
  ASSUME ControlInv, StoreInv, StoreInv', NEW u \in Threads, WitnessOf(u),
         pc'[u] = pc[u], args'[u] = args[u], i'[u] = i[u], count'[u] = count[u],
         reply'[u] = reply[u],
         pc[u] # "idle" => always'[u] \subseteq always[u] /\ ever[u] \subseteq ever'[u]
  PROVE  WitnessOf(u)'
<1>1. CASE pc[u] = "idle"
  BY <1>1 DEF WitnessOf, Between, Sized
<1>2. CASE pc[u] # "idle"
  <2>1. i[u] \in Nat /\ count[u] \in Nat
    BY DEF ControlInv, Typed
  <2>2. IsFiniteSet(always[u]) /\ IsFiniteSet(ever'[u])
    BY FS_Subset DEF StoreInv, HistoryInv
  <2>3. /\ Between(pc[u], args[u], i[u], count[u], always[u], ever[u])
        /\ Sized(pc[u], reply[u], always[u], ever[u])
        /\ always'[u] \subseteq always[u] /\ ever[u] \subseteq ever'[u]
    BY <1>2 DEF WitnessOf
  <2>4. Between(pc'[u], args'[u], i'[u], count'[u], always'[u], ever'[u])
    BY <2>1, <2>3, BetweenWider
  <2>5. Sized(pc'[u], reply'[u], always'[u], ever'[u])
    BY <2>2, <2>3, SizedWider
  <2> QED
    BY <2>4, <2>5 DEF WitnessOf
<1> QED
  BY <1>1, <1>2

(* How a step of t changes what the other threads may rely on. *)
Widens(t) ==
  \A u \in Threads \ {t} :
    pc[u] # "idle" => always'[u] \subseteq always[u] /\ ever[u] \subseteq ever'[u]

LEMMA WitnessStep ==
  ASSUME ControlInv, StoreInv, StoreInv', WitnessInv, NEW t \in Threads, Alone(t), Widens(t),
         WitnessOf(t)'
  PROVE  WitnessInv'
<1>1. ASSUME NEW u \in Threads, u # t PROVE WitnessOf(u)'
  BY <1>1, WitnessOther DEF Alone, Widens, WitnessInv
<1> QED
  BY <1>1 DEF WitnessInv

LEMMA ContentsWidens ==
  ASSUME NEW t \in Threads, NEW c, Contents(c)
  PROVE  Widens(t)
  BY DEF Contents, Widens

(* A thread that is in none of the loops has nothing to witness. *)
LEMMA Trivially ==
  ASSUME NEW t \in Threads, pc'[t] \notin {"del", "exists", "INFO", "stats"}
  PROVE  WitnessOf(t)'
  BY DEF WitnessOf, Between, Sized

LEMMA NothingRead ==
  ASSUME NEW p, NEW al, NEW ev
  PROVE  Sized(p, NoReply, al, ev)
<1>1. NoReply.value = <<>>
  BY DEF NoReply, Message
<1>2. <<>> \in Seq(Nat) /\ Len(<<>>) = 0 /\ DOMAIN <<>> = {}
  OBVIOUS
<1>3. Len(Reads(p)) \in {3, 6}
  BY DEF Reads, StatsReads, InfoReads
<1>4. PICK v : v = NoReply.value /\ v = <<>>
  BY <1>1
<1>5. v \in Seq(Nat) /\ Len(v) = 0 /\ DOMAIN v = {}
  BY <1>2, <1>4
<1>6. Len(v) < Len(Reads(p))
  BY <1>3, <1>5
<1>7. \A n \in DOMAIN v : Reads(p)[n] = "size" => Cardinality(al) <= v[n] /\ v[n] <= Cardinality(ev)
  BY <1>5
<1> QED
  BY <1>4, <1>5, <1>6, <1>7, Zenon DEF Sized

LEMMA WitnessEnter ==
  ASSUME ControlInv, StoreInv, StoreInv', WitnessInv, NEW t \in Threads, Call(t)
  PROVE  WitnessInv'
<1>1. PICK label \in {"dispatch", "stats", "clear"} : \E request : Enter(t, request, label)
  BY DEF Call, execute_command, raw_command, get_stats, clear
<1>2. Alone(t) /\ Widens(t) /\ pc'[t] = label /\ reply'[t] = NoReply
  BY <1>1 DEF Enter, Goto, Alone, Widens, ControlInv, Typed, ArgsInv
<1>3. WitnessOf(t)'
  BY <1>2, NothingRead DEF WitnessOf, Between
<1> QED
  BY <1>2, <1>3, WitnessStep

LEMMA WitnessBegin ==
  ASSUME ControlInv, NEW t \in Threads,
         handle_get(t) \/ handle_set(t) \/ handle_del(t) \/ handle_exists(t)
  PROVE  WitnessOf(t)'
<1>1. ASSUME NEW name \in handlers, NEW arityOK, NEW counter,
             NEW label \in {"get", "set", "del", "exists"}, Begin(t, name, arityOK, counter, label)
      PROVE  /\ pc'[t] \in {"done", "get", "set", "del", "exists"} /\ i'[t] = 2 /\ count'[t] = 0
             /\ args' = args /\ always' = always /\ ever' = ever
  BY <1>1 DEF Begin, Returns, Goto, ControlInv, Typed, ArgsInv, history
<1>2. /\ pc'[t] \in {"done", "get", "set", "del", "exists"} /\ i'[t] = 2 /\ count'[t] = 0
      /\ args' = args /\ always' = always /\ ever' = ever
  BY <1>1 DEF handle_get, handle_set, handle_del, handle_exists, handlers
<1>3. /\ Cardinality(SeenIn(args[t], 2, always[t])) = 0
      /\ Cardinality(SeenIn(args[t], 2, ever[t])) = 0
  BY SeenNone
<1>4. Between(pc'[t], args[t], 2, 0, always[t], ever[t])
  BY <1>3 DEF Between
<1>5. Between(pc'[t], args'[t], i'[t], count'[t], always'[t], ever'[t])
  BY <1>2, <1>4
<1>6. Sized(pc'[t], reply'[t], always'[t], ever'[t])
  BY <1>2 DEF Sized
<1> QED
  BY <1>5, <1>6 DEF WitnessOf

LEMMA WitnessDispatch ==
  ASSUME ControlInv, NEW t \in Threads, execute_raw(t)
  PROVE  WitnessOf(t)'
<1>1. pc'[t] \in handlers \cup {"done"} /\ (pc'[t] # "done" => reply'[t] = NoReply)
  BY DEF execute_raw, Returns, Goto, ControlInv, Typed, ArgsInv
<1>2. Between(pc'[t], args'[t], i'[t], count'[t], always'[t], ever'[t])
  BY <1>1 DEF Between, handlers
<1>3. Sized(pc'[t], reply'[t], always'[t], ever'[t])
  <2>1. CASE pc'[t] = "done"
    BY <2>1 DEF Sized
  <2>2. CASE pc'[t] # "done"
    BY <1>1, <2>2, NothingRead
  <2> QED
    BY <2>1, <2>2
<1> QED
  BY <1>2, <1>3 DEF WitnessOf

(* A turn of EXISTS's loop counts a key that stayed, and none that never    *)
(* was; a turn of DEL's loop counts none that never was.                    *)
LEMMA WitnessExists ==
  ASSUME ControlInv, StoreInv, WitnessInv, NEW t \in Threads, ExistsKey(t)
  PROVE  WitnessOf(t)'
<1> DEFINE n == i[t]
           a == args[t]
<1>1. n \in Nat /\ n >= 2 /\ a[n] \in Keys /\ count[t] \in Nat /\ pc[t] = "exists"
  BY KVStoreAssumption DEF ExistsKey, ControlInv, Typed, ArgsInv
<1>2. /\ pc' = pc /\ args' = args /\ always' = always /\ ever' = ever /\ i'[t] = n + 1
      /\ count'[t] = count[t] + (IF db[a[n]] # Nil THEN 1 ELSE 0)
  BY DEF ExistsKey, ControlInv, Typed, history
<1>3. (a[n] \in always[t] => db[a[n]] # Nil) /\ (db[a[n]] # Nil => a[n] \in ever[t])
  BY <1>1 DEF StoreInv, HistoryInv, Stored
<1>4. /\ Cardinality(SeenIn(a, n, always[t])) <= count[t]
      /\ count[t] <= Cardinality(SeenIn(a, n, ever[t]))
      /\ Cardinality(SeenIn(a, n, always[t])) \in Nat
      /\ Cardinality(SeenIn(a, n, ever[t])) \in Nat
  BY <1>1, SeenFinite DEF WitnessInv, WitnessOf, Between
<1>5. /\ Cardinality(SeenIn(a, n + 1, always[t]))
           = Cardinality(SeenIn(a, n, always[t])) + IF a[n] \in always[t] THEN 1 ELSE 0
      /\ Cardinality(SeenIn(a, n + 1, ever[t]))
           = Cardinality(SeenIn(a, n, ever[t])) + IF a[n] \in ever[t] THEN 1 ELSE 0
  BY <1>1, SeenNext
<1>6. Between("exists", a, n + 1, count'[t], always[t], ever[t])
  BY <1>1, <1>2, <1>3, <1>4, <1>5 DEF Between
<1> QED
  BY <1>1, <1>2, <1>6 DEF WitnessOf, Sized

LEMMA WitnessDel ==
  ASSUME ControlInv, StoreInv, StoreInv', WitnessInv, NEW t \in Threads, DelKey(t)
  PROVE  WitnessOf(t)'
<1> DEFINE n == i[t]
           a == args[t]
<1>1. n \in Nat /\ n >= 2 /\ a[n] \in Keys /\ count[t] \in Nat /\ pc[t] = "del"
  BY KVStoreAssumption DEF DelKey, ControlInv, Typed, ArgsInv
<1>2. /\ pc' = pc /\ args' = args /\ i'[t] = n + 1 /\ ever[t] \subseteq ever'[t]
      /\ count'[t] = count[t] + (IF db[a[n]] # Nil THEN 1 ELSE 0)
  BY <1>1 DEF DelKey, Contents, ControlInv, Typed
<1>3. db[a[n]] # Nil => a[n] \in ever[t]
  BY <1>1 DEF StoreInv, HistoryInv, Stored
<1>4. /\ count[t] <= Cardinality(SeenIn(a, n, ever[t]))
      /\ Cardinality(SeenIn(a, n, ever[t])) \in Nat
      /\ Cardinality(SeenIn(a, n + 1, ever'[t])) \in Nat
  BY <1>1, SeenFinite DEF WitnessInv, WitnessOf, Between
<1>5. Cardinality(SeenIn(a, n + 1, ever[t]))
        = Cardinality(SeenIn(a, n, ever[t])) + IF a[n] \in ever[t] THEN 1 ELSE 0
  BY <1>1, SeenNext
<1>6. Cardinality(SeenIn(a, n + 1, ever[t])) <= Cardinality(SeenIn(a, n + 1, ever'[t]))
  BY <1>1, <1>2, SeenMonotone
<1>7. Between("del", a, n + 1, count'[t], always'[t], ever'[t])
  BY <1>1, <1>2, <1>3, <1>4, <1>5, <1>6 DEF Between
<1> QED
  BY <1>1, <1>2, <1>7 DEF WitnessOf, Sized

(* A size read now is between what stayed and what was ever there. *)
LEMMA SizeNow ==
  ASSUME StoreInv, NEW t \in Threads, pc[t] # "idle"
  PROVE  /\ Cardinality(Stored(db)) \in Nat
         /\ Cardinality(always[t]) <= Cardinality(Stored(db))
         /\ Cardinality(Stored(db)) <= Cardinality(ever[t])
  BY FS_CardinalityType, FS_Subset DEF StoreInv, HistoryInv

LEMMA WitnessRead ==
  ASSUME ControlInv, StoreInv, WitnessInv, NEW t \in Threads, handle_info(t) \/ ReadStats(t)
  PROVE  WitnessOf(t)'
<1> DEFINE v == reply[t].value
           n == Len(v) + 1
<1>1. PICK label \in {"INFO", "stats"} : ReadNext(t, label, Reads(label))
  BY DEF handle_info, ReadStats, Reads
<1> DEFINE x == Reading(Reads(label)[n])
<1>2. pc[t] = label /\ pc[t] # "idle" /\ Sized(label, reply[t], always[t], ever[t])
  BY <1>1 DEF ReadNext, WitnessInv, WitnessOf
<1>3. /\ v \in Seq(Nat) /\ Len(v) < Len(Reads(label))
      /\ \A m \in DOMAIN v :
           Reads(label)[m] = "size" => Cardinality(always[t]) <= v[m] /\ v[m] <= Cardinality(ever[t])
  BY <1>2 DEF Sized
<1>4. n \in 1 .. Len(Reads(label)) /\ Reads(label)[n] \in {"size"} \cup Counters
  BY <1>3, SMTT(30) DEF Reads, StatsReads, InfoReads, Counters
<1>5. /\ x \in Nat
      /\ Reads(label)[n] = "size" => Cardinality(always[t]) <= x /\ x <= Cardinality(ever[t])
  BY <1>2, <1>4, SizeNow DEF Reading, ControlInv, Typed, Counters
<1>6. /\ reply'[t] = Message("list", Append(v, x)) /\ always' = always /\ ever' = ever
      /\ n = Len(Reads(label)) => pc'[t] = "done"
      /\ n # Len(Reads(label)) => pc'[t] = label
  BY <1>1 DEF ReadNext, Goto, ControlInv, Typed, history
<1> HIDE DEF x
<1>7. reply'[t].value = Append(v, x)
  BY <1>6 DEF Message
<1> DEFINE w == Append(v, x)
<1>8. /\ w \in Seq(Nat) /\ Len(w) = n /\ DOMAIN w = 1 .. n /\ w[n] = x
      /\ \A m \in 1 .. n - 1 : m \in DOMAIN v /\ w[m] = v[m]
  BY <1>3, <1>5
<1> HIDE DEF w
<1>9. \A m \in DOMAIN w :
        Reads(label)[m] = "size" => Cardinality(always[t]) <= w[m] /\ w[m] <= Cardinality(ever[t])
  <2> SUFFICES ASSUME NEW m \in 1 .. n, Reads(label)[m] = "size"
               PROVE  Cardinality(always[t]) <= w[m] /\ w[m] <= Cardinality(ever[t])
    BY <1>8
  <2>1. CASE m = n
    BY <1>5, <1>8, <2>1
  <2>2. CASE m # n
    <3>1. m \in 1 .. n - 1
      BY <1>3, <2>2
    <3> QED
      BY <1>3, <1>8, <3>1
  <2> QED
    BY <2>1, <2>2
<1>10. CASE n = Len(Reads(label))
  BY <1>6, <1>10, Trivially
<1>11. CASE n # Len(Reads(label))
  <2>1. Len(w) < Len(Reads(label))
    BY <1>4, <1>8, <1>11 DEF Reads, StatsReads, InfoReads
  <2>2. reply'[t].value = w
    BY <1>7 DEF w
  <2>3. Sized(pc'[t], reply'[t], always'[t], ever'[t])
    BY <1>6, <1>8, <1>9, <1>11, <2>1, <2>2 DEF Sized
  <2>4. Between(pc'[t], args'[t], i'[t], count'[t], always'[t], ever'[t])
    BY <1>6, <1>11 DEF Between
  <2> QED
    BY <2>3, <2>4 DEF WitnessOf
<1> QED
  BY <1>10, <1>11

LEMMA WitnessLooks ==
  ASSUME ControlInv, StoreInv, WitnessInv, NEW t \in Threads, Looks(t)
  PROVE  WitnessOf(t)'
<1>1. ASSUME NEW label, NEW value, Query(t, label, value) PROVE pc'[t] = "done"
  BY <1>1 DEF Query, Returns, Goto, ControlInv, Typed
<1>2. CASE handle_keys(t) \/ handle_dbsize(t) \/ handle_ping(t) \/ handle_echo(t) \/ GetValue(t)
  BY <1>1, <1>2, Trivially DEF handle_keys, handle_dbsize, handle_ping, handle_echo, GetValue
<1>3. CASE Counted(t)
  BY <1>3, Trivially DEF Counted, Returns, Goto, ControlInv, Typed
<1>4. CASE ClearCounter(t)
  BY <1>4, Trivially DEF ClearCounter, Goto, ControlInv, Typed
<1> QED
  BY <1>2, <1>3, <1>4, WitnessDispatch, WitnessBegin, WitnessExists, WitnessRead DEF Looks

LEMMA WitnessNext == ControlInv /\ StoreInv /\ WitnessInv /\ [Next]_vars => WitnessInv'
<1> SUFFICES ASSUME ControlInv, StoreInv, WitnessInv, [Next]_vars PROVE WitnessInv'
  OBVIOUS
<1>1. StoreInv'
  BY StoreNext
<1>2. ASSUME NEW t \in Threads, Looks(t) PROVE WitnessInv'
  <2>1. Alone(t) /\ Widens(t)
    BY <1>2, LooksOnly DEF Widens, history
  <2> QED
    BY <1>1, <1>2, <2>1, WitnessLooks, WitnessStep
<1>3. ASSUME NEW t \in Threads, SetValue(t) PROVE WitnessInv'
  <2>1. Alone(t) /\ Widens(t) /\ pc'[t] = "done"
    BY <1>3, ContentsWidens DEF SetValue, Returns, Goto, Alone, ControlInv, Typed
  <2> QED
    BY <1>1, <2>1, Trivially, WitnessStep
<1>4. ASSUME NEW t \in Threads, DelKey(t) PROVE WitnessInv'
  <2>1. Alone(t) /\ Widens(t)
    BY <1>4, ContentsWidens DEF DelKey, Alone, ControlInv, Typed
  <2> QED
    BY <1>1, <1>4, <2>1, WitnessDel, WitnessStep
<1>5. ASSUME NEW t \in Threads, handle_flushdb(t) PROVE WitnessInv'
  <2>1. Alone(t) /\ Widens(t) /\ pc'[t] = "done"
    BY <1>5, FlushCases, ContentsWidens DEF Widens, history
  <2> QED
    BY <1>1, <2>1, Trivially, WitnessStep
<1>6. ASSUME NEW t \in Threads, ClearStore(t) PROVE WitnessInv'
  <2>1. Alone(t) /\ Widens(t) /\ pc'[t] = "clear"
    BY <1>6, ContentsWidens DEF ClearStore, Alone, ControlInv, Typed
  <2> QED
    BY <1>1, <2>1, Trivially, WitnessStep
<1>7. ASSUME NEW t \in Threads, Return(t) PROVE WitnessInv'
  <2>1. Alone(t) /\ Widens(t) /\ pc'[t] = "idle"
    BY <1>7 DEF Return, Goto, Alone, Widens, ControlInv, Typed
  <2> QED
    BY <1>1, <2>1, Trivially, WitnessStep
<1>8. CASE UNCHANGED vars
  BY <1>8 DEF vars, threadVars, history, WitnessInv, WitnessOf
<1> QED
  BY <1>1, <1>2, <1>3, <1>4, <1>5, <1>6, <1>7, <1>8, WitnessEnter DEF Next, Step, Looks

(* Every key stored is one that some SET created and that no DEL reported   *)
(* and no flush removed, whatever the threads do: the count each DEL gives  *)
(* is of keys that it, and no other DEL, took away (KVStore::handle_del).   *)
THEOREM KeysAccounted == Spec => []Accounted
<1>1. StoreInv => Accounted
  BY DEF StoreInv
<1> QED
  BY <1>1, ControlInit, ControlNext, StoreInit, StoreNext, PTL DEF Spec

(* A count or a size made over several locks is bounded by what was there   *)
(* all through the call and by what was there at some time of it            *)
(* (KVStore::handle_exists, handle_del, handle_info, get_stats).            *)
THEOREM CountsWitnessed == Spec => []Witnessed
<1>1. ControlInv /\ WitnessInv => Witnessed
  <2> SUFFICES ASSUME ControlInv, WitnessInv, NEW t \in Threads
               PROVE  /\ pc[t] = "exists" => /\ Among(t, always[t]) <= count[t]
                                             /\ count[t] <= Among(t, ever[t])
                      /\ pc[t] = "del" => count[t] <= Among(t, ever[t])
                      /\ pc[t] \in {"INFO", "stats"} => \A n \in Sizes(t) :
                           /\ Cardinality(always[t]) <= reply[t].value[n]
                           /\ reply[t].value[n] <= Cardinality(ever[t])
    BY DEF Witnessed
  <2>1. /\ Among(t, always[t]) = Cardinality(SeenIn(args[t], i[t], always[t]))
        /\ Among(t, ever[t]) = Cardinality(SeenIn(args[t], i[t], ever[t]))
    BY DEF Among, SeenIn
  <2>2. /\ Between(pc[t], args[t], i[t], count[t], always[t], ever[t])
        /\ Sized(pc[t], reply[t], always[t], ever[t])
    BY DEF WitnessInv, WitnessOf
  <2>3. /\ pc[t] = "exists" => Among(t, always[t]) <= count[t] /\ count[t] <= Among(t, ever[t])
        /\ pc[t] = "del" => count[t] <= Among(t, ever[t])
    BY <2>1, <2>2 DEF Between
  <2>4. Sizes(t) = {n \in DOMAIN reply[t].value : Reads(pc[t])[n] = "size"}
    BY DEF Sizes, Reads
  <2> QED
    BY <2>2, <2>3, <2>4 DEF Sized
<1> QED
  BY <1>1, ControlInit, ControlNext, StoreInit, StoreNext, WitnessInit, WitnessNext, PTL DEF Spec
-----------------------------------------------------------------------------
(* The counters: a command that will count itself a second time has been    *)
(* counted a first time, by execute_command or among the raw calls.         *)
Doing == {"dispatch", "GET", "SET", "DEL"}

Uncounted == {t \in Threads : pc[t] \in Doing}

Tally == stats["get_commands"] + stats["set_commands"] + stats["del_commands"]

Cleared(t) ==
  /\ \A u \in Threads : u # t => pc[u] = "idle"
  /\ \A j \in 1 .. 4 : j < i[t] => stats[ClearOrder[j]] = 0

CounterInv ==
  /\ IsFiniteSet(Uncounted)
  /\ ~overlapped =>
       /\ \A t \in Threads : pc[t] = "clear" => Cleared(t)
       /\ (\A t \in Threads : pc[t] # "clear") =>
            Tally + Cardinality(Uncounted) <= stats["commands_processed"] + raw

LEMMA CounterInit == Init => CounterInv
<1> SUFFICES ASSUME Init PROVE CounterInv
  OBVIOUS
<1>1. Uncounted = {}
  BY DEF Init, Uncounted, Doing
<1>2. Tally = 0 /\ stats["commands_processed"] + raw = 0
  BY DEF Init, Tally, Counters
<1> QED
  BY <1>1, <1>2, FS_EmptySet DEF CounterInv, Init

LEMMA StatsTyped ==
  ASSUME Typed
  PROVE  /\ stats["commands_processed"] \in Nat /\ stats["get_commands"] \in Nat
         /\ stats["set_commands"] \in Nat /\ stats["del_commands"] \in Nat
         /\ Tally \in Nat /\ raw \in Nat
  BY DEF Typed, Counters, Tally

(* Only t moves, so only t enters or leaves Uncounted. *)
LEMMA UncountedMoves ==
  ASSUME CounterInv, NEW t \in Threads, Alone(t)
  PROVE  /\ pc'[t] \in Doing => Uncounted' = Uncounted \cup {t}
         /\ pc'[t] \notin Doing => Uncounted' = Uncounted \ {t}
         /\ IsFiniteSet(Uncounted') /\ Cardinality(Uncounted) \in Nat
         /\ Cardinality(Uncounted') \in Nat
<1>1. /\ pc'[t] \in Doing => Uncounted' = Uncounted \cup {t}
      /\ pc'[t] \notin Doing => Uncounted' = Uncounted \ {t}
  BY DEF Alone, Uncounted
<1>2. IsFiniteSet(Uncounted \cup {t}) /\ IsFiniteSet(Uncounted \ {t})
  BY FS_AddElement, FS_RemoveElement DEF CounterInv
<1>3. IsFiniteSet(Uncounted') /\ IsFiniteSet(Uncounted)
  BY <1>1, <1>2 DEF CounterInv
<1> QED
  BY <1>1, <1>3, FS_CardinalityType

(* A thread that is at work, while no call has overlapped clear(), is not   *)
(* beside a clear().                                                        *)
LEMMA NoClear ==
  ASSUME CounterInv, ~overlapped, NEW t \in Threads, pc[t] \notin {"idle", "clear"}
  PROVE  \A u \in Threads : pc[u] # "clear"
  BY DEF CounterInv, Cleared

(* A step that counts nothing. *)
LEMMA CountsNothing ==
  ASSUME ControlInv, CounterInv, NEW t \in Threads, Alone(t), UNCHANGED <<stats, raw, overlapped>>,
         pc[t] \notin {"idle", "clear"}, pc'[t] # "clear", pc'[t] \in Doing => pc[t] \in Doing
  PROVE  CounterInv'
<1>1. IsFiniteSet(Uncounted') /\ Cardinality(Uncounted) \in Nat /\ Cardinality(Uncounted') \in Nat
  BY UncountedMoves
<1>2. Cardinality(Uncounted') <= Cardinality(Uncounted)
  <2>1. Uncounted' \subseteq Uncounted
    BY DEF Uncounted, Alone
  <2> QED
    BY <2>1, FS_Subset DEF CounterInv
<1>3. ASSUME ~overlapped'
      PROVE  /\ \A u \in Threads : pc'[u] # "clear"
             /\ Tally' + Cardinality(Uncounted') <= stats'["commands_processed"] + raw'
  <2>1. ~overlapped /\ \A u \in Threads : pc[u] # "clear"
    BY <1>3, NoClear
  <2>2. Tally' = Tally /\ stats' = stats /\ raw' = raw
    BY DEF Tally
  <2>3. Tally + Cardinality(Uncounted) <= stats["commands_processed"] + raw
    BY <2>1 DEF CounterInv
  <2>4. Tally' + Cardinality(Uncounted') <= stats'["commands_processed"] + raw'
    BY <1>1, <1>2, <2>2, <2>3, StatsTyped DEF ControlInv
  <2> QED
    BY <2>1, <2>4 DEF Alone
<1> QED
  BY <1>1, <1>3 DEF CounterInv

LEMMA CounterEnter ==
  ASSUME ControlInv, CounterInv, NEW t \in Threads, Call(t)
  PROVE  CounterInv'
<1>1. PICK label \in {"dispatch", "stats", "clear"} :
        /\ \E request : Enter(t, request, label)
        /\ \/ /\ label = "dispatch" /\ raw' = raw
              /\ stats' = [stats EXCEPT !["commands_processed"] = @ + 1]
           \/ label = "dispatch" /\ raw' = raw + 1 /\ stats' = stats
           \/ label # "dispatch" /\ raw' = raw /\ stats' = stats
  BY DEF Call, execute_command, raw_command, get_stats, clear, Bump
<1>2. /\ Alone(t) /\ pc[t] = "idle" /\ pc'[t] = label /\ i'[t] = 0
      /\ overlapped' = (overlapped \/ \E u \in Threads : pc[u] # "idle" /\ "clear" \in {pc[u], label})
  BY <1>1 DEF Enter, Goto, Alone, ControlInv, Typed, ArgsInv
<1>3. IsFiniteSet(Uncounted') /\ Cardinality(Uncounted) \in Nat /\ Cardinality(Uncounted') \in Nat
  BY <1>2, UncountedMoves
<1>4. ASSUME ~overlapped', label = "clear"
      PROVE  pc'[t] = "clear" /\ Cleared(t)' /\ \A u \in Threads : u # t => pc'[u] # "clear"
  <2>1. \A u \in Threads : pc[u] = "idle"
    BY <1>2, <1>4
  <2>2. \A u \in Threads : u # t => pc'[u] = "idle"
    BY <1>2, <2>1 DEF Alone
  <2>3. \A j \in 1 .. 4 : ~(j < i'[t])
    BY <1>2
  <2> QED
    BY <1>2, <1>4, <2>2, <2>3 DEF Cleared
<1>5. ASSUME ~overlapped', label # "clear"
      PROVE  /\ \A u \in Threads : pc'[u] # "clear"
             /\ Tally' + Cardinality(Uncounted') <= stats'["commands_processed"] + raw'
  <2>1. ~overlapped /\ \A u \in Threads : pc[u] # "clear"
    BY <1>2, <1>5
  <2>2. Tally + Cardinality(Uncounted) <= stats["commands_processed"] + raw
    BY <2>1 DEF CounterInv
  <2>3. /\ t \notin Uncounted /\ IsFiniteSet(Uncounted)
        /\ label = "dispatch" => Uncounted' = Uncounted \cup {t}
        /\ label # "dispatch" => Uncounted' = Uncounted \ {t}
    BY <1>2, <1>5, UncountedMoves DEF Uncounted, Doing, CounterInv
  <2>4. Cardinality(Uncounted') = Cardinality(Uncounted) + IF label = "dispatch" THEN 1 ELSE 0
    <3>1. Cardinality(Uncounted \cup {t}) = Cardinality(Uncounted) + 1
      BY <2>3, FS_AddElement
    <3>2. Uncounted \ {t} = Uncounted
      BY <2>3
    <3> QED
      BY <1>3, <2>3, <3>1, <3>2, SMTT(30)
  <2>5. /\ Tally' = Tally
        /\ stats'["commands_processed"] + raw'
             = stats["commands_processed"] + raw + IF label = "dispatch" THEN 1 ELSE 0
    BY <1>1, StatsTyped, SMTT(30) DEF Tally, ControlInv, Typed, Counters
  <2>6. Tally' + Cardinality(Uncounted') <= stats'["commands_processed"] + raw'
    BY <1>3, <2>2, <2>4, <2>5, StatsTyped DEF ControlInv
  <2> QED
    BY <1>2, <1>5, <2>1, <2>6 DEF Alone
<1> QED
  BY <1>3, <1>4, <1>5 DEF CounterInv

(* A handler that has its arguments counts itself; it was counted before. *)
LEMMA CounterBegin ==
  ASSUME ControlInv, CounterInv, NEW t \in Threads,
         handle_get(t) \/ handle_set(t) \/ handle_del(t) \/ handle_exists(t)
  PROVE  CounterInv'
<1>1. ASSUME NEW name \in {"GET", "SET", "DEL", "EXISTS"}, NEW arityOK \in BOOLEAN,
             NEW counter \in {"get_commands", "set_commands", "del_commands", "none"},
             NEW label \in {"get", "set", "del", "exists"}, Begin(t, name, arityOK, counter, label),
             name = "EXISTS" => counter = "none"
      PROVE  CounterInv'
  <2>1. /\ pc[t] = name /\ pc'[t] \in {label, "done"} /\ Alone(t)
        /\ raw' = raw /\ overlapped' = overlapped
    BY <1>1 DEF Begin, Returns, Goto, Alone, ControlInv, Typed
  <2>2. ASSUME stats' = stats PROVE CounterInv'
    BY <1>1, <2>1, <2>2, CountsNothing DEF Doing
  <2>3. CASE ~arityOK
    BY <1>1, <2>2, <2>3 DEF Begin
  <2>4. CASE arityOK /\ counter = "none"
    <3>1. stats' = [c \in Counters |-> stats[c] + (IF c = counter THEN 1 ELSE 0)]
      BY <1>1, <2>4 DEF Begin
    <3>2. \A c \in Counters : stats'[c] = stats[c]
      BY <2>4, <3>1 DEF Counters, ControlInv, Typed
    <3>3. stats' = stats
      BY <3>1, <3>2 DEF ControlInv, Typed
    <3> QED
      BY <2>2, <3>3
  <2>5. CASE arityOK /\ counter # "none"
    <3>1. stats' = [c \in Counters |-> stats[c] + (IF c = counter THEN 1 ELSE 0)]
      BY <1>1, <2>5 DEF Begin
    <3>2. Tally' = Tally + 1 /\ stats'["commands_processed"] = stats["commands_processed"]
      BY <2>5, <3>1, StatsTyped DEF Tally, Counters, ControlInv
    <3>3. IsFiniteSet(Uncounted') /\ Uncounted' = Uncounted \ {t} /\ t \in Uncounted
      BY <1>1, <2>1, <2>5, UncountedMoves DEF Doing, Uncounted
    <3>4. /\ Cardinality(Uncounted') = Cardinality(Uncounted) - 1
          /\ Cardinality(Uncounted) \in Nat
      BY <3>3, FS_RemoveElement, FS_CardinalityType DEF CounterInv
    <3>5. ASSUME ~overlapped'
          PROVE  /\ \A u \in Threads : pc'[u] # "clear"
                 /\ Tally' + Cardinality(Uncounted') <= stats'["commands_processed"] + raw'
      <4>1. ~overlapped /\ \A u \in Threads : pc[u] # "clear"
        BY <1>1, <2>1, <3>5, NoClear
      <4>2. Tally + Cardinality(Uncounted) <= stats["commands_processed"] + raw
        BY <4>1 DEF CounterInv
      <4>3. Tally' + Cardinality(Uncounted') <= stats'["commands_processed"] + raw'
        BY <2>1, <3>2, <3>4, <4>2, StatsTyped DEF ControlInv
      <4> QED
        BY <2>1, <4>1, <4>3 DEF Alone
    <3> QED
      BY <3>3, <3>5 DEF CounterInv
  <2> QED
    BY <2>3, <2>4, <2>5
<1> DEFINE one == Len(args[t]) = 2
           two == Len(args[t]) >= 3
           some == Len(args[t]) >= 2
<1>2. /\ one \in BOOLEAN /\ two \in BOOLEAN /\ some \in BOOLEAN
      /\ \/ Begin(t, "GET", one, "get_commands", "get")
         \/ Begin(t, "SET", two, "set_commands", "set")
         \/ Begin(t, "DEL", some, "del_commands", "del")
         \/ Begin(t, "EXISTS", some, "none", "exists")
  BY DEF handle_get, handle_set, handle_del, handle_exists
<1> HIDE DEF one, two, some
<1> QED
  BY <1>1, <1>2

(* clear() runs alone: once the last counter is 0 they all are. *)
LEMMA CounterClear ==
  ASSUME ControlInv, CounterInv, NEW t \in Threads, ClearStore(t) \/ ClearCounter(t)
  PROVE  CounterInv'
<1>1. Alone(t) /\ pc[t] = "clear" /\ raw' = raw /\ overlapped' = overlapped
  BY DEF ClearStore, ClearCounter, Goto, Alone, ControlInv, Typed
<1>2. IsFiniteSet(Uncounted')
  BY <1>1, UncountedMoves
<1>3. ASSUME ~overlapped' PROVE Cleared(t)' /\ \A u \in Threads : u # t => pc'[u] # "clear"
  <2>1. Cleared(t)
    BY <1>1, <1>3 DEF CounterInv
  <2>2. \A u \in Threads : u # t => pc'[u] = "idle"
    BY <1>1, <2>1 DEF Cleared, Alone
  <2>3. ASSUME NEW j \in 1 .. 4, j < i'[t] PROVE stats'[ClearOrder[j]] = 0
    <3>1. CASE ClearStore(t)
      BY <2>3, <3>1 DEF ClearStore, ControlInv, Typed
    <3>2. CASE ClearCounter(t)
      <4>1. /\ i[t] \in 1 .. 4 /\ i'[t] = i[t] + 1
            /\ stats' = [stats EXCEPT ![ClearOrder[i[t]]] = 0]
        BY <3>2 DEF ClearCounter, ControlInv, Typed
      <4>2. ClearOrder[j] \in Counters
        BY DEF ClearOrder, Counters
      <4>3. j = i[t] \/ j < i[t]
        BY <2>3, <4>1
      <4> QED
        BY <2>1, <4>1, <4>2, <4>3 DEF Cleared, ControlInv, Typed
    <3> QED
      BY <3>1, <3>2
  <2> QED
    BY <2>2, <2>3 DEF Cleared
<1>4. ASSUME ~overlapped', \A u \in Threads : pc'[u] # "clear"
      PROVE  Tally' + Cardinality(Uncounted') <= stats'["commands_processed"] + raw'
  <2>1. i'[t] = 5 /\ pc'[t] = "done"
    BY <1>1, <1>4 DEF ClearStore, ClearCounter, Goto, ControlInv, Typed
  <2>2. \A j \in 1 .. 4 : stats'[ClearOrder[j]] = 0
    BY <1>3, <1>4, <2>1 DEF Cleared
  <2>3. /\ stats'[ClearOrder[1]] = 0 /\ stats'[ClearOrder[2]] = 0
        /\ stats'[ClearOrder[3]] = 0 /\ stats'[ClearOrder[4]] = 0
    BY <2>2
  <2>4. Tally' = 0 /\ stats'["commands_processed"] = 0
    BY <2>3 DEF Tally, ClearOrder
  <2>5. Uncounted' = {}
    BY <1>3, <1>4, <2>1 DEF Cleared, Uncounted, Doing
  <2> QED
    BY <1>1, <2>4, <2>5, FS_EmptySet, StatsTyped DEF ControlInv
<1> QED
  BY <1>2, <1>3, <1>4 DEF CounterInv

LEMMA CounterNext == ControlInv /\ CounterInv /\ [Next]_vars => CounterInv'
<1> SUFFICES ASSUME ControlInv, CounterInv, [Next]_vars PROVE CounterInv'
  OBVIOUS
<1>1. ASSUME NEW t \in Threads, execute_raw(t) PROVE CounterInv'
  <2>1. /\ Alone(t) /\ UNCHANGED <<stats, raw, overlapped>> /\ pc[t] = "dispatch"
        /\ pc'[t] \in handlers \cup {"done"}
    BY <1>1 DEF execute_raw, Returns, Goto, Alone, ControlInv, Typed
  <2> QED
    BY <2>1, CountsNothing DEF Doing, handlers
<1>2. ASSUME NEW t \in Threads, NEW label \in {"KEYS", "DBSIZE", "PING", "ECHO", "get"},
             NEW value, Query(t, label, value)
      PROVE  CounterInv'
  <2>1. /\ Alone(t) /\ UNCHANGED <<stats, raw, overlapped>> /\ pc[t] = label
        /\ pc'[t] = "done"
    BY <1>2 DEF Query, Returns, Goto, Alone, ControlInv, Typed
  <2> QED
    BY <1>2, <2>1, CountsNothing DEF Doing
<1>3. ASSUME NEW t \in Threads, NEW label \in {"INFO", "stats"}, NEW reads,
             ReadNext(t, label, reads)
      PROVE  CounterInv'
  <2>1. /\ Alone(t) /\ UNCHANGED <<stats, raw, overlapped>> /\ pc[t] = label
        /\ pc'[t] \in {label, "done"}
    BY <1>3 DEF ReadNext, Goto, Alone, ControlInv, Typed
  <2> QED
    BY <1>3, <2>1, CountsNothing DEF Doing
<1>4. ASSUME NEW t \in Threads, SetValue(t) \/ handle_flushdb(t) \/ Counted(t)
      PROVE  CounterInv'
  <2>1. /\ Alone(t) /\ UNCHANGED <<stats, raw, overlapped>>
        /\ pc[t] \in {"set", "FLUSHDB", "del", "exists"} /\ pc'[t] = "done"
    BY <1>4 DEF SetValue, handle_flushdb, Counted, Returns, Goto, Alone, ControlInv, Typed
  <2> QED
    BY <2>1, CountsNothing DEF Doing
<1>5. ASSUME NEW t \in Threads, DelKey(t) \/ ExistsKey(t) PROVE CounterInv'
  <2>1. /\ Alone(t) /\ UNCHANGED <<stats, raw, overlapped>>
        /\ pc[t] \in {"del", "exists"} /\ pc' = pc
    BY <1>5 DEF DelKey, ExistsKey, Alone, ControlInv, Typed
  <2> QED
    BY <2>1, CountsNothing DEF Doing
<1>6. ASSUME NEW t \in Threads, Return(t) PROVE CounterInv'
  <2>1. /\ Alone(t) /\ UNCHANGED <<stats, raw, overlapped>> /\ pc[t] = "done"
        /\ pc'[t] = "idle"
    BY <1>6 DEF Return, Goto, Alone, ControlInv, Typed
  <2> QED
    BY <2>1, CountsNothing DEF Doing
<1>7. CASE UNCHANGED vars
  BY <1>7 DEF vars, threadVars, CounterInv, Uncounted, Cleared, Tally
<1> QED
  BY <1>1, <1>2, <1>3, <1>4, <1>5, <1>6, <1>7, CounterEnter, CounterBegin, CounterClear
     DEF Next, Step, handle_keys, handle_dbsize, handle_ping, handle_echo, GetValue,
         handle_info, ReadStats

(* The GETs, SETs and DELs counted are among the commands processed,        *)
(* whichever threads count at the same time, as long as clear() runs alone  *)
(* (KVStore::execute_command and the handlers' counters).                   *)
THEOREM CountersTogether == Spec => []CountersAgree
<1>1. ControlInv /\ CounterInv => CountersAgree
  <2> SUFFICES ASSUME ControlInv, CounterInv, ~overlapped, \A t \in Threads : pc[t] # "clear"
               PROVE  Tally <= stats["commands_processed"] + raw
    BY DEF CountersAgree, Tally
  <2>1. Tally + Cardinality(Uncounted) <= stats["commands_processed"] + raw
    BY DEF CounterInv
  <2>2. Cardinality(Uncounted) \in Nat
    BY FS_CardinalityType DEF CounterInv
  <2> QED
    BY <2>1, <2>2, StatsTyped DEF ControlInv
<1> QED
  BY <1>1, ControlInit, ControlNext, CounterInit, CounterNext, PTL DEF Spec
=============================================================================
