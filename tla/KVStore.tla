------------------------------ MODULE KVStore ------------------------------
(***************************************************************************)
(* The key-value store: the commands of several threads on one table.      *)
(*                                                                          *)
(* A call of the table is one step, which ConcurrentHashTable is shown to   *)
(* allow (it implements AtomicMap).  A command is several: it counts        *)
(* itself, finds its handler, counts again, and calls the table once, once  *)
(* per key, or several times.  The counters are atomics of their own.       *)
(* Command names are taken up to upper and lower case.                      *)
(***************************************************************************)
EXTENDS Integers, Sequences, FiniteSets

CONSTANTS Threads,
          Keys, Values,
          Requests,     \* argument vectors: command name, keys and values;
                        \* a KEYS pattern is the set of keys it matches,
                        \* <<>> a message that is not an array of strings
          MaxCalls,     \* bound on the calls of a behaviour
          Nil           \* std::nullopt

(* Argument vectors have keys and values where the handlers look for them. *)
ASSUME KVStoreAssumption ==
  /\ Nil \notin Values
  /\ \A r \in Requests :
       /\ Len(r) \in Nat /\ DOMAIN r = 1 .. Len(r)
       /\ r # <<>> /\ r[1] \in {"DEL", "EXISTS"} => \A j \in 2 .. Len(r) : r[j] \in Keys
       /\ Len(r) >= 3 /\ r[1] = "SET" => r[2] \in Keys /\ r[3] \in Values

VARIABLES
  db,                   \* store_: the value of each key, or Nil
  stats,                \* the four counters
  pc, args,             \* where each thread is, and in which command
  i, count,             \* its loop variable; deleted or count
  reply,                \* what its call returns; a list for INFO and stats
  calls,                \* number of calls so far
  balance,              \* history: keys created, less those DEL reported
                        \* and those flushed
  always, ever,         \* history: keys there all through each call, and
                        \* at some time of it
  raw,                  \* history: calls that bypassed execute_command
  overlapped            \* history: has clear() run beside another call?

threadVars == <<pc, args, i, count, reply>>
history == <<balance, always, ever>>
vars == <<db, stats, threadVars, calls, history, raw, overlapped>>

(* The names init_handlers registers. *)
handlers == {"GET", "SET", "DEL", "EXISTS", "KEYS", "PING", "ECHO",
             "FLUSHDB", "DBSIZE", "INFO"}

Counters == {"commands_processed", "get_commands", "set_commands", "del_commands"}

Message(type, value) == [type |-> type, value |-> value]

NoReply == Message("none", <<>>)
Error == Message("error", <<>>)
OK == Message("simple", <<>>)

Stored(contents) == {k \in Keys : contents[k] # Nil}

Init ==
  /\ db = [k \in Keys |-> Nil]
  /\ stats = [c \in Counters |-> 0]
  /\ pc = [t \in Threads |-> "idle"]
  /\ args = [t \in Threads |-> <<>>]
  /\ i = [t \in Threads |-> 0]
  /\ count = [t \in Threads |-> 0]
  /\ reply = [t \in Threads |-> NoReply]
  /\ calls = 0
  /\ balance = 0
  /\ always = [t \in Threads |-> {}]
  /\ ever = [t \in Threads |-> {}]
  /\ raw = 0
  /\ overlapped = FALSE
-----------------------------------------------------------------------------
Goto(t, label) == pc' = [pc EXCEPT ![t] = label]

Returns(t, value) ==
  /\ Goto(t, "done")
  /\ reply' = [reply EXCEPT ![t] = value]

Bump(counter) == stats' = [stats EXCEPT ![counter] = @ + 1]

(* The table now holds contents; every call under way sees it. *)
Contents(contents) ==
  /\ db' = contents
  /\ always' = [t \in Threads |-> always[t] \cap Stored(contents)]
  /\ ever' = [t \in Threads |-> IF pc[t] = "idle" THEN {} ELSE ever[t] \cup Stored(contents)]

(* A thread enters one of the public functions. *)
Enter(t, request, label) ==
  /\ pc[t] = "idle" /\ calls < MaxCalls
  /\ calls' = calls + 1
  /\ args' = [args EXCEPT ![t] = request]
  /\ Goto(t, label)
  /\ always' = [always EXCEPT ![t] = Stored(db)]
  /\ ever' = [ever EXCEPT ![t] = Stored(db)]
  /\ overlapped' = (overlapped \/ \E u \in Threads : pc[u] # "idle" /\ "clear" \in {pc[u], label})
  /\ UNCHANGED <<db, i, count, reply, balance>>

execute_commandUncounted(t, request) ==    \* mutant: only execute_raw's callers count
  /\ Enter(t, request, "dispatch")
  /\ UNCHANGED <<stats, raw>>

execute_command(t, request) ==
  /\ Enter(t, request, "dispatch")
  /\ Bump("commands_processed")
  /\ UNCHANGED raw

(* execute_raw called directly, which does not count the command. *)
raw_command(t, request) ==
  /\ Enter(t, request, "dispatch")
  /\ raw' = raw + 1
  /\ UNCHANGED stats

(* The handler is looked up; without one the reply is an error. *)
execute_raw(t) ==
  /\ pc[t] = "dispatch"
  /\ IF args[t] # <<>> /\ args[t][1] \in handlers
     THEN Goto(t, args[t][1]) /\ UNCHANGED reply
     ELSE Returns(t, Error)
  /\ UNCHANGED <<db, stats, args, i, count, calls, history, raw, overlapped>>
-----------------------------------------------------------------------------
(* What a handler does first: it checks the number of its arguments, counts *)
(* the command if it has a counter, and goes on to its first key.           *)
Begin(t, name, arityOK, counter, label) ==
  /\ pc[t] = name
  /\ IF arityOK
     THEN /\ stats' = [c \in Counters |-> stats[c] + (IF c = counter THEN 1 ELSE 0)]
          /\ Goto(t, label)
          /\ UNCHANGED reply
     ELSE Returns(t, Error) /\ UNCHANGED stats
  /\ i' = [i EXCEPT ![t] = 2]
  /\ UNCHANGED <<db, args, count, calls, history, raw, overlapped>>

handle_get(t)    == Begin(t, "GET", Len(args[t]) = 2, "get_commands", "get")
handle_set(t)    == Begin(t, "SET", Len(args[t]) >= 3, "set_commands", "set")
handle_del(t)    == Begin(t, "DEL", Len(args[t]) >= 2, "del_commands", "del")
handle_exists(t) == Begin(t, "EXISTS", Len(args[t]) >= 2, "none", "exists")

(* A step that changes nothing and ends the command with value. *)
Query(t, label, value) ==
  /\ pc[t] = label
  /\ Returns(t, value)
  /\ UNCHANGED <<db, stats, args, i, count, calls, history, raw, overlapped>>

OrError(arityOK, value) == IF arityOK THEN value ELSE Error

GetValue(t) ==
  Query(t, "get", LET value == db[args[t][2]]
                  IN  IF value = Nil THEN Message("null", <<>>) ELSE Message("bulk", value))

handle_keys(t) ==
  Query(t, "KEYS", OrError(Len(args[t]) = 2, Message("array", Stored(db) \cap args[t][2])))

handle_dbsize(t) ==
  Query(t, "DBSIZE", OrError(Len(args[t]) = 1, Message("integer", Cardinality(Stored(db)))))

(* PING and ECHO reply with PONG or their argument, which no state affects. *)
handle_ping(t) == Query(t, "PING", OrError(Len(args[t]) <= 2, Message("bulk", Nil)))
handle_echo(t) == Query(t, "ECHO", OrError(Len(args[t]) = 2, Message("bulk", Nil)))

SetValue(t) ==
  /\ pc[t] = "set"
  /\ LET key == args[t][2]
     IN  /\ Contents([db EXCEPT ![key] = args[t][3]])
         /\ balance' = balance + (IF db[key] = Nil THEN 1 ELSE 0)
  /\ Returns(t, OK)
  /\ UNCHANGED <<stats, args, i, count, calls, raw, overlapped>>

handle_flushdb(t) ==
  /\ pc[t] = "FLUSHDB"
  /\ IF Len(args[t]) = 1
     THEN Contents([k \in Keys |-> Nil]) /\ balance' = 0 /\ Returns(t, OK)
     ELSE Returns(t, Error) /\ UNCHANGED <<db, history>>
  /\ UNCHANGED <<stats, args, i, count, calls, raw, overlapped>>

DelKeyStale(t) ==    \* mutant: presence is looked up when the command begins
  /\ pc[t] = "del" /\ i[t] <= Len(args[t])
  /\ LET key == args[t][i[t]]
         deleted == IF key \in ever[t] THEN 1 ELSE 0
     IN  /\ Contents([db EXCEPT ![key] = Nil])
         /\ count' = [count EXCEPT ![t] = @ + deleted]
         /\ balance' = balance - deleted
  /\ i' = [i EXCEPT ![t] = @ + 1]
  /\ UNCHANGED <<stats, pc, args, reply, calls, raw, overlapped>>

(* One turn of DEL's loop: the table says whether it removed the key. *)
DelKey(t) ==
  /\ pc[t] = "del" /\ i[t] <= Len(args[t])
  /\ LET key == args[t][i[t]]
         deleted == IF db[key] # Nil THEN 1 ELSE 0
     IN  /\ Contents([db EXCEPT ![key] = Nil])
         /\ count' = [count EXCEPT ![t] = @ + deleted]
         /\ balance' = balance - deleted
  /\ i' = [i EXCEPT ![t] = @ + 1]
  /\ UNCHANGED <<stats, pc, args, reply, calls, raw, overlapped>>

ExistsKeyFirst(t) ==    \* mutant: the first key is looked up every time
  /\ pc[t] = "exists" /\ i[t] <= Len(args[t])
  /\ count' = [count EXCEPT ![t] = @ + (IF db[args[t][2]] # Nil THEN 1 ELSE 0)]
  /\ i' = [i EXCEPT ![t] = @ + 1]
  /\ UNCHANGED <<db, stats, pc, args, reply, calls, history, raw, overlapped>>

(* One turn of EXISTS's loop. *)
ExistsKey(t) ==
  /\ pc[t] = "exists" /\ i[t] <= Len(args[t])
  /\ count' = [count EXCEPT ![t] = @ + (IF db[args[t][i[t]]] # Nil THEN 1 ELSE 0)]
  /\ i' = [i EXCEPT ![t] = @ + 1]
  /\ UNCHANGED <<db, stats, pc, args, reply, calls, history, raw, overlapped>>

(* The loop of DEL or EXISTS is over. *)
Counted(t) ==
  /\ pc[t] \in {"del", "exists"} /\ i[t] > Len(args[t])
  /\ Returns(t, Message("integer", count[t]))
  /\ UNCHANGED <<db, stats, args, i, count, calls, history, raw, overlapped>>
-----------------------------------------------------------------------------
(* INFO and get_stats read the store and the counters one after the other.  *)
Reading(what) == IF what = "size" THEN Cardinality(Stored(db)) ELSE stats[what]

InfoReads == <<"size", "commands_processed", "size">>

StatsReads == <<"size", "size", "commands_processed", "get_commands",
                "set_commands", "del_commands">>

ReadNext(t, label, reads) ==
  /\ pc[t] = label
  /\ LET n == Len(reply[t].value) + 1
     IN  /\ reply' = [reply EXCEPT ![t] =
                        Message("list", Append(@.value, Reading(reads[n])))]
         /\ IF n = Len(reads) THEN Goto(t, "done") ELSE UNCHANGED pc
  /\ UNCHANGED <<db, stats, args, i, count, calls, history, raw, overlapped>>

handle_info(t) == ReadNext(t, "INFO", InfoReads)

get_stats(t) ==
  /\ Enter(t, <<>>, "stats")
  /\ UNCHANGED <<stats, raw>>

ReadStats(t) == ReadNext(t, "stats", StatsReads)

(* clear() empties the store, then sets the counters to 0 one by one. *)
ClearOrder == <<"commands_processed", "get_commands", "set_commands", "del_commands">>

clear(t) ==
  /\ Enter(t, <<>>, "clear")
  /\ UNCHANGED <<stats, raw>>

ClearStore(t) ==
  /\ pc[t] = "clear" /\ i[t] = 0
  /\ Contents([k \in Keys |-> Nil])
  /\ balance' = 0
  /\ i' = [i EXCEPT ![t] = 1]
  /\ UNCHANGED <<stats, pc, args, count, reply, calls, raw, overlapped>>

ClearCounter(t) ==
  /\ pc[t] = "clear" /\ i[t] \in 1 .. 4
  /\ stats' = [stats EXCEPT ![ClearOrder[i[t]]] = 0]
  /\ i' = [i EXCEPT ![t] = @ + 1]
  /\ IF i[t] = 4 THEN Goto(t, "done") ELSE UNCHANGED pc
  /\ UNCHANGED <<db, args, count, reply, calls, history, raw, overlapped>>
-----------------------------------------------------------------------------
Return(t) ==
  /\ pc[t] = "done"
  /\ Goto(t, "idle")
  /\ args' = [args EXCEPT ![t] = <<>>]
  /\ i' = [i EXCEPT ![t] = 0]
  /\ count' = [count EXCEPT ![t] = 0]
  /\ reply' = [reply EXCEPT ![t] = NoReply]
  /\ always' = [always EXCEPT ![t] = {}]
  /\ ever' = [ever EXCEPT ![t] = {}]
  /\ UNCHANGED <<db, stats, calls, balance, raw, overlapped>>

Call(t) ==
  \/ \E request \in Requests : execute_command(t, request) \/ raw_command(t, request)
  \/ get_stats(t) \/ clear(t)

Step(t) ==
  \/ execute_raw(t)
  \/ handle_get(t) \/ handle_set(t) \/ handle_del(t) \/ handle_exists(t)
  \/ handle_keys(t) \/ handle_dbsize(t) \/ handle_ping(t) \/ handle_echo(t)
  \/ handle_flushdb(t) \/ handle_info(t)
  \/ GetValue(t) \/ SetValue(t) \/ DelKey(t) \/ ExistsKey(t) \/ Counted(t)
  \/ ReadStats(t) \/ ClearStore(t) \/ ClearCounter(t)
  \/ Return(t)

Next == \E t \in Threads : Call(t) \/ Step(t)

Spec == Init /\ [][Next]_vars
-----------------------------------------------------------------------------
(* Every key is accounted for: the keys stored are those created, less      *)
(* those some DEL has counted and those flushed.  So two DELs of one key    *)
(* never both report it, and none reports a key that was not there          *)
(* (KVStore::handle_del, which takes the table's lock once per key).        *)
Accounted == balance = Cardinality(Stored(db))

(* The keys thread t's loop has looked at that are in S. *)
Among(t, S) == Cardinality({j \in 2 .. i[t] - 1 : args[t][j] \in S})

Sizes(t) == {n \in DOMAIN reply[t].value :
               (IF pc[t] = "stats" THEN StatsReads ELSE InfoReads)[n] = "size"}

(* A count made over several locks is not that of any one instant, but it   *)
(* is bounded by what was there: EXISTS counts every key that stayed and no *)
(* key that never was, DEL reports no key that never was, and the sizes in  *)
(* INFO and get_stats() lie between the two (KVStore::handle_exists,        *)
(* handle_del, handle_info, get_stats).                                     *)
Witnessed ==
  \A t \in Threads :
    /\ pc[t] = "exists" => Among(t, always[t]) <= count[t] /\ count[t] <= Among(t, ever[t])
    /\ pc[t] = "del" => count[t] <= Among(t, ever[t])
    /\ pc[t] \in {"INFO", "stats"} => \A n \in Sizes(t) :
         Cardinality(always[t]) <= reply[t].value[n] /\ reply[t].value[n] <= Cardinality(ever[t])

(* The counters tell one story: GETs, SETs and DELs are among the commands  *)
(* processed, whatever the threads do, as long as clear(), which resets the *)
(* counters one by one, runs alone (KVStore::execute_command and handlers). *)
CountersAgree ==
  ~overlapped /\ (\A t \in Threads : pc[t] # "clear") =>
    stats["get_commands"] + stats["set_commands"] + stats["del_commands"]
      <= stats["commands_processed"] + raw
=============================================================================
