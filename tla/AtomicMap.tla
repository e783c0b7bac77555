----------------------------- MODULE AtomicMap -----------------------------
(***************************************************************************)
(* What a thread-safe string map promises its callers: every call takes    *)
(* effect at one instant between its invocation and its return, and        *)
(* returns what that instant's contents determine.  ConcurrentHashTable    *)
(* is shown to implement this specification.                               *)
(***************************************************************************)
EXTENDS FiniteSets

CONSTANTS Threads,   \* the threads that call the map
          Keys,      \* the strings used as keys
          Values,    \* the strings used as values
          Nil        \* std::nullopt, and "no call" or "no result yet"

VARIABLES db,        \* db[k] is the value stored under k, or Nil
          status,    \* status[t]: idle, pending (called), done (took effect)
          call,      \* call[t]: the call t is in
          ret        \* ret[t]: what that call returns, once it is done

vars == <<db, status, call, ret>>

(***************************************************************************)
(* The calls of hashtable.hpp's public interface.  A KEYS pattern is the   *)
(* set of keys it matches.                                                 *)
(***************************************************************************)
SetCalls    == [op : {"set"}, key : Keys, value : Values]
KeyCalls    == [op : {"get", "del", "exists"}, key : Keys]
KeysCalls   == [op : {"keys"}, match : SUBSET Keys]
GlobalCalls == [op : {"clear", "size"}]
AllCalls    == SetCalls \cup KeyCalls \cup KeysCalls \cup GlobalCalls

Present == {k \in Keys : db[k] # Nil}

-----------------------------------------------------------------------------
Init ==
  /\ db     = [k \in Keys |-> Nil]
  /\ status = [t \in Threads |-> "idle"]
  /\ call   = [t \in Threads |-> Nil]
  /\ ret    = [t \in Threads |-> Nil]

Invoke(t) ==
  /\ status[t] = "idle"
  /\ status' = [status EXCEPT ![t] = "pending"]
  /\ \E c \in AllCalls : call' = [call EXCEPT ![t] = c]
  /\ UNCHANGED <<db, ret>>

(* A pending call takes effect: the map becomes contents, and the call will *)
(* return result.                                                           *)
TakeEffect(t, op, contents, result) ==
  /\ status[t] = "pending"
  /\ call[t].op = op
  /\ status' = [status EXCEPT ![t] = "done"]
  /\ db'     = contents
  /\ ret'    = [ret EXCEPT ![t] = result]
  /\ UNCHANGED call

Set(t)    == TakeEffect(t, "set", [db EXCEPT ![call[t].key] = call[t].value],
                        call[t].key \notin Present)
Get(t)    == TakeEffect(t, "get", db, db[call[t].key])
Del(t)    == TakeEffect(t, "del", [db EXCEPT ![call[t].key] = Nil],
                        call[t].key \in Present)
Exists(t) == TakeEffect(t, "exists", db, call[t].key \in Present)
MatchingKeys(t) == TakeEffect(t, "keys", db, Present \cap call[t].match)
Clear(t)  == TakeEffect(t, "clear", [k \in Keys |-> Nil], Nil)
Size(t)   == TakeEffect(t, "size", db, Cardinality(Present))

Perform(t) == Set(t) \/ Get(t) \/ Del(t) \/ Exists(t) \/ MatchingKeys(t)
                \/ Clear(t) \/ Size(t)

Return(t) ==
  /\ status[t] = "done"
  /\ status' = [status EXCEPT ![t] = "idle"]
  /\ call'   = [call EXCEPT ![t] = Nil]
  /\ ret'    = [ret EXCEPT ![t] = Nil]
  /\ UNCHANGED db

Next == \E t \in Threads : Invoke(t) \/ Perform(t) \/ Return(t)

Spec == Init /\ [][Next]_vars
=============================================================================
