----------------------------- MODULE ExpiryMap -----------------------------
(***************************************************************************)
(* What a TTL manager promises its callers: a map from keys to deadlines.  *)
(* Every call takes effect at one instant between its invocation and its   *)
(* return; a deadline leaves the map by a call that removes it, or because *)
(* a check found that it has passed.  Which of the passed deadlines a      *)
(* check removes is left open here.  TTLManager is shown to implement this *)
(* specification.                                                          *)
(***************************************************************************)
EXTENDS Integers, FiniteSets

CONSTANTS Threads,      \* the threads that call the manager
          Keys,         \* the keys
          Durations,    \* the durations callers ask for, in the call's unit
          Second,       \* ticks of the clock in a second
          Millisecond,  \* and in a millisecond
          MaxTime,      \* bound: the clock stops there
          Nil           \* "no deadline", "no call" and "no result yet"

VARIABLES deadline,     \* deadline[k]: the tick at which k expires, or Nil
          now,          \* the steady clock
          total,        \* how many keys have expired since the start
          status,       \* status[t]: idle, pending (called), done (took effect)
          call,         \* call[t]: the call t is in
          tally,        \* tally[t]: how many keys t's check has expired
          ret           \* ret[t]: what t's call returns, once it is done

vars == <<deadline, now, total, status, call, tally, ret>>

Unit == [set_ttl |-> Second, set_ttl_ms |-> Millisecond,
         get_ttl |-> Second, get_ttl_ms |-> Millisecond]

SetCalls    == [op : {"set_ttl", "set_ttl_ms"}, key : Keys, time : Durations]
KeyCalls    == [op : {"get_ttl", "get_ttl_ms", "has_ttl", "remove_ttl"}, key : Keys]
GlobalCalls == [op : {"check_expirations", "size", "clear", "get_stats"}]
AllCalls    == SetCalls \cup KeyCalls \cup GlobalCalls

Tracked == {k \in Keys : deadline[k] # Nil}

(* What is left until a deadline, in whole units: -1 without a deadline,   *)
(* -2 when it has passed and no check has removed it yet.                  *)
Remaining(d, unit) ==
  IF d = Nil THEN -1 ELSE IF d <= now THEN -2 ELSE (d - now) \div unit
-----------------------------------------------------------------------------
Init ==
  /\ deadline = [k \in Keys |-> Nil]
  /\ now      = 0
  /\ total    = 0
  /\ status   = [t \in Threads |-> "idle"]
  /\ call     = [t \in Threads |-> Nil]
  /\ tally    = [t \in Threads |-> 0]
  /\ ret      = [t \in Threads |-> Nil]

Invoke(t) ==
  /\ status[t] = "idle"
  /\ status' = [status EXCEPT ![t] = "pending"]
  /\ \E c \in AllCalls : call' = [call EXCEPT ![t] = c]
  /\ UNCHANGED <<deadline, now, total, tally, ret>>

TakeEffect(t, ops, deadlines, result) ==
  /\ status[t] = "pending"
  /\ call[t].op \in ops
  /\ status'   = [status EXCEPT ![t] = "done"]
  /\ deadline' = deadlines
  /\ ret'      = [ret EXCEPT ![t] = result]
  /\ UNCHANGED <<now, total, call, tally>>

SetDeadline(t) ==
  /\ call[t] \in SetCalls
  /\ call[t].time > 0
  /\ TakeEffect(t, {"set_ttl", "set_ttl_ms"},
       [deadline EXCEPT ![call[t].key] = now + call[t].time * Unit[call[t].op]], TRUE)

Remove(t) ==
  /\ call[t] \in SetCalls => call[t].time <= 0
  /\ TakeEffect(t, {"remove_ttl", "set_ttl", "set_ttl_ms"},
       [deadline EXCEPT ![call[t].key] = Nil], call[t].key \in Tracked)

Get(t)   == TakeEffect(t, {"get_ttl", "get_ttl_ms"}, deadline,
                       Remaining(deadline[call[t].key], Unit[call[t].op]))
Has(t)   == TakeEffect(t, {"has_ttl"}, deadline, call[t].key \in Tracked)
Size(t)  == TakeEffect(t, {"size"}, deadline, Cardinality(Tracked))
Clear(t) == TakeEffect(t, {"clear"}, [k \in Keys |-> Nil], Nil)
Stats(t) == TakeEffect(t, {"get_stats"}, deadline,
                       [entries |-> Cardinality(Tracked), expired |-> total])

(* A check in progress expires one key, and only one whose time has come. *)
Expire(t) ==
  /\ status[t] = "pending"
  /\ call[t].op = "check_expirations"
  /\ \E k \in Tracked :
       /\ deadline[k] <= now
       /\ deadline' = [deadline EXCEPT ![k] = Nil]
  /\ tally' = [tally EXCEPT ![t] = @ + 1]
  /\ total' = total + 1
  /\ UNCHANGED <<now, status, call, ret>>

EndCheck(t) == TakeEffect(t, {"check_expirations"}, deadline, tally[t])

Return(t) ==
  /\ status[t] = "done"
  /\ status' = [status EXCEPT ![t] = "idle"]
  /\ call'   = [call EXCEPT ![t] = Nil]
  /\ tally'  = [tally EXCEPT ![t] = 0]
  /\ ret'    = [ret EXCEPT ![t] = Nil]
  /\ UNCHANGED <<deadline, now, total>>

Tick ==
  /\ now < MaxTime
  /\ now' = now + 1
  /\ UNCHANGED <<deadline, total, status, call, tally, ret>>

Perform(t) == SetDeadline(t) \/ Remove(t) \/ Get(t) \/ Has(t) \/ Size(t) \/ Clear(t)
                \/ Stats(t) \/ Expire(t) \/ EndCheck(t)

Next == Tick \/ \E t \in Threads : Invoke(t) \/ Perform(t) \/ Return(t)

Spec == Init /\ [][Next]_vars
=============================================================================
