----------------------------- MODULE Middleware -----------------------------
(***************************************************************************)
(* The Node middleware in front of the C++ server: one ScuffedRedisClient,   *)
(* the read-through cache getItem, the warm-up and the traffic timers.      *)
(*                                                                          *)
(* Node runs one callback at a time, up to its next await: an action is     *)
(* such a stretch.  The server executes commands in order until it ceases.  *)
(* A reply is two pieces, so that a data event may end inside it.  commands *)
(* holds those whose replies have not come in full, oldest first, and a     *)
(* listener is known by the place of its command there.  Of a reply only    *)
(* matters whether parseResponse makes it a string that is not empty, which *)
(* is what getItem takes for a hit.                                         *)
(***************************************************************************)
EXTENDS Integers, Sequences, FiniteSets

CONSTANTS WarmupCount,   \* items are 1..WarmupCount
          MaxRequests,   \* bound on the calls of getItem and of the other routes
          Executes,      \* commands POST /execute is sent, with their items
          Cut            \* may a data event end inside a reply?

Items == 1..WarmupCount
Ops == {"GET", "SET", "DEL", "FLUSHDB", "PING"}

ASSUME MiddlewareAssumption ==
  /\ WarmupCount \in Nat \ {0}
  /\ Executes \subseteq Ops \X Items
  /\ MaxRequests \in Nat /\ Cut \in BOOLEAN

VARIABLES commands,          \* the commands whose replies are not here in full
          listeners,         \* places of those whose once('data') listener waits
          replies,           \* the server's replies to the first of them
          got,               \* has the first piece of the first reply come?
          server,            \* it answers, is silent, or has closed the connection
          store,             \* the items the server holds
          everStored,        \* the items it has held at any time
          calls,             \* the calls of getItem; paired: were its replies its own?
          warmup,            \* those of the warm-up
          others,            \* requests to the other routes so far
          timers,            \* the intervals; TRUE for one that still calls getItem
          trafficInterval    \* global.trafficInterval, 0 for null

socketVars == <<commands, listeners, replies, got>>
serverVars == <<store, everStored>>
timerVars == <<timers, trafficInterval>>
vars == <<socketVars, serverVars, timerVars, server, calls, warmup, others>>

(* startServer starts a timer with the getItem it has just made. *)
Init ==
  /\ commands = <<>> /\ listeners = {} /\ replies = <<>> /\ got = FALSE
  /\ server = "answers" /\ store = {} /\ everStored = {}
  /\ calls = <<>> /\ warmup = {} /\ others = 0
  /\ timers = <<TRUE>> /\ trafficInterval = 1
-----------------------------------------------------------------------------
(* sendCommand, for commands of one stretch.  On a lost connection the      *)
(* write fails and the listener stays.                                      *)
Command(op, item, call) == [op |-> op, item |-> item, call |-> call]

sendCommandOneListener(cmds) ==          \* mutant: listens only when nobody does
  /\ commands' = commands \o cmds
  /\ listeners' = IF listeners = {} THEN {Len(commands) + 1} ELSE listeners

sendCommand(cmds) ==
  /\ commands' = commands \o cmds
  /\ listeners' = listeners \cup (Len(commands) + 1 .. Len(commands) + Len(cmds))

(* getItem up to its first await, for each of a sequence of items. *)
getItem(items) ==
  /\ Len(calls) + others + Len(items) <= MaxRequests
  /\ calls' = calls \o [k \in DOMAIN items |-> [item |-> items[k], pc |-> "get", paired |-> TRUE]]
  /\ sendCommand([k \in DOMAIN items |-> Command("GET", items[k], Len(calls) + k)])

(* After redisGet: a hit ends the call, a miss goes to the database.  After *)
(* redisSet the call ends.                                                  *)
ContinuedOnNull(call, result) == [call EXCEPT !.pc = "done"]   \* mutant: null is a hit

Continued(call, result) ==
  [call EXCEPT !.pc = IF call.pc = "get" /\ ~result THEN "db" ELSE "done"]

(* generateValue and redisSet, once the database has answered. *)
dbAnswers(c) ==
  /\ calls[c].pc = "db"
  /\ calls' = [calls EXCEPT ![c].pc = "set"]
  /\ sendCommand(<<Command("SET", calls[c].item, c)>>)
  /\ UNCHANGED <<replies, got, serverVars, timerVars, server, warmup, others>>

(* A tick of a timer.  One that was given global.getItem, which nothing     *)
(* sets, only throws in its try block.                                      *)
tick(t, item) ==
  /\ timers[t]
  /\ getItem(<<item>>)
  /\ UNCHANGED <<replies, got, serverVars, timerVars, server, warmup, others>>

(* POST /warmup. *)
warmUp ==
  /\ warmup = {}
  /\ getItem([k \in Items |-> k])
  /\ warmup' = Len(calls) + 1 .. Len(calls) + WarmupCount
  /\ UNCHANGED <<replies, got, serverVars, timerVars, server, others>>

(* POST /execute. *)
Requested == Len(calls) + others < MaxRequests /\ others' = others + 1

execute(op, item) ==
  /\ Requested
  /\ sendCommand(<<Command(op, item, 0)>>)
  /\ UNCHANGED <<replies, got, serverVars, timerVars, server, calls, warmup>>
-----------------------------------------------------------------------------
(* What the server does with a command.  The EX option of SET is ignored;   *)
(* integers, errors and null are null to parseResponse.                     *)
IsString(cmd) ==
  CASE cmd.op = "GET" -> cmd.item \in store
    [] cmd.op = "DEL" -> FALSE
    [] OTHER -> TRUE

Stored(cmd) ==
  CASE cmd.op = "SET" -> store \cup {cmd.item}
    [] cmd.op = "DEL" -> store \ {cmd.item}
    [] cmd.op = "FLUSHDB" -> {}
    [] OTHER -> store

serve ==
  /\ server = "answers" /\ Len(replies) < Len(commands)
  /\ LET cmd == commands[Len(replies) + 1] IN
       /\ replies' = Append(replies, IsString(cmd))
       /\ store' = Stored(cmd)
       /\ everStored' = everStored \cup store'
  /\ UNCHANGED <<commands, listeners, got, timerVars, server, calls, warmup, others>>

(* A limit of the server, or its end: no code connects again, and the error *)
(* handler rejects a promise that is settled.                               *)
loseConnection ==
  /\ server # "lost" /\ server' = "lost"
  /\ UNCHANGED <<socketVars, serverVars, timerVars, calls, warmup, others>>

(* The server keeps the connection and answers nothing more: it serves the  *)
(* client before this one still, it waits for the rest of a command that    *)
(* was cut or counted in characters instead of bytes, or it hangs.          *)
fallSilent ==
  /\ server = "answers" /\ server' = "silent"
  /\ UNCHANGED <<socketVars, serverVars, timerVars, calls, warmup, others>>

(* parseResponse of a data event of n pieces looks at the first reply only. *)
(* The start of a reply is null or a shorter string, its end may be         *)
(* anything.                                                                *)
Pieces == 2 * Len(replies) - (IF got THEN 1 ELSE 0)

Whole(n) == ~got /\ n > 1

parseResponse(n) ==
  IF Whole(n) THEN {Head(replies)}
  ELSE IF got THEN BOOLEAN ELSE {FALSE, Head(replies)}

(* A data event calls every listener with the same bytes; without one the   *)
(* bytes are gone.  The calls go on before the next event.                  *)
CalledLatest ==                        \* mutant: the last one registered, alone
  {i \in listeners : \A j \in listeners : j <= i}

Called == listeners

(* The listener of call c that is called, if any: a call awaits one reply.  *)
CalledFor(c) == {i \in Called : commands[i].call = c}

onData(n) ==
  LET left == Pieces - n
      done == Len(replies) - (left + 1) \div 2   \* replies now here in full
  IN
  /\ server # "lost"
  /\ Cut \/ left % 2 = 0
  /\ \E result \in parseResponse(n) :
       calls' = [c \in DOMAIN calls |->
                   IF CalledFor(c) = {} THEN calls[c]
                   ELSE [Continued(calls[c], result) EXCEPT
                           !.paired = @ /\ CalledFor(c) = {1} /\ Whole(n)]]
  /\ listeners' = {i - done : i \in listeners \ Called}
  /\ commands' = SubSeq(commands, done + 1, Len(commands))
  /\ replies' = SubSeq(replies, done + 1, Len(replies))
  /\ got' = (left % 2 = 1)
  /\ UNCHANGED <<serverVars, timerVars, server, warmup, others>>
-----------------------------------------------------------------------------
(* stopTrafficGenerator clears the interval of the last start, and          *)
(* startTrafficGenerator takes its place without clearing it.               *)
Cleared == [t \in DOMAIN timers |-> timers[t] /\ t # trafficInterval]

StartTimer(old) ==
  /\ timers' = Append(old, FALSE)
  /\ trafficInterval' = Len(timers) + 1

StopTimer == timers' = Cleared /\ trafficInterval' = 0

start ==
  /\ Requested
  /\ StartTimer(timers)
  /\ UNCHANGED <<socketVars, serverVars, server, calls, warmup>>

pause ==
  /\ Requested
  /\ StopTimer
  /\ UNCHANGED <<socketVars, serverVars, server, calls, warmup>>

stop ==
  /\ Requested
  /\ StopTimer
  /\ sendCommand(<<Command("FLUSHDB", 1, 0)>>)
  /\ UNCHANGED <<replies, got, serverVars, server, calls, warmup>>

load_state ==                            \* with a trafficConfig, or without
  /\ Requested
  /\ StartTimer(Cleared) \/ StopTimer
  /\ UNCHANGED <<socketVars, serverVars, server, calls, warmup>>

Next ==
  \/ \E c \in DOMAIN calls : dbAnswers(c)
  \/ \E t \in DOMAIN timers, item \in Items : tick(t, item)
  \/ warmUp
  \/ \E e \in Executes : execute(e[1], e[2])
  \/ serve \/ loseConnection \/ fallSilent
  \/ \E n \in 1..Pieces : onData(n)
  \/ start \/ pause \/ stop \/ load_state

Spec == Init /\ [][Next]_vars

(* The network goes on while the connection lasts, and the server as long   *)
(* as it answers, which it may cease to do at any time; the timer of the    *)
(* simulated database fires.                                                *)
FairSpec ==
  /\ Spec
  /\ WF_vars(serve)
  /\ WF_vars(\E n \in 1..Pieces : onData(n))
  /\ \A c \in 1..MaxRequests : WF_vars(c \in DOMAIN calls /\ dbAnswers(c))
-----------------------------------------------------------------------------
(* sendCommand (redis.ts:69) takes the next data event for its reply, but   *)
(* no command is still listening when its own reply has come in full.  So   *)
(* it gets its own reply or that of a command it overlaps with, never that  *)
(* of a later one, and alone on the connection it gets its own.             *)
NeverLate == listeners \subseteq DOMAIN commands

(* The read-through cache (cache.ts:23): a call of getItem whose commands   *)
(* got their own replies, whole, ends with its item stored, then or before. *)
Ended(c) == c \in DOMAIN calls /\ calls[c].pc = "done"

Populates ==
  \A c \in DOMAIN calls : Ended(c) /\ calls[c].paired => calls[c].item \in everStored

(* Mixed up or not, every call of getItem ends: each command has a listener *)
(* by the time its own reply arrives, so a call waits for ever only for a   *)
(* reply that never comes: the connection is lost, where nothing rejects    *)
(* the promises, or the server has stopped to answer, and no timer watches. *)
CallsEnd ==
  \A c \in 1..MaxRequests :
    c \in DOMAIN calls ~> server # "answers" \/ Ended(c)

(* "This pre-populates the cache with 50 items"                             *)
(* (docs/WORKSHOP_WALKTHROUGH.md:132): when /warmup has answered, every     *)
(* item is in the cache or has been.                                        *)
Warmed ==
  warmup # {} /\ (\A c \in warmup : Ended(c)) => Items \subseteq everStored

(* "Use pause button to stop traffic during talking"                        *)
(* (docs/WORKSHOP_QUICK_START.md:151): after stopTrafficGenerator no timer  *)
(* calls getItem until the next start.                                      *)
PauseStops == trafficInterval = 0 => \A t \in DOMAIN timers : ~timers[t]
=============================================================================
