-------------------------- MODULE MiddlewareProofs --------------------------
(***************************************************************************)
(* The middleware's one connection, for any number of items and requests    *)
(* and however the replies are cut into data events.                        *)
(***************************************************************************)
EXTENDS Middleware, SequenceTheorems, TLAPS

CallType == [item : Items, pc : {"get", "db", "set", "done"}, paired : BOOLEAN]
CommandType == [op : Ops, item : Items, call : Nat]

Typed ==
  /\ calls \in Seq(CallType) /\ commands \in Seq(CommandType)
  /\ replies \in Seq(BOOLEAN) /\ Len(replies) <= Len(commands) /\ got \in BOOLEAN
  /\ store \subseteq everStored

(* A reply that says an item is there, or has been put there, is right. *)
Proves(cmd, reply) == cmd.op = "SET" \/ (cmd.op = "GET" /\ reply)

RepliesInv ==
  \A j \in DOMAIN replies : Proves(commands[j], replies[j]) => commands[j].item \in everStored

(* The command is the one its call waits for. *)
Waits(cmd, cs) ==
  cmd.call # 0 =>
    /\ cmd.call \in DOMAIN cs /\ cmd.item = cs[cmd.call].item
    /\ \/ cs[cmd.call].pc = "get" /\ cmd.op = "GET"
       \/ cs[cmd.call].pc = "set" /\ cmd.op = "SET"

WaitInv == \A i \in listeners : Waits(commands[i], calls)

Inv == Typed /\ RepliesInv /\ NeverLate /\ WaitInv /\ Populates

LEMMA InvInit == Init => Inv
<1> SUFFICES ASSUME Init PROVE Inv
  OBVIOUS
<1>1. Typed
  <2>1. /\ <<>> \in Seq(CallType) /\ <<>> \in Seq(CommandType) /\ <<>> \in Seq(BOOLEAN)
        /\ Len(<<>>) <= Len(<<>>)
    OBVIOUS
  <2>2. calls = <<>> /\ commands = <<>> /\ replies = <<>> /\ got = FALSE /\ store = {}
    BY DEF Init
  <2> QED
    BY <2>1, <2>2 DEF Typed
<1>2. RepliesInv /\ NeverLate /\ WaitInv
  BY DEF Init, RepliesInv, NeverLate, WaitInv
<1>3. Populates
  BY DEF Init, Populates
<1> QED
  BY <1>1, <1>2, <1>3 DEF Inv

(* Commands are sent: those before them keep their places. *)
LEMMA Sent ==
  ASSUME Typed, NEW cmds \in Seq(CommandType), sendCommand(cmds)
  PROVE  /\ commands' \in Seq(CommandType) /\ Len(commands') = Len(commands) + Len(cmds)
         /\ \A i \in DOMAIN commands : i \in DOMAIN commands' /\ commands'[i] = commands[i]
         /\ \A i \in listeners' :
              i \in listeners \/ \E k \in DOMAIN cmds : i \in DOMAIN commands' /\ commands'[i] = cmds[k]
<1>1. /\ commands' = commands \o cmds
      /\ listeners' = listeners \cup (Len(commands) + 1 .. Len(commands) + Len(cmds))
  BY DEF sendCommand
<1>2. commands \in Seq(CommandType) /\ Len(commands) \in Nat /\ Len(cmds) \in Nat
  BY DEF Typed
<1>3. /\ commands' \in Seq(CommandType) /\ Len(commands') = Len(commands) + Len(cmds)
      /\ \A i \in 1 .. Len(commands) + Len(cmds) :
           commands'[i] = IF i <= Len(commands) THEN commands[i] ELSE cmds[i - Len(commands)]
  BY <1>1, <1>2, ConcatProperties
<1>4. DOMAIN commands = 1 .. Len(commands) /\ DOMAIN commands' = 1 .. Len(commands) + Len(cmds)
  BY <1>2, <1>3
<1>5. \A i \in DOMAIN commands : i \in DOMAIN commands' /\ commands'[i] = commands[i]
  BY <1>2, <1>3, <1>4
<1>6. ASSUME NEW i \in Len(commands) + 1 .. Len(commands) + Len(cmds)
      PROVE  \E k \in DOMAIN cmds : i \in DOMAIN commands' /\ commands'[i] = cmds[k]
  <2>1. i - Len(commands) \in DOMAIN cmds /\ i \in DOMAIN commands'
    BY <1>2, <1>4
  <2>2. commands'[i] = cmds[i - Len(commands)]
    BY <1>2, <1>3
  <2> QED
    BY <2>1, <2>2
<1> QED
  BY <1>1, <1>3, <1>5, <1>6

LEMMA SendInv ==
  ASSUME Inv, NEW cmds \in Seq(CommandType), sendCommand(cmds), UNCHANGED <<replies, got, serverVars>>,
         calls' \in Seq(CallType),
         \A c \in DOMAIN calls :
           c \in DOMAIN calls' /\ (calls[c].pc \in {"get", "set"} => calls'[c] = calls[c]),
         \A k \in DOMAIN cmds : Waits(cmds[k], calls'),
         Populates'
  PROVE  Inv'
<1>1. /\ commands' \in Seq(CommandType) /\ Len(commands') = Len(commands) + Len(cmds)
      /\ \A i \in DOMAIN commands : i \in DOMAIN commands' /\ commands'[i] = commands[i]
      /\ \A i \in listeners' :
           i \in listeners \/ \E k \in DOMAIN cmds : i \in DOMAIN commands' /\ commands'[i] = cmds[k]
  BY Sent DEF Inv
<1>2. \A j \in DOMAIN replies : j \in DOMAIN commands
  BY DEF Inv, Typed
<1>3. Typed'
  BY <1>1 DEF Inv, Typed, serverVars
<1>4. RepliesInv'
  BY <1>1, <1>2 DEF Inv, RepliesInv, Proves, serverVars
<1>5. NeverLate'
  BY <1>1 DEF Inv, NeverLate
<1>6. WaitInv'
  <2> SUFFICES ASSUME NEW i \in listeners' PROVE Waits(commands'[i], calls')
    BY DEF WaitInv
  <2>1. CASE i \in listeners
    <3>1. commands'[i] = commands[i] /\ Waits(commands[i], calls)
      BY <1>1, <2>1 DEF Inv, NeverLate, WaitInv
    <3>2. Waits(commands[i], calls')
      BY <3>1 DEF Waits
    <3> QED
      BY <3>1, <3>2
  <2>2. CASE \E k \in DOMAIN cmds : commands'[i] = cmds[k]
    <3>1. PICK k \in DOMAIN cmds : commands'[i] = cmds[k]
      BY <2>2
    <3>2. Waits(cmds[k], calls')
      OBVIOUS
    <3> QED
      BY <3>1, <3>2
  <2> QED
    BY <1>1, <2>1, <2>2
<1> QED
  BY <1>3, <1>4, <1>5, <1>6 DEF Inv

(* The calls of getItem begin, each with the GET it waits for. *)
LEMMA InvGetItem ==
  ASSUME Inv, NEW items \in Seq(Items), getItem(items), UNCHANGED <<replies, got, serverVars>>
  PROVE  Inv'
<1>1. PICK new, cmds :
        /\ new = [k \in DOMAIN items |-> [item |-> items[k], pc |-> "get", paired |-> TRUE]]
        /\ cmds = [k \in DOMAIN items |-> Command("GET", items[k], Len(calls) + k)]
  OBVIOUS
<1>2. calls' = calls \o new /\ sendCommand(cmds)
  BY <1>1 DEF getItem
<1>3. /\ calls \in Seq(CallType) /\ Len(calls) \in Nat /\ Len(items) \in Nat
      /\ DOMAIN calls = 1 .. Len(calls) /\ DOMAIN items = 1 .. Len(items)
  BY DEF Inv, Typed
<1>4. ASSUME NEW k \in DOMAIN items
      PROVE  /\ k \in Nat /\ k # 0 /\ items[k] \in Items
             /\ [item |-> items[k], pc |-> "get", paired |-> TRUE] \in CallType
             /\ Command("GET", items[k], Len(calls) + k) \in CommandType
  BY <1>3 DEF CallType, CommandType, Command, Ops
<1>5. /\ new \in Seq(CallType) /\ Len(new) = Len(items)
      /\ cmds \in Seq(CommandType) /\ DOMAIN cmds = DOMAIN items
  <2>1. new \in [1 .. Len(items) -> CallType] /\ cmds \in [1 .. Len(items) -> CommandType]
    BY <1>1, <1>3, <1>4
  <2>2. new \in Seq(CallType) /\ cmds \in Seq(CommandType)
    BY <1>3, <2>1, SeqDef, SMTT(30)
  <2> QED
    BY <1>3, <2>1, <2>2, LenProperties
<1>6. /\ calls' \in Seq(CallType) /\ Len(calls') = Len(calls) + Len(items)
      /\ \A c \in 1 .. Len(calls) + Len(items) :
           calls'[c] = IF c <= Len(calls) THEN calls[c] ELSE new[c - Len(calls)]
  <2>1. /\ calls \o new \in Seq(CallType) /\ Len(calls \o new) = Len(calls) + Len(new)
        /\ \A c \in 1 .. Len(calls) + Len(new) :
             (calls \o new)[c] = IF c <= Len(calls) THEN calls[c] ELSE new[c - Len(calls)]
    BY <1>3, <1>5, ConcatProperties, Zenon
  <2>2. Len(new) = Len(items)
    BY <1>5
  <2> QED
    BY <1>2, <2>1, <2>2, Zenon
<1>7. DOMAIN calls' = 1 .. Len(calls) + Len(items)
  BY <1>3, <1>6
<1>8. \A c \in DOMAIN calls : c \in DOMAIN calls' /\ calls'[c] = calls[c]
  BY <1>3, <1>6, <1>7
<1>9. ASSUME NEW k \in DOMAIN items
      PROVE  /\ Len(calls) + k \in DOMAIN calls'
             /\ calls'[Len(calls) + k] = [item |-> items[k], pc |-> "get", paired |-> TRUE]
  <2>1. Len(calls) + k \in 1 .. Len(calls) + Len(items) /\ ~(Len(calls) + k <= Len(calls))
    BY <1>3
  <2>2. (Len(calls) + k) - Len(calls) = k
    BY <1>3
  <2>3. calls'[Len(calls) + k] = new[k]
    BY <1>6, <2>1, <2>2
  <2> QED
    BY <1>1, <1>7, <2>1, <2>3
<1>10. \A k \in DOMAIN cmds : Waits(cmds[k], calls')
  <2> SUFFICES ASSUME NEW k \in DOMAIN items PROVE Waits(cmds[k], calls')
    BY <1>5
  <2>1. cmds[k] = [op |-> "GET", item |-> items[k], call |-> Len(calls) + k]
    BY <1>1 DEF Command
  <2>2. PICK c, call : /\ c = Len(calls) + k /\ c \in DOMAIN calls' /\ call = calls'[c]
                       /\ call = [item |-> items[k], pc |-> "get", paired |-> TRUE]
    BY <1>9
  <2>3. call.item = items[k] /\ call.pc = "get"
    BY <2>2
  <2>4. cmds[k].op = "GET" /\ cmds[k].item = items[k] /\ cmds[k].call = c
    BY <2>1, <2>2
  <2> QED
    BY <2>2, <2>3, <2>4 DEF Waits
<1>11. Populates'
  <2> SUFFICES ASSUME NEW c \in DOMAIN calls', calls'[c].pc = "done", calls'[c].paired
               PROVE  calls'[c].item \in everStored
    BY DEF Populates, Ended, serverVars
  <2>1. CASE c \in DOMAIN calls
    BY <1>8, <2>1 DEF Inv, Populates, Ended
  <2>2. CASE c \notin DOMAIN calls
    <3>1. c - Len(calls) \in DOMAIN items /\ Len(calls) + (c - Len(calls)) = c
      BY <1>3, <1>7, <2>2
    <3>2. PICK k \in DOMAIN items : Len(calls) + k = c
      BY <3>1
    <3>3. calls'[c] = [item |-> items[k], pc |-> "get", paired |-> TRUE]
      BY <1>9, <3>2
    <3>4. calls'[c].pc = "get"
      BY <3>3
    <3> QED
      BY <3>4
  <2> QED
    BY <2>1, <2>2
<1> QED
  BY <1>2, <1>5, <1>6, <1>8, <1>10, <1>11, SendInv

LEMMA InvDbAnswers ==
  ASSUME Inv, NEW c \in DOMAIN calls, dbAnswers(c)
  PROVE  Inv'
<1>1. PICK cmd : cmd = Command("SET", calls[c].item, c)
  OBVIOUS
<1>2. /\ calls[c].pc = "db" /\ calls' = [calls EXCEPT ![c].pc = "set"]
      /\ sendCommand(<<cmd>>) /\ UNCHANGED <<replies, got, serverVars>>
  BY <1>1 DEF dbAnswers
<1>3. calls \in Seq(CallType) /\ calls[c] \in CallType /\ c \in Nat /\ c # 0
  BY DEF Inv, Typed
<1>4. /\ cmd \in CommandType /\ cmd.op = "SET" /\ cmd.item = calls[c].item /\ cmd.call = c
  BY <1>1, <1>3 DEF Command, CommandType, CallType, Ops
<1>5. <<cmd>> \in Seq(CommandType) /\ DOMAIN <<cmd>> = {1} /\ <<cmd>>[1] = cmd
  BY <1>4
<1>6. [calls[c] EXCEPT !.pc = "set"] \in CallType
  BY <1>3 DEF CallType
<1>7. /\ calls' \in Seq(CallType) /\ DOMAIN calls' = DOMAIN calls
      /\ calls'[c] = [calls[c] EXCEPT !.pc = "set"]
      /\ \A d \in DOMAIN calls : d # c => calls'[d] = calls[d]
  BY <1>2, <1>3, <1>6
<1>8. calls'[c].pc = "set" /\ calls'[c].item = calls[c].item
  BY <1>3, <1>7 DEF CallType
<1>9. Waits(cmd, calls')
  BY <1>4, <1>7, <1>8 DEF Waits
<1>10. \A d \in DOMAIN calls : calls[d].pc \in {"get", "set"} => calls'[d] = calls[d]
  BY <1>2, <1>7
<1>11. Populates'
  BY <1>2, <1>7, <1>8 DEF Inv, Populates, Ended, serverVars
<1> QED
  BY <1>2, <1>5, <1>7, <1>9, <1>10, <1>11, SendInv

(* Commands of the other routes belong to no call. *)
LEMMA InvOther ==
  ASSUME Inv, NEW cmd \in CommandType, cmd.call = 0, sendCommand(<<cmd>>),
         UNCHANGED <<replies, got, serverVars, calls>>
  PROVE  Inv'
<1>1. <<cmd>> \in Seq(CommandType) /\ DOMAIN <<cmd>> = {1} /\ <<cmd>>[1] = cmd
  OBVIOUS
<1>2. Waits(cmd, calls')
  BY DEF Waits
<1>3. Populates'
  BY DEF Inv, Populates, Ended, serverVars
<1> QED
  BY <1>1, <1>2, <1>3, SendInv DEF Inv, Typed

LEMMA InvSame ==
  ASSUME Inv, UNCHANGED <<socketVars, serverVars, calls>>
  PROVE  Inv'
  BY DEF Inv, Typed, RepliesInv, Proves, NeverLate, WaitInv, Waits, Populates, Ended,
         socketVars, serverVars

LEMMA InvServe ==
  ASSUME Inv, serve
  PROVE  Inv'
<1> DEFINE n == Len(replies)
           cmd == commands[n + 1]
<1>1. /\ n < Len(commands) /\ replies' = Append(replies, IsString(cmd)) /\ store' = Stored(cmd)
      /\ everStored' = everStored \cup store' /\ UNCHANGED <<commands, listeners, got, calls>>
  BY DEF serve
<1>2. /\ replies \in Seq(BOOLEAN) /\ n \in Nat /\ commands \in Seq(CommandType)
      /\ Len(commands) \in Nat /\ n + 1 \in DOMAIN commands
  BY <1>1 DEF Inv, Typed
<1>3. IsString(cmd) \in BOOLEAN
  <2>1. CASE cmd.op = "GET"
    <3>1. CASE cmd.item \in store
      <4>1. IsString(cmd) = TRUE
        BY <2>1, <3>1 DEF IsString
      <4> QED
        BY <4>1
    <3>2. CASE cmd.item \notin store
      <4>1. IsString(cmd) = FALSE
        BY <2>1, <3>2 DEF IsString
      <4> QED
        BY <4>1
    <3> QED
      BY <3>1, <3>2
  <2>2. CASE cmd.op = "DEL"
    <3>1. IsString(cmd) = FALSE
      BY <2>2 DEF IsString
    <3> QED
      BY <3>1
  <2>3. CASE cmd.op # "GET" /\ cmd.op # "DEL"
    <3>1. IsString(cmd) = TRUE
      BY <2>3 DEF IsString
    <3> QED
      BY <3>1
  <2> QED
    BY <2>1, <2>2, <2>3
<1>4. PICK said \in BOOLEAN : said = IsString(cmd)
  BY <1>3
<1>5. /\ replies' \in Seq(BOOLEAN) /\ Len(replies') = n + 1 /\ DOMAIN replies' = 1 .. n + 1
      /\ replies'[n + 1] = said /\ \A j \in 1 .. n : replies'[j] = replies[j] /\ j \in DOMAIN replies
  BY <1>1, <1>2, <1>4
<1>6. Typed'
  <2>1. Len(replies') <= Len(commands') /\ store' \subseteq everStored'
    BY <1>1, <1>2, <1>5
  <2> QED
    BY <1>1, <1>5, <2>1 DEF Inv, Typed
<1>7. Proves(cmd, said) => cmd.item \in everStored'
  <2>1. CASE cmd.op = "SET"
    BY <1>1, <2>1 DEF Stored
  <2>2. CASE cmd.op = "GET" /\ said
    <3>1. cmd.item \in store
      BY <1>4, <2>2 DEF IsString
    <3> QED
      BY <1>1, <3>1 DEF Inv, Typed
  <2> QED
    BY <2>1, <2>2 DEF Proves
<1>8. RepliesInv'
  <2> SUFFICES ASSUME NEW j \in 1 .. n + 1, Proves(commands[j], replies'[j])
               PROVE  commands[j].item \in everStored'
    BY <1>1, <1>5 DEF RepliesInv
  <2>1. CASE j = n + 1
    BY <1>5, <1>7, <2>1
  <2>2. CASE j # n + 1
    <3>1. j \in 1 .. n
      BY <1>2, <2>2
    <3> QED
      BY <1>1, <1>5, <3>1 DEF Inv, RepliesInv
  <2> QED
    BY <2>1, <2>2
<1>9. NeverLate' /\ WaitInv'
  BY <1>1 DEF Inv, NeverLate, WaitInv
<1>10. Populates'
  BY <1>1 DEF Inv, Populates, Ended
<1> QED
  BY <1>6, <1>8, <1>9, <1>10 DEF Inv

(* What is left of a sequence without its first d elements. *)
LEMMA Dropped ==
  ASSUME NEW S, NEW s \in Seq(S), NEW d \in 0 .. Len(s)
  PROVE  LET rest == SubSeq(s, d + 1, Len(s)) IN
         /\ rest \in Seq(S) /\ Len(rest) = Len(s) - d
         /\ \A i \in 1 .. Len(s) - d : rest[i] = s[d + i]
<1>1. Len(s) \in Nat /\ d + 1 \in Int /\ Len(s) \in Int /\ \A i \in d + 1 .. Len(s) : s[i] \in S
  OBVIOUS
<1> DEFINE rest == SubSeq(s, d + 1, Len(s))
<1>2. PICK m \in Int, l \in Int : m = d + 1 /\ l = Len(s)
  BY <1>1
<1>3. /\ SubSeq(s, m, l) \in Seq(S)
      /\ Len(SubSeq(s, m, l)) = IF m <= l THEN l - m + 1 ELSE 0
      /\ \A i \in 1 .. l - m + 1 : SubSeq(s, m, l)[i] = s[m + i - 1]
  <2>1. \A i \in m .. l : s[i] \in S
    BY <1>1, <1>2
  <2> QED
    BY <2>1, SubSeqProperties
<1>4. rest = SubSeq(s, m, l)
  BY <1>2
<1> HIDE DEF rest
<1>5. Len(rest) = Len(s) - d
  BY <1>1, <1>2, <1>3, <1>4
<1>6. ASSUME NEW i \in 1 .. Len(s) - d PROVE rest[i] = s[d + i]
  <2>1. i \in 1 .. l - m + 1 /\ m + i - 1 = d + i
    BY <1>1, <1>2
  <2> QED
    BY <1>3, <1>4, <2>1
<1> QED
  BY <1>3, <1>4, <1>5, <1>6 DEF rest

LEMMA CallRecord ==
  ASSUME NEW i \in Items, NEW pc \in {"get", "db", "set", "done"}, NEW p \in BOOLEAN
  PROVE  [item |-> i, pc |-> pc, paired |-> p] \in CallType
  BY DEF CallType

(* One call in a data event: only its own reply, whole, keeps it paired. *)
LEMMA CalledBack ==
  ASSUME Inv, NEW n \in 1 .. Pieces, NEW result \in parseResponse(n), NEW c \in DOMAIN calls,
         CalledFor(c) # {}, NEW call,
         call = [Continued(calls[c], result) EXCEPT !.paired = @ /\ CalledFor(c) = {1} /\ Whole(n)]
  PROVE  /\ call \in CallType
         /\ call.pc = "done" /\ call.paired => call.item \in everStored
<1>1. calls[c] \in CallType /\ c # 0
  BY DEF Inv, Typed
<1> DEFINE kept == calls[c].paired /\ CalledFor(c) = {1} /\ Whole(n)
           next == IF calls[c].pc = "get" /\ ~result THEN "db" ELSE "done"
<1>2. kept \in BOOLEAN /\ next \in {"db", "done"}
  OBVIOUS
<1>3. Continued(calls[c], result).paired = calls[c].paired
  BY <1>1 DEF Continued, CallType
<1>4. call = [Continued(calls[c], result) EXCEPT !.paired = kept]
  BY <1>3
<1> HIDE DEF kept
<1>5. call = [item |-> calls[c].item, pc |-> next, paired |-> kept]
  BY <1>1, <1>4 DEF Continued, CallType
<1>6. call.item = calls[c].item /\ call.pc = next /\ call.paired = kept
  BY <1>5
<1>7. call \in CallType
  <2>1. PICK to \in {"db", "done"}, keep \in BOOLEAN : to = next /\ keep = kept
    BY <1>2
  <2>2. call = [item |-> calls[c].item, pc |-> to, paired |-> keep]
    BY <1>5, <2>1
  <2>3. calls[c].item \in Items
    BY <1>1 DEF CallType
  <2>4. to \in {"get", "db", "set", "done"}
    OBVIOUS
  <2> QED
    BY <2>2, <2>3, <2>4, CallRecord
<1>8. ASSUME next = "done", kept PROVE calls[c].item \in everStored
  <2>1. CalledFor(c) = {1} /\ Whole(n)
    BY <1>8 DEF kept
  <2>2. 1 \in listeners /\ commands[1].call = c
    BY <2>1 DEF CalledFor, Called
  <2>3. Waits(commands[1], calls)
    BY <2>2 DEF Inv, WaitInv
  <2>4. /\ commands[1].item = calls[c].item
        /\ \/ calls[c].pc = "get" /\ commands[1].op = "GET"
           \/ calls[c].pc = "set" /\ commands[1].op = "SET"
    BY <1>1, <2>2, <2>3 DEF Waits
  <2>5. 1 \in DOMAIN replies /\ Head(replies) = replies[1]
    <3>1. replies \in Seq(BOOLEAN) /\ Len(replies) \in Nat /\ ~got
      BY <2>1 DEF Inv, Typed, Whole
    <3>2. Len(replies) > 0
      BY <3>1 DEF Pieces
    <3> QED
      BY <3>1, <3>2
  <2>6. result = replies[1]
    <3>1. parseResponse(n) = {Head(replies)}
      BY <2>1 DEF parseResponse, Whole
    <3> QED
      BY <2>5, <3>1
  <2>7. Proves(commands[1], replies[1])
    BY <1>8, <2>4, <2>6 DEF Proves
  <2> QED
    BY <2>4, <2>5, <2>7 DEF Inv, RepliesInv
<1> QED
  BY <1>6, <1>7, <1>8

LEMMA InvOnData ==
  ASSUME Inv, NEW n \in 1 .. Pieces, onData(n)
  PROVE  Inv'
<1>1. /\ replies \in Seq(BOOLEAN) /\ Len(replies) \in Nat /\ got \in BOOLEAN
      /\ commands \in Seq(CommandType) /\ Len(commands) \in Nat /\ Len(replies) <= Len(commands)
      /\ calls \in Seq(CallType)
  BY DEF Inv, Typed
<1>2. PICK d : d = Len(replies) - (Pieces - n + 1) \div 2
  OBVIOUS
<1>3. d \in 0 .. Len(replies) /\ d \in 0 .. Len(commands)
  <2>1. PICK p \in Int : p = Pieces - n + 1 /\ 1 <= p /\ p <= 2 * Len(replies)
    <3>1. Pieces \in Int /\ Pieces <= 2 * Len(replies)
      BY <1>1 DEF Pieces
    <3> QED
      BY <1>1, <3>1
  <2>2. PICK q \in Int : q = p \div 2 /\ 0 <= q /\ q <= Len(replies)
    BY <1>1, <2>1
  <2>3. d = Len(replies) - q
    BY <1>2, <2>1, <2>2
  <2> QED
    BY <1>1, <2>2, <2>3
<1>4. /\ listeners' = {}
      /\ commands' = SubSeq(commands, d + 1, Len(commands))
      /\ replies' = SubSeq(replies, d + 1, Len(replies))
      /\ got' = ((Pieces - n) % 2 = 1)
      /\ UNCHANGED serverVars
  BY <1>2 DEF onData, Called
<1>5. PICK result \in parseResponse(n) :
        calls' = [c \in DOMAIN calls |->
                    IF CalledFor(c) = {} THEN calls[c]
                    ELSE [Continued(calls[c], result) EXCEPT
                            !.paired = @ /\ CalledFor(c) = {1} /\ Whole(n)]]
  BY DEF onData
<1>6. /\ commands' \in Seq(CommandType) /\ Len(commands') = Len(commands) - d
      /\ \A i \in 1 .. Len(commands) - d : commands'[i] = commands[d + i]
  BY <1>1, <1>3, <1>4, Dropped
<1>7. /\ replies' \in Seq(BOOLEAN) /\ Len(replies') = Len(replies) - d
      /\ \A i \in 1 .. Len(replies) - d : replies'[i] = replies[d + i]
  BY <1>1, <1>3, <1>4, Dropped
<1>8. ASSUME NEW c \in DOMAIN calls
      PROVE  /\ calls'[c] \in CallType
             /\ calls'[c].pc = "done" /\ calls'[c].paired => calls'[c].item \in everStored
  <2>1. CASE CalledFor(c) = {}
    <3>1. calls'[c] = calls[c]
      BY <1>5, <2>1
    <3> QED
      BY <1>1, <3>1 DEF Inv, Populates, Ended
  <2>2. CASE CalledFor(c) # {}
    <3>1. calls'[c] = [Continued(calls[c], result) EXCEPT
                         !.paired = @ /\ CalledFor(c) = {1} /\ Whole(n)]
      BY <1>5, <2>2, Zenon
    <3> QED
      BY <2>2, <3>1, CalledBack
  <2> QED
    BY <2>1, <2>2
<1>9. DOMAIN calls' = DOMAIN calls /\ DOMAIN calls = 1 .. Len(calls) /\ Len(calls) \in Nat
  BY <1>1, <1>5
<1>10. calls' \in Seq(CallType)
  <2>1. calls' \in [1 .. Len(calls) -> CallType]
    <3>1. \E f : calls' = [c \in DOMAIN calls |-> f[c]]
      <4> DEFINE f == [c \in DOMAIN calls |->
                    IF CalledFor(c) = {} THEN calls[c]
                    ELSE [Continued(calls[c], result) EXCEPT
                            !.paired = @ /\ CalledFor(c) = {1} /\ Whole(n)]]
      <4> HIDE DEF f
      <4>1. calls' = f
        BY <1>5 DEF f
      <4>2. f = [c \in DOMAIN calls |-> f[c]]
        BY DEF f
      <4> QED
        BY <4>1, <4>2
    <3> QED
      BY <1>8, <1>9, <3>1
  <2> QED
    BY <1>9, <2>1, SeqDef
<1>11. Typed'
  <2>1. got' \in BOOLEAN
    BY <1>4
  <2>2. Len(replies') <= Len(commands')
    BY <1>1, <1>3, <1>6, <1>7
  <2> QED
    BY <1>4, <1>6, <1>7, <1>10, <2>1, <2>2 DEF Inv, Typed, serverVars
<1>12. RepliesInv'
  <2> SUFFICES ASSUME NEW j \in DOMAIN replies', Proves(commands'[j], replies'[j])
               PROVE  commands'[j].item \in everStored
    BY <1>4 DEF RepliesInv, serverVars
  <2>1. j \in 1 .. Len(replies) - d /\ j \in 1 .. Len(commands) - d /\ d + j \in DOMAIN replies
    BY <1>1, <1>3, <1>7
  <2>2. commands'[j] = commands[d + j] /\ replies'[j] = replies[d + j]
    BY <1>6, <1>7, <2>1
  <2> QED
    BY <2>1, <2>2 DEF Inv, RepliesInv
<1>13. NeverLate' /\ WaitInv'
  BY <1>4 DEF NeverLate, WaitInv
<1>14. Populates'
  BY <1>4, <1>8, <1>9 DEF Populates, Ended, serverVars
<1> QED
  BY <1>11, <1>12, <1>13, <1>14 DEF Inv

LEMMA InvNext == Inv /\ [Next]_vars => Inv'
<1> SUFFICES ASSUME Inv, [Next]_vars PROVE Inv'
  OBVIOUS
<1>1. ASSUME NEW c \in DOMAIN calls, dbAnswers(c) PROVE Inv'
  BY <1>1, InvDbAnswers
<1>2. ASSUME NEW t \in DOMAIN timers, NEW item \in Items, tick(t, item) PROVE Inv'
  <2>1. <<item>> \in Seq(Items)
    OBVIOUS
  <2> QED
    BY <1>2, <2>1, InvGetItem DEF tick
<1>3. CASE warmUp
  <2>1. [k \in Items |-> k] \in Seq(Items)
    BY MiddlewareAssumption, SeqDef DEF Items
  <2> QED
    BY <1>3, <2>1, InvGetItem DEF warmUp
<1>4. ASSUME NEW e \in Executes, execute(e[1], e[2]) PROVE Inv'
  <2>1. e[1] \in Ops /\ e[2] \in Items
    BY MiddlewareAssumption
  <2>2. PICK cmd : cmd = Command(e[1], e[2], 0)
    OBVIOUS
  <2>3. cmd \in CommandType /\ cmd.call = 0
    BY <2>1, <2>2 DEF Command, CommandType
  <2> QED
    BY <1>4, <2>2, <2>3, InvOther DEF execute
<1>5. CASE serve
  BY <1>5, InvServe
<1>6. CASE loseConnection \/ fallSilent
  BY <1>6, InvSame DEF loseConnection, fallSilent
<1>7. ASSUME NEW n \in 1 .. Pieces, onData(n) PROVE Inv'
  BY <1>7, InvOnData
<1>8. CASE start \/ pause \/ load_state
  BY <1>8, InvSame DEF start, pause, load_state
<1>9. CASE stop
  <2>1. PICK cmd : cmd = Command("FLUSHDB", 1, 0)
    OBVIOUS
  <2>2. cmd \in CommandType /\ cmd.call = 0
    BY <2>1, MiddlewareAssumption DEF Command, CommandType, Ops, Items
  <2> QED
    BY <1>9, <2>1, <2>2, InvOther DEF stop
<1>10. CASE UNCHANGED vars
  BY <1>10, InvSame DEF vars
<1> QED
  BY <1>1, <1>2, <1>3, <1>4, <1>5, <1>6, <1>7, <1>8, <1>9, <1>10 DEF Next

LEMMA Invariance == Spec => []Inv
  BY InvInit, InvNext, PTL DEF Spec

(* sendCommand takes the next data event for its reply: whatever the cuts   *)
(* and the overlaps, no listener outlives the full arrival of its own       *)
(* command's reply.                                                         *)
THEOREM NeverListensLate == Spec => []NeverLate
<1>1. Inv => NeverLate
  BY DEF Inv
<1> QED
  BY <1>1, Invariance, PTL

(* The read-through cache keeps its word: a call of getItem that ends with  *)
(* its own replies, whole, leaves its item stored, then or before.          *)
THEOREM CachePopulated == Spec => []Populates
<1>1. Inv => Populates
  BY DEF Inv
<1> QED
  BY <1>1, Invariance, PTL
=============================================================================
