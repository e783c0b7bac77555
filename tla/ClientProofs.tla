---------------------------- MODULE ClientProofs ----------------------------
(***************************************************************************)
(* The client library returns every reply at most once, never before its    *)
(* command, and, until a receive times out, to the command it answers: for  *)
(* any number of commands and connections, any replies, and every protocol  *)
(* that frames them, wherever reads end and the peer closes, as long as no  *)
(* announced array is torn and no connect() finds bytes in the parser.      *)
(***************************************************************************)
EXTENDS Client, SequenceTheorems, TLAPS

(* The bytes of the reply to command k. *)
Bytes(k) == serialize(Reply(k))

LEMMA ReplyBytes ==
  ASSUME NEW k \in 1 .. MaxCommands
  PROVE  Bytes(k) \in Seq(Byte) /\ Len(Bytes(k)) \in Nat /\ Len(Bytes(k)) > 0
<1>1. Bytes(k) \in Seq(Byte) /\ Bytes(k) # <<>>
  BY ClientAssumption DEF Bytes
<1> QED
  BY <1>1, EmptySeq

LEMMA Regroup ==
  \A x, y, z \in Seq(Byte) : (x \o y) \o z = x \o (y \o z)
<1> SUFFICES ASSUME NEW x \in Seq(Byte), NEW y \in Seq(Byte), NEW z \in Seq(Byte)
             PROVE  (x \o y) \o z = x \o (y \o z)
  OBVIOUS
<1> QED
  BY ConcatAssociative

(* Both sides of a cut. *)
LEMMA Cut ==
  ASSUME NEW S, NEW s \in Seq(S), NEW n \in 0 .. Len(s)
  PROVE  LET p == SubSeq(s, 1, n)
             r == SubSeq(s, n + 1, Len(s))
         IN  /\ p \in Seq(S) /\ Len(p) = n /\ \A i \in 1 .. n : p[i] = s[i]
             /\ r \in Seq(S) /\ Len(r) = Len(s) - n /\ \A i \in 1 .. Len(s) - n : r[i] = s[n + i]
             /\ p \o r = s
<1> DEFINE p == SubSeq(s, 1, n)
           r == SubSeq(s, n + 1, Len(s))
<1>1. Len(s) \in Nat
  BY LenProperties
<1>2. n \in Nat /\ n \in Int /\ 1 \in Int /\ n + 1 \in Int /\ Len(s) \in Int
  BY <1>1
<1>3. \A i \in 1 .. n : s[i] \in S
  BY <1>1, <1>2, ElementOfSeq
<1>4. \A i \in n + 1 .. Len(s) : s[i] \in S
  BY <1>1, <1>2, ElementOfSeq
<1>5. /\ p \in Seq(S) /\ Len(p) = (IF 1 <= n THEN n - 1 + 1 ELSE 0)
      /\ \A i \in 1 .. n - 1 + 1 : p[i] = s[1 + i - 1]
  BY <1>2, <1>3, SubSeqProperties, SMT
<1>6. /\ r \in Seq(S) /\ Len(r) = (IF n + 1 <= Len(s) THEN Len(s) - (n + 1) + 1 ELSE 0)
      /\ \A i \in 1 .. Len(s) - (n + 1) + 1 : r[i] = s[(n + 1) + i - 1]
  BY <1>2, <1>4, SubSeqProperties, SMT
<1>7. Len(p) = n /\ \A i \in 1 .. n : p[i] = s[i]
  <2> HIDE DEF p
  <2> QED
    BY <1>2, <1>5
<1>8. Len(r) = Len(s) - n /\ \A i \in 1 .. Len(s) - n : r[i] = s[n + i]
  <2> HIDE DEF r
  <2>1. Len(s) - (n + 1) + 1 = Len(s) - n
    BY <1>1, <1>2
  <2>2. \A i \in 1 .. Len(s) - n : (n + 1) + i - 1 = n + i
    BY <1>1, <1>2
  <2>3. Len(r) = Len(s) - n
    BY <1>1, <1>2, <1>6
  <2> QED
    BY <1>6, <2>1, <2>2, <2>3
<1>9. p \o r = SubSeq(s, 1, Len(s))
  <2>1. 1 \in 1 .. Len(s) + 1 /\ n \in 1 - 1 .. Len(s) /\ Len(s) \in n .. Len(s)
    BY <1>1, <1>2
  <2> QED
    BY <2>1, ConcatAdjacentSubSeq
<1>10. p \o r = s
  BY <1>9, SubSeqFull
<1> QED
  BY <1>5, <1>6, <1>7, <1>8, <1>10
-----------------------------------------------------------------------------
(* pos tells where the replies lo + 1 .. m end, counted in bytes.           *)
Laid(pos, lo, m) ==
  /\ pos \in [lo .. m -> Nat]
  /\ \A j \in lo .. m - 1 : pos[j + 1] = pos[j] + Len(Bytes(j + 1))
  /\ \A i, j \in lo .. m : i <= j => pos[i] <= pos[j]

(* s is a beginning of the replies a + 1 .. m. *)
Begins(s, pos, a, m) ==
  /\ s \in Seq(Byte)
  /\ Len(s) <= pos[m] - pos[a]
  /\ \A j \in a .. m - 1 : \A i \in 1 .. Len(Bytes(j + 1)) :
       (pos[j] - pos[a]) + i <= Len(s) => s[(pos[j] - pos[a]) + i] = Bytes(j + 1)[i]

(* The places of a reply in the replies a + 1 .. m. *)
LEMMA Places ==
  ASSUME NEW lo \in Nat, NEW m \in 0 .. MaxCommands, NEW pos, Laid(pos, lo, m),
         NEW a \in lo .. m, NEW j \in a .. m - 1
  PROVE  /\ j \in Nat /\ j + 1 \in a .. m /\ j + 1 \in 1 .. MaxCommands
         /\ pos[a] \in Nat /\ pos[j] \in Nat /\ pos[j + 1] \in Nat /\ pos[m] \in Nat
         /\ Len(Bytes(j + 1)) \in Nat /\ pos[j + 1] = pos[j] + Len(Bytes(j + 1))
         /\ pos[a] <= pos[j] /\ pos[j + 1] <= pos[m]
<1>1. /\ j \in Nat /\ j + 1 \in a .. m /\ j + 1 \in 1 .. MaxCommands /\ m \in Nat
      /\ a \in lo .. m /\ j \in lo .. m - 1 /\ j \in lo .. m /\ j + 1 \in lo .. m /\ m \in lo .. m
      /\ a <= j /\ j + 1 <= m
  BY ClientAssumption
<1>2. Len(Bytes(j + 1)) \in Nat
  BY <1>1, ReplyBytes
<1>3. pos[a] \in Nat /\ pos[j] \in Nat /\ pos[j + 1] \in Nat /\ pos[m] \in Nat
  BY <1>1 DEF Laid
<1>4. pos[j + 1] = pos[j] + Len(Bytes(j + 1)) /\ pos[a] <= pos[j] /\ pos[j + 1] <= pos[m]
  BY <1>1 DEF Laid
<1> QED
  BY <1>1, <1>2, <1>3, <1>4

LEMMA Ends ==
  ASSUME NEW lo \in Nat, NEW m \in 0 .. MaxCommands, NEW pos, Laid(pos, lo, m), NEW a \in lo .. m
  PROVE  /\ m \in Nat /\ a \in Nat /\ a \in a .. m /\ m \in a .. m /\ m \in lo .. m
         /\ pos[a] \in Nat /\ pos[m] \in Nat /\ pos[a] <= pos[m] /\ MaxCommands \in Nat
<1>1. m \in Nat /\ a \in Nat /\ a <= m /\ a \in lo .. m /\ m \in lo .. m /\ MaxCommands \in Nat
  BY ClientAssumption
<1>2. pos[a] \in Nat /\ pos[m] \in Nat /\ pos[a] <= pos[m]
  BY <1>1 DEF Laid
<1> QED
  BY <1>1, <1>2

(* The beginning of a beginning. *)
LEMMA BeginsPrefix ==
  ASSUME NEW lo \in Nat, NEW m \in 0 .. MaxCommands, NEW pos, Laid(pos, lo, m), NEW a \in lo .. m,
         NEW s \in Seq(Byte), NEW t \in Seq(Byte), Begins(s \o t, pos, a, m)
  PROVE  Begins(s, pos, a, m)
<1>1. /\ Len(s \o t) = Len(s) + Len(t)
      /\ \A i \in 1 .. Len(s) + Len(t) : (s \o t)[i] = IF i <= Len(s) THEN s[i] ELSE t[i - Len(s)]
  BY ConcatProperties
<1>2. Len(s) \in Nat /\ Len(t) \in Nat
  BY LenProperties
<1>3. pos[a] \in Nat /\ pos[m] \in Nat
  BY Ends
<1>4. Len(s) <= pos[m] - pos[a]
  <2>1. Len(s \o t) <= pos[m] - pos[a]
    BY DEF Begins
  <2> QED
    BY ONLY <2>1, <1>1, <1>2, <1>3
<1>5. ASSUME NEW j \in a .. m - 1, NEW i \in 1 .. Len(Bytes(j + 1)), (pos[j] - pos[a]) + i <= Len(s)
      PROVE  s[(pos[j] - pos[a]) + i] = Bytes(j + 1)[i]
  <2> DEFINE x == (pos[j] - pos[a]) + i
  <2>1. x \in Nat /\ x > 0
    <3>1. pos[a] \in Nat /\ pos[j] \in Nat /\ pos[a] <= pos[j] /\ Len(Bytes(j + 1)) \in Nat
      BY Places
    <3> QED
      BY SMTT(30), <3>1
  <2>2. (s \o t)[x] = Bytes(j + 1)[i]
    <3>1. x <= Len(s \o t)
      <4> HIDE DEF x
      <4>1. x <= Len(s)
        BY <1>5 DEF x
      <4> QED
        BY ONLY <4>1, <2>1, <1>1, <1>2
    <3> QED
      BY <3>1 DEF Begins
  <2>3. (s \o t)[x] = s[x]
    <3>1. x <= Len(s)
      BY <1>5
    <3> HIDE DEF x
    <3> QED
      BY <3>1, <2>1, <1>1, <1>2
  <2> QED
    BY <2>2, <2>3
<1> QED
  BY <1>4, <1>5 DEF Begins

(* No reply, no bytes. *)
LEMMA BeginsNone ==
  ASSUME NEW lo \in Nat, NEW m \in 0 .. MaxCommands, NEW pos, Laid(pos, lo, m), NEW a \in lo .. m
  PROVE  /\ Begins(<<>>, pos, a, m)
         /\ a = m => \A s : Begins(s, pos, a, m) => s = <<>>
<1>1. <<>> \in Seq(Byte) /\ Len(<<>>) = 0
  BY EmptySeq
<1>2. pos[a] \in Nat /\ pos[m] \in Nat /\ pos[a] <= pos[m]
  BY Ends
<1>3. ASSUME NEW j \in a .. m - 1, NEW i \in 1 .. Len(Bytes(j + 1)) PROVE ~((pos[j] - pos[a]) + i <= 0)
  <2>1. pos[a] \in Nat /\ pos[j] \in Nat /\ pos[a] <= pos[j] /\ Len(Bytes(j + 1)) \in Nat
    BY Places
  <2> QED
    BY <2>1
<1>4. Begins(<<>>, pos, a, m)
  BY <1>1, <1>2, <1>3 DEF Begins
<1>5. ASSUME a = m, NEW s, Begins(s, pos, a, m) PROVE s = <<>>
  <2>1. s \in Seq(Byte) /\ Len(s) <= 0
    BY <1>2, <1>5 DEF Begins
  <2> QED
    BY <2>1, EmptySeq
<1> QED
  BY <1>4, <1>5

(* A byte between two ends, counted from u. *)
LEMMA Within ==
  ASSUME NEW u \in Nat, NEW w \in Nat, NEW x \in Nat, NEW y \in Nat, NEW i \in Nat,
         u <= x, i > 0, x + i <= y, y <= w
  PROVE  (x - u) + i \in 1 .. w - u
  OBVIOUS

(* Without its first reply. *)
LEMMA BeginsDrop ==
  ASSUME NEW lo \in Nat, NEW m \in 0 .. MaxCommands, NEW pos, Laid(pos, lo, m), NEW a \in lo .. m,
         a < m, NEW u \in Seq(Byte), Begins(Bytes(a + 1) \o u, pos, a, m)
  PROVE  /\ a + 1 \in lo .. m
         /\ Begins(u, pos, a + 1, m)
         /\ Len(Bytes(a + 1) \o u) = Len(u) + (pos[a + 1] - pos[a])
<1> DEFINE b == Bytes(a + 1)
<1>1. m \in Nat /\ a \in Nat /\ a \in a .. m - 1 /\ a + 1 \in lo .. m /\ a + 1 \in 1 .. MaxCommands
  BY ClientAssumption
<1>2. b \in Seq(Byte) /\ Len(b) \in Nat
  BY <1>1, ReplyBytes
<1>3. pos[a] \in Nat /\ pos[a + 1] \in Nat /\ pos[m] \in Nat /\ pos[a + 1] = pos[a] + Len(b)
  BY <1>1, Places
<1>4. /\ Len(b \o u) = Len(b) + Len(u)
      /\ \A i \in 1 .. Len(b) + Len(u) : (b \o u)[i] = IF i <= Len(b) THEN b[i] ELSE u[i - Len(b)]
  BY <1>2, ConcatProperties
<1>5. Len(u) \in Nat
  BY LenProperties
<1>6. Len(b \o u) <= pos[m] - pos[a]
  BY DEF Begins
<1>7. Len(u) <= pos[m] - pos[a + 1] /\ Len(b \o u) = Len(u) + (pos[a + 1] - pos[a])
  <2> HIDE DEF b
  <2>1. Len(b) + Len(u) <= pos[m] - pos[a]
    BY ONLY <1>4, <1>6
  <2> QED
    BY ONLY <2>1, <1>2, <1>3, <1>4, <1>5, SMTT(30)
<1>8. ASSUME NEW j \in a + 1 .. m - 1, NEW i \in 1 .. Len(Bytes(j + 1)),
             (pos[j] - pos[a + 1]) + i <= Len(u)
      PROVE  u[(pos[j] - pos[a + 1]) + i] = Bytes(j + 1)[i]
  <2> DEFINE x == (pos[j] - pos[a]) + i
             y == (pos[j] - pos[a + 1]) + i
  <2>1. j \in a .. m - 1
    BY <1>1
  <2>2. pos[j] \in Nat /\ Len(Bytes(j + 1)) \in Nat /\ pos[a + 1] <= pos[j]
    BY <1>1, Places
  <2>3. i \in Nat /\ i > 0
    BY <2>2
  <2>4. y \in Nat /\ y > 0 /\ x = Len(b) + y
    <3>1. /\ pos[a] \in Nat /\ pos[a + 1] \in Nat /\ Len(b) \in Nat /\ pos[j] \in Nat /\ i \in Nat
          /\ pos[a + 1] = pos[a] + Len(b) /\ pos[a + 1] <= pos[j] /\ i > 0
      BY <1>2, <1>3, <2>2, <2>3
    <3>2. /\ (pos[j] - pos[a + 1]) + i \in Nat /\ (pos[j] - pos[a + 1]) + i > 0
          /\ (pos[j] - pos[a]) + i = Len(b) + ((pos[j] - pos[a + 1]) + i)
      <4>1. PICK w \in Nat, v \in Nat, n \in Nat, z \in Nat :
              w = pos[a] /\ v = pos[a + 1] /\ n = Len(b) /\ z = pos[j]
        BY <3>1
      <4>2. v = w + n /\ v <= z /\ i > 0 /\ i \in Nat
        BY <3>1, <4>1
      <4>3. /\ (z - v) + i \in Nat /\ (z - v) + i > 0
            /\ (z - w) + i = n + ((z - v) + i)
        BY ONLY SMTT(30), <4>2
      <4> QED
        BY <4>1, <4>3
    <3> QED
      BY <3>2
  <2> HIDE DEF x, y, b
  <2>5. y <= Len(u)
    BY <1>8 DEF y
  <2>6. x \in 1 .. Len(b) + Len(u) /\ ~(x <= Len(b)) /\ x - Len(b) = y /\ x <= Len(b \o u)
    BY ONLY <1>2, <1>4, <1>5, <2>4, <2>5
  <2>7. (b \o u)[x] = u[y]
    BY ONLY <1>4, <2>6
  <2>8. (b \o u)[x] = Bytes(j + 1)[i]
    BY <2>1, <2>6 DEF Begins, b, x
  <2> QED
    BY <2>7, <2>8 DEF y
<1> QED
  BY <1>1, <1>7, <1>8 DEF Begins

(* What the parser holds of the bytes that come: nothing, a reply that is   *)
(* all there and what follows it, or the first bytes of one.                *)
Headed(p, t, pos, a, m) ==
  \/ p = <<>>
  \/ /\ a < m
     /\ \E rest \in Seq(Byte) :
          /\ p = Bytes(a + 1) \o rest
          /\ Begins(rest \o t, pos, a + 1, m)
          /\ Len(p \o t) = Len(rest \o t) + (pos[a + 1] - pos[a])
  \/ a < m /\ \E n \in 1 .. Len(Bytes(a + 1)) - 1 : p = SubSeq(Bytes(a + 1), 1, n)

LEMMA ParserHead ==
  ASSUME NEW lo \in Nat, NEW m \in 0 .. MaxCommands, NEW pos, Laid(pos, lo, m), NEW a \in lo .. m,
         NEW p \in Seq(Byte), NEW t \in Seq(Byte), Begins(p \o t, pos, a, m)
  PROVE  Headed(p, t, pos, a, m)
<1> USE DEF Headed
<1>1. Begins(p, pos, a, m)
  BY BeginsPrefix
<1>2. CASE a = m
  BY <1>1, <1>2, BeginsNone
<1>3. CASE a # m
  <2> DEFINE b == Bytes(a + 1)
  <2>1. m \in Nat /\ a \in Nat /\ a < m /\ a \in a .. m - 1 /\ a + 1 \in 1 .. MaxCommands
    BY <1>3, ClientAssumption
  <2>2. b \in Seq(Byte) /\ Len(b) \in Nat
    BY <2>1, ReplyBytes
  <2>3. Len(p) \in Nat
    BY LenProperties
  <2>4. ASSUME NEW i \in 1 .. Len(b), i <= Len(p) PROVE p[i] = b[i]
    <3>1. (pos[a] - pos[a]) + i = i
      <4>1. pos[a] \in Nat
        BY Ends
      <4> HIDE DEF b
      <4> QED
        BY ONLY <4>1, <2>2, <2>4
    <3> QED
      BY <3>1, <2>1, <2>4, <1>1 DEF Begins
  <2>5. CASE Len(p) >= Len(b)
    <3> DEFINE q == SubSeq(p, 1, Len(b))
               r == SubSeq(p, Len(b) + 1, Len(p))
    <3>1. Len(b) \in 0 .. Len(p)
      BY <2>2, <2>3, <2>5
    <3>2. /\ q \in Seq(Byte) /\ Len(q) = Len(b) /\ \A i \in 1 .. Len(b) : q[i] = p[i]
          /\ r \in Seq(Byte) /\ q \o r = p
      BY ZenonT(30), <3>1, Cut
    <3>3. q = b
      <4> HIDE DEF q, b
      <4>1. ASSUME NEW i \in 1 .. Len(q) PROVE q[i] = b[i]
        <5>1. i \in 1 .. Len(b) /\ i <= Len(p)
          BY <3>2, <2>2, <2>3, <2>5
        <5> QED
          BY <5>1, <3>2, <2>4
      <4> QED
        BY <4>1, <3>2, <2>2, SeqEqual
    <3> HIDE DEF q, r
    <3>4. p = b \o r
      BY <3>2, <3>3
    <3>5. p \o t = b \o (r \o t)
      <4>1. b \in Seq(Byte) /\ r \in Seq(Byte)
        BY <3>2, <2>2
      <4> HIDE DEF b
      <4> QED
        BY ZenonT(30), <4>1, <3>4, Regroup
    <3>6. r \o t \in Seq(Byte)
      BY <3>2, ConcatProperties
    <3>7. Begins(r \o t, pos, a + 1, m) /\ Len(p \o t) = Len(r \o t) + (pos[a + 1] - pos[a])
      <4>1. Begins(Bytes(a + 1) \o (r \o t), pos, a, m)
        BY <3>5
      <4>2. /\ Begins(r \o t, pos, a + 1, m)
            /\ Len(Bytes(a + 1) \o (r \o t)) = Len(r \o t) + (pos[a + 1] - pos[a])
        <5>1. PICK u \in Seq(Byte) : u = r \o t
          BY <3>6
        <5>2. Begins(Bytes(a + 1) \o u, pos, a, m)
          BY <4>1, <5>1
        <5>3. Begins(u, pos, a + 1, m) /\ Len(Bytes(a + 1) \o u) = Len(u) + (pos[a + 1] - pos[a])
          BY <5>2, <2>1, BeginsDrop
        <5> QED
          BY <5>1, <5>3
      <4> QED
        BY <4>2, <3>5
    <3> QED
      BY <3>2, <3>4, <3>7, <2>1
  <2>6. CASE ~(Len(p) >= Len(b))
    <3>1. Len(p) \in 0 .. Len(b)
      BY <2>2, <2>3, <2>6
    <3> DEFINE q == SubSeq(b, 1, Len(p))
    <3>2. q \in Seq(Byte) /\ Len(q) = Len(p) /\ \A i \in 1 .. Len(p) : q[i] = b[i]
      BY <3>1, <2>2, Cut
    <3> HIDE DEF q
    <3>3. p = q
      <4>1. ASSUME NEW i \in 1 .. Len(p) PROVE p[i] = q[i]
        <5>1. i \in 1 .. Len(b) /\ i <= Len(p)
          BY <2>2, <2>3, <2>6
        <5> QED
          BY <5>1, <3>2, <2>4
      <4> QED
        BY <4>1, <3>2, SeqEqual
    <3>4. CASE Len(p) = 0
      BY <3>4, EmptySeq
    <3>5. CASE Len(p) # 0
      <4>1. Len(p) \in 1 .. Len(b) - 1
        BY <3>5, <2>2, <2>3, <2>6
      <4> QED
        BY <4>1, <3>3, <2>1 DEF q
    <3> QED
      BY <3>4, <3>5
  <2> QED
    BY <2>5, <2>6
<1> QED
  BY <1>2, <1>3

(* One reply more. *)
More(pos, lo, m) == [j \in lo .. m + 1 |-> IF j <= m THEN pos[j] ELSE pos[m] + Len(Bytes(m + 1))]

LEMMA LaidMore ==
  ASSUME NEW lo \in Nat, NEW m \in 0 .. MaxCommands - 1, lo <= m, NEW pos, Laid(pos, lo, m)
  PROVE  Laid(More(pos, lo, m), lo, m + 1)
<1> DEFINE q == More(pos, lo, m)
           b == Len(Bytes(m + 1))
<1>1. m \in Nat /\ m + 1 \in 1 .. MaxCommands /\ m \in lo .. m /\ m + 1 \in lo .. m + 1
  BY ClientAssumption
<1>2. b \in Nat
  BY <1>1, ReplyBytes
<1>3. /\ \A j \in lo .. m : pos[j] \in Nat /\ q[j] = pos[j] /\ pos[j] <= pos[m]
      /\ q[m + 1] = pos[m] + b
  BY <1>1 DEF Laid, More
<1>4. q \in [lo .. m + 1 -> Nat]
  <2>1. ASSUME NEW j \in lo .. m + 1
        PROVE  (IF j <= m THEN pos[j] ELSE pos[m] + b) \in Nat
    BY <1>1, <1>2, <1>3
  <2> QED
    BY <2>1 DEF More
<1>5. ASSUME NEW j \in lo .. (m + 1) - 1
      PROVE  q[j + 1] = q[j] + Len(Bytes(j + 1))
  <2>1. CASE j = m
    BY <2>1, <1>1, <1>3
  <2>2. CASE j # m
    <3>1. j \in lo .. m - 1 /\ j \in lo .. m /\ j + 1 \in lo .. m
      BY <2>2, <1>1
    <3> HIDE DEF q
    <3> QED
      BY <3>1, <1>3 DEF Laid
  <2> QED
    BY <2>1, <2>2
<1>6. ASSUME NEW i \in lo .. m + 1, NEW j \in lo .. m + 1, i <= j
      PROVE  q[i] <= q[j]
  <2>1. CASE j \in lo .. m
    <3>1. i \in lo .. m
      BY <2>1, <1>1, <1>6
    <3> HIDE DEF q
    <3> QED
      BY <3>1, <2>1, <1>3, <1>6 DEF Laid
  <2>2. CASE j = m + 1
    <3>1. i \in lo .. m \/ i = m + 1
      BY <1>1
    <3> HIDE DEF q, b
    <3> QED
      BY <3>1, <2>2, <1>1, <1>2, <1>3
  <2> QED
    BY <2>1, <2>2, <1>1
<1> HIDE DEF q
<1>7. Laid(q, lo, m + 1)
  BY <1>4, <1>5, <1>6 DEF Laid
<1> QED
  BY <1>7 DEF q

LEMMA BeginsMore ==
  ASSUME NEW lo \in Nat, NEW m \in 0 .. MaxCommands - 1, NEW pos, Laid(pos, lo, m), NEW a \in lo .. m,
         NEW s, Begins(s, pos, a, m), Len(s) = pos[m] - pos[a]
  PROVE  /\ Begins(s \o Bytes(m + 1), More(pos, lo, m), a, m + 1)
         /\ Len(s \o Bytes(m + 1)) = More(pos, lo, m)[m + 1] - More(pos, lo, m)[a]
<1> DEFINE q == More(pos, lo, m)
           b == Bytes(m + 1)
<1>1. /\ m \in Nat /\ a \in Nat /\ a \in lo .. m + 1 /\ m \in lo .. m + 1 /\ m + 1 \in lo .. m + 1
      /\ m + 1 \in 1 .. MaxCommands /\ m \in 0 .. MaxCommands
  BY ClientAssumption
<1>2. b \in Seq(Byte) /\ Len(b) \in Nat
  BY <1>1, ReplyBytes
<1>3. s \in Seq(Byte) /\ Len(s) \in Nat /\ pos[m] \in Nat /\ pos[a] \in Nat
  BY <1>1, Ends, LenProperties DEF Begins
<1>4. /\ s \o b \in Seq(Byte) /\ Len(s \o b) = Len(s) + Len(b)
      /\ \A i \in 1 .. Len(s) + Len(b) :
           (s \o b)[i] = IF i <= Len(s) THEN s[i] ELSE b[i - Len(s)]
  BY <1>2, <1>3, ConcatProperties
<1>5. /\ \A j \in lo .. m : q[j] = pos[j]
      /\ q[m + 1] = pos[m] + Len(b)
  BY <1>1 DEF More
<1>6. ASSUME NEW j \in a .. (m + 1) - 1, NEW i \in 1 .. Len(Bytes(j + 1))
      PROVE  (s \o b)[(q[j] - q[a]) + i] = Bytes(j + 1)[i]
  <2>1. j \in lo .. m /\ q[j] = pos[j] /\ q[a] = pos[a]
    BY <1>1, <1>5
  <2>2. CASE j = m
    <3>1. (pos[m] - pos[a]) + i = Len(s) + i /\ i \in 1 .. Len(b) /\ i \in Nat
      BY <2>2, <1>2, <1>3
    <3>2. (s \o b)[Len(s) + i] = b[i]
      <4> HIDE DEF b
      <4>0. Len(s) \in Nat /\ Len(b) \in Nat /\ i \in 1 .. Len(b)
        BY <3>1, <1>2, <1>3
      <4>1. /\ Len(s) + i \in 1 .. Len(s) + Len(b) /\ ~(Len(s) + i <= Len(s))
            /\ (Len(s) + i) - Len(s) = i
        BY ONLY <4>0
      <4> QED
        BY ONLY <4>1, <1>4
    <3> QED
      BY <3>1, <3>2, <2>1, <2>2
  <2>3. CASE j # m
    <3> DEFINE x == (pos[j] - pos[a]) + i
    <3>1. j \in a .. m - 1 /\ i \in 1 .. Len(Bytes(j + 1))
      BY <2>3, <1>1
    <3>2. /\ pos[j] \in Nat /\ pos[j + 1] = pos[j] + Len(Bytes(j + 1)) /\ pos[j + 1] \in Nat
          /\ pos[j + 1] <= pos[m] /\ pos[a] <= pos[j] /\ Len(Bytes(j + 1)) \in Nat
      <4>1. /\ lo \in Nat /\ m \in 0 .. MaxCommands /\ a \in lo .. m /\ j \in a .. m - 1
            /\ Laid(pos, lo, m)
        BY <1>1, <3>1
      <4> QED
        BY ONLY <4>1, Places
    <3>3. x \in 1 .. Len(s) /\ x <= Len(s)
      <4>1. i \in Nat /\ i > 0 /\ pos[j] + i <= pos[j + 1]
        BY <3>1, <3>2
      <4>2. (pos[j] - pos[a]) + i \in 1 .. pos[m] - pos[a]
        <5>1. /\ pos[a] \in Nat /\ pos[m] \in Nat /\ pos[j] \in Nat /\ pos[j + 1] \in Nat /\ i \in Nat
              /\ pos[a] <= pos[j] /\ i > 0 /\ pos[j] + i <= pos[j + 1] /\ pos[j + 1] <= pos[m]
          BY <4>1, <3>2, <1>3
        <5> QED
          BY ONLY <5>1, Within
      <4>3. x \in 1 .. Len(s)
        BY <4>2
      <4> QED
        BY ONLY <4>3, <1>3
    <3>4. s[x] = Bytes(j + 1)[i]
      BY <3>1, <3>3 DEF Begins
    <3>5. (s \o b)[x] = s[x]
      <4> HIDE DEF b, x
      <4> QED
        BY ONLY <3>3, <1>2, <1>3, <1>4
    <3> QED
      BY <3>4, <3>5, <2>1
  <2> QED
    BY <2>2, <2>3
<1>7. Len(s \o b) = q[m + 1] - q[a]
  BY <1>1, <1>2, <1>3, <1>4, <1>5
<1>8. Len(s \o b) <= q[m + 1] - q[a]
  <2>1. Len(s \o b) \in Nat
    BY <1>4, LenProperties
  <2> QED
    BY ONLY <2>1, <1>7
<1> HIDE DEF q, b
<1> QED
  BY <1>4, <1>6, <1>7, <1>8 DEF Begins, b, q

(* What send_command makes of a buffer: the reply that is all there, or     *)
(* nothing.                                                                 *)
LEMMA Parsed ==
  ASSUME RepliesFramed(Seq(Byte)),
         NEW lo \in Nat, NEW m \in 0 .. MaxCommands, NEW pos, Laid(pos, lo, m), NEW a \in lo .. m,
         NEW p \in Seq(Byte), NEW t \in Seq(Byte), Begins(p \o t, pos, a, m)
  PROVE  \/ /\ a < m /\ has_message(p) /\ Answer(p) = Reply(a + 1) /\ Rest(p) \in Seq(Byte)
            /\ Begins(Rest(p) \o t, pos, a + 1, m)
            /\ Len(p \o t) = Len(Rest(p) \o t) + (pos[a + 1] - pos[a])
         \/ ~has_message(p) /\ Answer(p) = NoReply /\ Rest(p) = p
         \/ has_message(p) /\ parse_message(p).msg = NullPtr
<1>1. CASE p = <<>>
  BY <1>1 DEF RepliesFramed, Answer, Rest
<1>2. ASSUME a < m, NEW rest \in Seq(Byte), p = Bytes(a + 1) \o rest,
             Begins(rest \o t, pos, a + 1, m),
             Len(p \o t) = Len(rest \o t) + (pos[a + 1] - pos[a])
      PROVE  /\ a < m /\ has_message(p) /\ Answer(p) = Reply(a + 1) /\ Rest(p) \in Seq(Byte)
             /\ Begins(Rest(p) \o t, pos, a + 1, m)
             /\ Len(p \o t) = Len(Rest(p) \o t) + (pos[a + 1] - pos[a])
  <2>1. a + 1 \in 1 .. MaxCommands
    BY <1>2, ClientAssumption
  <2>2. has_message(p) /\ parse_message(p) = [msg |-> Reply(a + 1), rest |-> rest]
    <3>1. Framed(Reply(a + 1), rest)
      BY <2>1 DEF RepliesFramed
    <3> QED
      BY <1>2, <3>1, Zenon DEF Framed, Bytes
  <2>3. Reply(a + 1) # NullPtr
    BY <2>1, ClientAssumption
  <2>4. Answer(p) = Reply(a + 1) /\ Rest(p) = rest
    BY <2>2, <2>3 DEF Answer, Rest
  <2> QED
    BY <1>2, <2>2, <2>4
<1>3. ASSUME a < m, NEW n \in 1 .. Len(Bytes(a + 1)) - 1, p = SubSeq(Bytes(a + 1), 1, n)
      PROVE  \/ ~has_message(p) /\ Answer(p) = NoReply /\ Rest(p) = p
             \/ has_message(p) /\ parse_message(p).msg = NullPtr
  <2>1. a + 1 \in 1 .. MaxCommands
    BY <1>3, ClientAssumption
  <2>2. Awaited(Reply(a + 1), n) \/ Torn(Reply(a + 1), n)
    BY <2>1 DEF RepliesFramed, Bytes
  <2>3. CASE Awaited(Reply(a + 1), n)
    <3>1. ~has_message(p) /\ parse_message(p) = [msg |-> NullPtr, rest |-> p]
      BY <1>3, <2>3, Zenon DEF Awaited, Bytes
    <3>2. Answer(p) = NoReply /\ Rest(p) = p
      BY <3>1 DEF Answer, Rest
    <3> QED
      BY <3>1, <3>2
  <2>4. CASE Torn(Reply(a + 1), n)
    BY <1>3, <2>4, Zenon DEF Torn, Bytes
  <2> QED
    BY <2>2, <2>3, <2>4
<1>4. Headed(p, t, pos, a, m)
  BY ParserHead
<1> QED
  BY <1>1, <1>2, <1>3, <1>4 DEF Headed
-----------------------------------------------------------------------------
(* What has come or comes on this connection. *)
Coming == parser \o (wire \o pending)

Waiting == pc \in {"receive", "loop"}

Busy == IF Waiting THEN 1 ELSE 0

Possible == {NoReply} \cup {Reply(k) : k \in 1 .. MaxCommands}

(* These and what follows are facts about a parser that has its place.      *)
Typed ==
  /\ parser \in Seq(Byte) /\ wire \in Seq(Byte) /\ pending \in Seq(Byte)
  /\ results \in Seq(Possible) /\ Len(results) <= MaxCommands
  /\ pc = "send" \/ Waiting => connected /\ Len(results) < MaxCommands

InTime == ~late => Paired

(* lo is the number of commands before the connection, a the reply last     *)
(* returned on it and m the last one it owes.                               *)
Placed(lo, a, m, pos) ==
  lo \in Nat /\ m \in 0 .. MaxCommands /\ a \in lo .. m /\ Laid(pos, lo, m)

(* The bytes that come are the replies a + 1 .. m, or a beginning of them   *)
(* when no more come.                                                       *)
Owed(a, m, pos) ==
  /\ Begins(Coming, pos, a, m)
  /\ peer = "open" => Len(Coming) = pos[m] - pos[a]

(* The peer owes a reply to each command sent; without a timeout, nothing   *)
(* but the command in hand is unanswered.                                   *)
InTurn(a, m) ==
  /\ m <= Len(results) + Busy
  /\ peer = "open" /\ connected => m = Len(results) + Busy
  /\ ~late /\ connected => a = Len(results)

(* No reply after a has been returned, and none before its command.         *)
UpTo(a) ==
  \A k \in 1 .. Len(results) :
    results[k] = NoReply \/ \E j \in 1 .. k : j <= a /\ results[k] = Reply(j)

Kept ==
  /\ \E lo, a, m, pos : Placed(lo, a, m, pos) /\ Owed(a, m, pos) /\ InTurn(a, m) /\ UpTo(a)
  /\ Once /\ InTime

LEMMA InitKept == Init => Typed /\ Kept
<1> SUFFICES ASSUME Init PROVE Typed /\ Kept
  OBVIOUS
<1> USE DEF Init, Waiting
<1> DEFINE pos == [j \in 0 .. 0 |-> 0]
<1>1. <<>> \in Seq(Byte) /\ <<>> \in Seq(Possible) /\ Len(<<>>) = 0 /\ 0 .. 0 = {0} /\ 1 .. 0 = {}
  BY EmptySeq
<1>2. Typed
  BY <1>1, ClientAssumption DEF Typed
<1>3. Placed(0, 0, 0, pos)
  <2>1. Laid(pos, 0, 0)
    BY <1>1 DEF Laid
  <2> QED
    BY <2>1, ClientAssumption DEF Placed
<1>4. Coming = <<>>
  BY <1>1, ConcatEmptySeq DEF Coming
<1>5. Owed(0, 0, pos)
  <2>1. Begins(<<>>, pos, 0, 0)
    BY <1>3, BeginsNone DEF Placed
  <2> QED
    BY <1>4, <2>1 DEF Owed
<1>6. InTurn(0, 0) /\ UpTo(0)
  BY <1>1 DEF InTurn, Busy, UpTo
<1>7. DOMAIN results = {}
  BY <1>1, LenProperties
<1>8. Once /\ InTime
  BY <1>7 DEF Once, InTime, Paired
<1> QED
  BY <1>2, <1>3, <1>5, <1>6, <1>8 DEF Kept

(* A command returns: an error of the library, or the next reply. *)
LEMMA Returned ==
  ASSUME Typed, NEW a \in Nat, UpTo(a), Once, Len(results) < MaxCommands,
         NEW r, NEW b \in Nat, results' = Append(results, r),
         \/ r = NoReply /\ b = a
         \/ b = a + 1 /\ b <= Len(results) + 1 /\ r = Reply(b)
  PROVE  /\ results' \in Seq(Possible) /\ Len(results') = Len(results) + 1
         /\ Len(results') <= MaxCommands
         /\ UpTo(b)' /\ Once'
         /\ Paired /\ r \in {NoReply, Reply(Len(results) + 1)} => Paired'
<1>1. PICK n \in Nat : n = Len(results)
  BY LenProperties DEF Typed
<1>2. MaxCommands \in Nat /\ n < MaxCommands /\ n + 1 \in 1 .. MaxCommands /\ a <= b
  BY <1>1, ClientAssumption
<1>3. r \in Possible
  <2>1. CASE r = NoReply
    BY <2>1 DEF Possible
  <2>2. CASE b = a + 1 /\ b <= Len(results) + 1 /\ r = Reply(b)
    <3>1. b \in 1 .. MaxCommands
      BY <2>2, <1>1, <1>2
    <3> QED
      BY <3>1, <2>2 DEF Possible
  <2> QED
    BY <2>1, <2>2
<1>4. /\ results' \in Seq(Possible) /\ Len(results') = n + 1
      /\ \A i \in 1 .. n : results'[i] = results[i]
      /\ results'[n + 1] = r
  BY <1>1, <1>3, AppendProperties DEF Typed
<1>5. DOMAIN results = 1 .. n /\ DOMAIN results' = 1 .. n + 1
  BY <1>1, <1>4, LenProperties DEF Typed
<1>6. \A k \in 1 .. n + 1 : k \in 1 .. n \/ k = n + 1
  BY <1>1
<1>7. UpTo(b)'
  <2>1. ASSUME NEW k \in 1 .. n + 1
        PROVE  results'[k] = NoReply \/ \E j \in 1 .. k : j <= b /\ results'[k] = Reply(j)
    <3>1. CASE k \in 1 .. n
      <4>1. results[k] = NoReply \/ \E j \in 1 .. k : j <= a /\ results[k] = Reply(j)
        BY <3>1, <1>1 DEF UpTo
      <4>2. CASE results[k] = NoReply
        BY <4>2, <3>1, <1>4
      <4>3. ASSUME NEW j \in 1 .. k, j <= a, results[k] = Reply(j)
            PROVE  j <= b /\ results'[k] = Reply(j)
        <5>1. k \in Nat /\ j \in Nat
          BY <1>1
        <5> QED
          BY <5>1, <4>3, <3>1, <1>2, <1>4
      <4> QED
        BY <4>1, <4>2, <4>3
    <3>2. CASE k = n + 1
      <4>1. CASE r = NoReply
        BY <4>1, <3>2, <1>4
      <4>2. CASE b = a + 1 /\ b <= Len(results) + 1 /\ r = Reply(b)
        <5>1. b \in 1 .. k
          BY <4>2, <3>2, <1>1
        <5>2. b <= b
          OBVIOUS
        <5> QED
          BY <5>1, <5>2, <4>2, <3>2, <1>4
      <4> QED
        BY <4>1, <4>2
    <3> QED
      BY <3>1, <3>2, <1>6
  <2> QED
    BY <2>1, <1>4 DEF UpTo
<1>8. Once'
  <2>1. ASSUME NEW k \in 1 .. n + 1, results'[k] # NoReply
        PROVE  \E j \in 1 .. k : /\ results'[k] = Reply(j)
                                 /\ \A i \in 1 .. k - 1 : results'[i] # Reply(j)
    <3>1. CASE k \in 1 .. n
      <4>1. PICK j \in 1 .. k : /\ results[k] = Reply(j)
                                /\ \A i \in 1 .. k - 1 : results[i] # Reply(j)
        BY <2>1, <3>1, <1>4, <1>5 DEF Once
      <4>2. \A i \in 1 .. k - 1 : i \in 1 .. n
        BY <3>1
      <4> QED
        BY <4>1, <4>2, <3>1, <1>4
    <3>2. CASE k = n + 1
      <4>1. b = a + 1 /\ b <= n + 1 /\ r = Reply(b)
        BY <2>1, <3>2, <1>1, <1>4
      <4>2. b \in 1 .. k /\ b \in 1 .. MaxCommands
        BY <4>1, <3>2, <1>2
      <4>3. ASSUME NEW i \in 1 .. k - 1 PROVE results'[i] # Reply(b)
        <5>1. i \in 1 .. n /\ i \in Nat
          BY <3>2
        <5>2. results'[i] = results[i]
          BY <5>1, <1>4
        <5>3. CASE results[i] = NoReply
          <6>1. Reply(b) # NoReply
            BY <4>2, ClientAssumption
          <6> QED
            BY <6>1, <5>2, <5>3
        <5>4. ASSUME NEW j \in 1 .. i, j <= a, results[i] = Reply(j) PROVE results'[i] # Reply(b)
          <6>1. j \in 1 .. MaxCommands /\ j # b
            BY <5>1, <5>4, <4>1, <1>2
          <6>2. Reply(j) # Reply(b)
            BY <6>1, <4>2, ClientAssumption
          <6> QED
            BY <6>2, <5>2, <5>4
        <5> QED
          BY <5>1, <5>3, <5>4, <1>1 DEF UpTo
      <4> QED
        BY <4>1, <4>2, <4>3, <3>2, <1>4
    <3> QED
      BY <3>1, <3>2, <1>6
  <2> QED
    BY <2>1, <1>5 DEF Once
<1>9. ASSUME Paired, r \in {NoReply, Reply(Len(results) + 1)} PROVE Paired'
  <2>1. ASSUME NEW k \in 1 .. n + 1 PROVE results'[k] \in {NoReply, Reply(k)}
    <3>1. CASE k \in 1 .. n
      BY <3>1, <1>4, <1>5, <1>9 DEF Paired
    <3>2. CASE k = n + 1
      BY <3>2, <1>1, <1>4, <1>9
    <3> QED
      BY <3>1, <3>2, <1>6
  <2> QED
    BY <2>1, <1>5 DEF Paired
<1>10. Len(results') <= MaxCommands /\ Len(results') = Len(results) + 1
  BY <1>1, <1>2, <1>4
<1> QED
  BY <1>4, <1>7, <1>8, <1>9, <1>10

(* Nothing returns and no bytes are added or lost. *)
LEMMA KeptBytes ==
  ASSUME Typed, Kept, Coming' = Coming, Busy' = Busy,
         UNCHANGED <<connected, peer, results, late>>
  PROVE  Kept'
<1>1. Once' /\ InTime'
  BY DEF Kept, Once, InTime, Paired
<1>2. PICK lo, a, m, pos : Placed(lo, a, m, pos) /\ Owed(a, m, pos) /\ InTurn(a, m) /\ UpTo(a)
  BY DEF Kept
<1>3. Owed(a, m, pos)' /\ InTurn(a, m)' /\ UpTo(a)'
  BY <1>2 DEF Owed, InTurn, UpTo
<1> QED
  BY <1>1, <1>2, <1>3 DEF Kept

(* Nothing more comes after the bytes that have come: the peer has closed   *)
(* or the socket is gone.                                                   *)
LEMMA OwedEnd ==
  ASSUME Typed, NEW lo, NEW a, NEW m, NEW pos, Placed(lo, a, m, pos), Owed(a, m, pos),
         UNCHANGED parser, peer' # "open", pending' = <<>>,
         wire' = wire \/ wire' = <<>>
  PROVE  Owed(a, m, pos)'
<1>1. Begins(parser \o (wire \o pending), pos, a, m)
  BY DEF Owed, Coming
<1>2. parser \in Seq(Byte) /\ wire \in Seq(Byte) /\ pending \in Seq(Byte)
  BY DEF Typed
<1>3. wire \o pending \in Seq(Byte) /\ parser \o wire \in Seq(Byte)
  BY <1>2, ConcatProperties
<1>4. Begins(parser, pos, a, m)
  BY <1>1, <1>2, <1>3, BeginsPrefix DEF Placed
<1>5. Begins(parser \o wire, pos, a, m)
  <2>1. (parser \o wire) \o pending = parser \o (wire \o pending)
    BY <1>2, Regroup
  <2>2. Begins((parser \o wire) \o pending, pos, a, m)
    BY <1>1, <2>1
  <2> QED
    BY <1>2, <1>3, <2>2, BeginsPrefix DEF Placed
<1>6. <<>> \in Seq(Byte)
  BY EmptySeq
<1>7. Coming' = parser \o wire \/ Coming' = parser
  <2>1. wire \o <<>> = wire /\ <<>> \o <<>> = <<>> /\ parser \o <<>> = parser
    BY <1>2, <1>6, ConcatEmptySeq
  <2> QED
    BY <2>1 DEF Coming
<1>8. Begins(Coming', pos, a, m)
  BY <1>4, <1>5, <1>7
<1> QED
  BY <1>8 DEF Owed

(* A connection is made, or tried and given up, with an empty parser. *)
LEMMA KeptConnect ==
  ASSUME Typed, Kept, connect, ~astray'
  PROVE  Typed' /\ Kept'
<1>1. pc = "idle" /\ pc' = "idle" /\ ~Waiting /\ ~Waiting'
  BY DEF connect, Waiting
<1>2. parser = <<>> /\ parser' = <<>> /\ wire' = <<>> /\ pending' = <<>>
  BY DEF connect
<1>3. pc' = pc /\ results' = results /\ late' = late
  BY DEF connect
<1>4. <<>> \in Seq(Byte) /\ Len(<<>>) = 0
  BY EmptySeq
<1>5. Typed'
  BY <1>1, <1>2, <1>3, <1>4 DEF Typed
<1>6. PICK n \in Nat : n = Len(results)
  BY LenProperties DEF Typed
<1>7. n \in 0 .. MaxCommands /\ n .. n = {n} /\ n .. n - 1 = {}
  BY <1>6, ClientAssumption DEF Typed
<1> DEFINE pos == [j \in n .. n |-> 0]
<1>8. Placed(n, n, n, pos) /\ pos[n] = 0
  <2>1. Laid(pos, n, n)
    BY <1>7 DEF Laid
  <2> QED
    BY <2>1, <1>7 DEF Placed
<1> HIDE DEF pos
<1>9. Owed(n, n, pos)'
  <2>1. Coming' = <<>>
    BY <1>2, <1>4, ConcatEmptySeq DEF Coming
  <2>2. Begins(<<>>, pos, n, n)
    BY <1>8, BeginsNone DEF Placed
  <2>3. Len(<<>>) = pos[n] - pos[n]
    BY <1>4, <1>8
  <2> QED
    BY <2>1, <2>2, <2>3 DEF Owed
<1>10. InTurn(n, n)'
  BY <1>1, <1>3, <1>6 DEF InTurn, Busy
<1>11. UpTo(n)'
  <2>1. PICK lo, a, m, pos0 : Placed(lo, a, m, pos0) /\ InTurn(a, m) /\ UpTo(a)
    BY DEF Kept
  <2>2. a <= n /\ a \in Nat
    BY <2>1, <1>1, <1>6, ClientAssumption DEF Placed, InTurn, Busy
  <2>3. ASSUME NEW k \in 1 .. n
        PROVE  results[k] = NoReply \/ \E j \in 1 .. k : j <= n /\ results[k] = Reply(j)
    <3>1. ASSUME NEW j \in 1 .. k, j <= a PROVE j <= n
      BY <3>1, <2>2
    <3> QED
      BY <3>1, <2>1, <1>6 DEF UpTo
  <2> QED
    BY <2>3, <1>3, <1>6 DEF UpTo
<1>12. Once' /\ InTime'
  BY <1>3 DEF Kept, Once, InTime, Paired
<1> QED
  BY <1>5, <1>8, <1>9, <1>10, <1>11, <1>12 DEF Kept

LEMMA KeptDisconnect ==
  ASSUME Typed, Kept, disconnect
  PROVE  Typed' /\ Kept'
<1>1. /\ pc' = pc /\ pc = "idle" /\ parser' = parser /\ results' = results /\ late' = late
      /\ wire' = <<>> /\ pending' = <<>> /\ peer' = "none" /\ ~connected'
      /\ ~Waiting /\ ~Waiting'
  BY DEF disconnect, Dropped, Waiting
<1>2. <<>> \in Seq(Byte)
  BY EmptySeq
<1>3. Typed'
  BY <1>1, <1>2 DEF Typed
<1>4. PICK lo, a, m, pos : Placed(lo, a, m, pos) /\ Owed(a, m, pos) /\ InTurn(a, m) /\ UpTo(a)
  BY DEF Kept
<1>5. Owed(a, m, pos)'
  BY <1>1, <1>4, OwedEnd
<1>6. InTurn(a, m)' /\ UpTo(a)'
  BY <1>1, <1>4 DEF InTurn, Busy, UpTo
<1>7. Once' /\ InTime'
  BY <1>1 DEF Kept, Once, InTime, Paired
<1> QED
  BY <1>3, <1>4, <1>5, <1>6, <1>7 DEF Kept

(* A command returns the library's own error: the bytes stay, or are cut    *)
(* off with the connection; only a timeout leaves a reply owed.             *)
LEMMA KeptError ==
  ASSUME Typed, Kept, Returns(NoReply), Len(results) < MaxCommands,
         UNCHANGED parser,
         \/ /\ UNCHANGED <<connected, peer, wire, pending>>
            /\ \/ ~connected /\ ~Waiting /\ UNCHANGED late
               \/ late' = TRUE /\ Waiting
         \/ Dropped /\ UNCHANGED late
  PROVE  Typed' /\ Kept'
<1>1. PICK lo, a, m, pos : Placed(lo, a, m, pos) /\ Owed(a, m, pos) /\ InTurn(a, m) /\ UpTo(a)
  BY DEF Kept
<1>2. a \in Nat /\ lo \in Nat /\ m \in Nat /\ a <= m
  BY <1>1, ClientAssumption DEF Placed
<1>3. results' = Append(results, NoReply) /\ pc' = "idle" /\ ~Waiting'
  BY DEF Returns, Waiting
<1>4. /\ results' \in Seq(Possible) /\ Len(results') = Len(results) + 1 /\ Len(results') <= MaxCommands
      /\ UpTo(a)' /\ Once' /\ (Paired => Paired')
  BY <1>1, <1>2, <1>3, Returned DEF Kept
<1>5. Len(results) \in Nat
  BY LenProperties DEF Typed
<1>6. CASE Dropped /\ UNCHANGED late
  <2>1. wire' = <<>> /\ pending' = <<>> /\ peer' = "none" /\ ~connected' /\ late' = late
    BY <1>6 DEF Dropped
  <2>2. <<>> \in Seq(Byte)
    BY EmptySeq
  <2>3. Typed'
    BY <1>3, <1>4, <2>1, <2>2 DEF Typed
  <2>4. Owed(a, m, pos)'
    BY <1>1, <2>1, OwedEnd
  <2>5. InTurn(a, m)'
    <3>1. m <= Len(results) + 1
      BY <1>1, <1>2, <1>5 DEF InTurn, Busy
    <3> QED
      BY <3>1, <1>2, <1>3, <1>4, <1>5, <2>1 DEF InTurn, Busy
  <2>6. InTime'
    BY <1>4, <2>1 DEF Kept, InTime
  <2> QED
    BY <1>1, <1>4, <2>3, <2>4, <2>5, <2>6 DEF Kept
<1>7. CASE /\ UNCHANGED <<connected, peer, wire, pending>>
           /\ \/ ~connected /\ ~Waiting /\ UNCHANGED late
              \/ late' = TRUE /\ Waiting
  <2>1. connected' = connected /\ peer' = peer /\ wire' = wire /\ pending' = pending
    BY <1>7
  <2>2. Typed'
    BY <1>3, <1>4, <2>1 DEF Typed
  <2>3. Owed(a, m, pos)'
    BY <1>1, <2>1 DEF Owed, Coming
  <2>4. InTurn(a, m)'
    BY <1>1, <1>2, <1>3, <1>4, <1>5, <1>7, <2>1 DEF InTurn, Busy
  <2>5. InTime'
    BY <1>4, <1>7 DEF Kept, InTime
  <2> QED
    BY <1>1, <1>4, <2>2, <2>3, <2>4, <2>5 DEF Kept
<1> QED
  BY <1>6, <1>7

(* A command is sent: an open peer owes its reply. *)
LEMMA KeptSend ==
  ASSUME Typed, Kept, Sent
  PROVE  Typed' /\ Kept'
<1>1. /\ ~Waiting /\ pc' = "receive" /\ Waiting' /\ Len(results) < MaxCommands /\ connected
      /\ connected' = connected /\ peer' = peer /\ wire' = wire /\ parser' = parser
      /\ results' = results /\ late' = late
  BY DEF Sent, Typed, Waiting
<1>2. PICK n \in Nat : n = Len(results)
  BY LenProperties DEF Typed
<1>3. n \in 0 .. MaxCommands - 1 /\ n + 1 \in 1 .. MaxCommands /\ n + 1 \in 0 .. MaxCommands
  BY <1>1, <1>2, ClientAssumption
<1>4. Busy = 0 /\ Busy' = 1
  BY <1>1 DEF Busy
<1>5. Once' /\ InTime'
  BY <1>1 DEF Kept, Once, InTime, Paired
<1>6. PICK lo, a, m, pos : Placed(lo, a, m, pos) /\ Owed(a, m, pos) /\ InTurn(a, m) /\ UpTo(a)
  BY DEF Kept
<1>7. UpTo(a)' /\ m \in Nat /\ a \in Nat /\ lo \in Nat /\ lo <= a /\ a <= m
  BY <1>1, <1>6, ClientAssumption DEF UpTo, Placed
<1>8. parser \in Seq(Byte) /\ wire \in Seq(Byte) /\ pending \in Seq(Byte)
  BY DEF Typed
<1>9. CASE peer # "open"
  <2>1. pending' = pending
    BY <1>9 DEF Sent
  <2>2. Typed'
    BY <1>1, <1>8, <2>1 DEF Typed
  <2>3. Owed(a, m, pos)'
    BY <1>1, <1>6, <2>1 DEF Owed, Coming
  <2>4. InTurn(a, m)'
    BY <1>1, <1>2, <1>4, <1>6, <1>7, <1>9 DEF InTurn
  <2> QED
    BY <1>5, <1>6, <1>7, <2>2, <2>3, <2>4 DEF Kept
<1>10. CASE peer = "open"
  <2> DEFINE b == Bytes(n + 1)
  <2>1. m = n
    BY <1>1, <1>2, <1>4, <1>6, <1>10 DEF InTurn
  <2>2. pending' = pending \o b
    BY <1>2, <1>10 DEF Sent, Bytes
  <2>3. b \in Seq(Byte)
    BY <1>3, ReplyBytes
  <2> HIDE DEF b
  <2>4. wire \o pending \in Seq(Byte) /\ pending \o b \in Seq(Byte)
    BY <1>8, <2>3, ConcatProperties
  <2>5. Typed'
    BY <1>1, <1>8, <2>2, <2>4 DEF Typed
  <2>6. Coming' = Coming \o b
    <3>1. (wire \o pending) \o b = wire \o (pending \o b)
      BY <1>8, <2>3, Regroup, ZenonT(30)
    <3>2. (parser \o (wire \o pending)) \o b = parser \o ((wire \o pending) \o b)
      <4>1. parser \in Seq(Byte) /\ wire \o pending \in Seq(Byte)
        BY <1>8, <2>4
      <4> QED
        BY <4>1, <2>3, Regroup, ZenonT(30)
    <3> QED
      BY <1>1, <2>2, <3>1, <3>2 DEF Coming
  <2>7. Placed(lo, a, n, pos) /\ Begins(Coming, pos, a, n) /\ Len(Coming) = pos[n] - pos[a]
    BY <1>6, <1>10, <2>1 DEF Owed
  <2> DEFINE q == More(pos, lo, n)
  <2>8. Laid(q, lo, n + 1)
    BY <1>3, <1>7, <2>1, <2>7, LaidMore DEF Placed
  <2>9. Begins(Coming \o b, q, a, n + 1) /\ Len(Coming \o b) = q[n + 1] - q[a]
    <3>1. PICK s : s = Coming
      OBVIOUS
    <3>2. Begins(s, pos, a, n) /\ Len(s) = pos[n] - pos[a]
      BY <2>7, <3>1
    <3>3. Begins(s \o Bytes(n + 1), q, a, n + 1) /\ Len(s \o Bytes(n + 1)) = q[n + 1] - q[a]
      BY <1>3, <2>7, <3>2, BeginsMore DEF Placed
    <3> QED
      BY <3>1, <3>3 DEF b
  <2> HIDE DEF q
  <2>10. Owed(a, n + 1, q)'
    BY <2>6, <2>9 DEF Owed
  <2>11. Placed(lo, a, n + 1, q)
    BY <1>3, <1>7, <2>1, <2>8 DEF Placed
  <2>12. InTurn(a, n + 1)'
    BY <1>1, <1>2, <1>4, <1>6 DEF InTurn
  <2> QED
    BY <1>5, <1>7, <2>5, <2>10, <2>11, <2>12 DEF Kept
<1> QED
  BY <1>9, <1>10

(* A command begins, or dies while it is sent. *)
LEMMA KeptElsewhere ==
  ASSUME Typed, Kept, send_command \/ SendKills
  PROVE  Typed' /\ Kept'
<1>1. /\ parser' = parser /\ wire' = wire /\ pending' = pending /\ peer' = peer
      /\ results' = results /\ connected' = connected /\ late' = late
      /\ ~Waiting /\ ~Waiting'
  BY DEF send_command, SendKills, Waiting
<1>2. pc' = "send" => connected /\ Len(results) < MaxCommands
  BY DEF send_command, SendKills
<1>3. Typed'
  BY <1>1, <1>2 DEF Typed
<1>4. Coming' = Coming /\ Busy' = Busy
  BY <1>1 DEF Coming, Busy
<1> QED
  BY <1>1, <1>3, <1>4, KeptBytes

LEMMA KeptReceive ==
  ASSUME Typed, Kept, ReceiveBytes
  PROVE  Typed' /\ Kept'
<1>1. parser \in Seq(Byte) /\ wire \in Seq(Byte) /\ pending \in Seq(Byte)
  BY DEF Typed
<1>2. PICK n \in 1 .. Len(wire) :
        /\ parser' = parser \o SubSeq(wire, 1, n)
        /\ wire' = SubSeq(wire, n + 1, Len(wire))
  BY DEF ReceiveBytes
<1>3. PICK p, r : p = SubSeq(wire, 1, n) /\ r = SubSeq(wire, n + 1, Len(wire))
  OBVIOUS
<1>4. p \in Seq(Byte) /\ r \in Seq(Byte) /\ p \o r = wire
  <2>1. n \in 0 .. Len(wire)
    BY <1>1, LenProperties
  <2> QED
    BY <1>1, <1>3, <2>1, Cut
<1>5. parser' = parser \o p /\ wire' = r
  BY <1>2, <1>3
<1>6. /\ Waiting /\ pc' = "loop" /\ Waiting' /\ connected' = connected /\ peer' = peer
      /\ pending' = pending /\ results' = results /\ late' = late
  BY DEF ReceiveBytes, Receiving, Waiting
<1>7. parser \o p \in Seq(Byte) /\ r \o pending \in Seq(Byte)
  BY <1>1, <1>4, ConcatProperties
<1>8. Typed'
  BY <1>1, <1>4, <1>5, <1>6, <1>7 DEF Typed
<1>9. Coming' = Coming
  <2>1. (parser \o p) \o (r \o pending) = parser \o (p \o (r \o pending))
    <3>1. parser \in Seq(Byte) /\ p \in Seq(Byte) /\ r \o pending \in Seq(Byte)
      BY <1>1, <1>4, <1>7
    <3> QED
      BY <3>1, Regroup
  <2>2. p \o (r \o pending) = (p \o r) \o pending
    <3>1. p \in Seq(Byte) /\ r \in Seq(Byte) /\ pending \in Seq(Byte)
      BY <1>1, <1>4
    <3> QED
      BY <3>1, Regroup, ZenonT(30)
  <2> QED
    BY <1>4, <1>5, <1>6, <2>1, <2>2 DEF Coming
<1>10. Busy' = Busy
  BY <1>6 DEF Busy
<1> QED
  BY <1>6, <1>8, <1>9, <1>10, KeptBytes

LEMMA KeptWrites ==
  ASSUME Typed, Kept, PeerWrites
  PROVE  Typed' /\ Kept'
<1>1. parser \in Seq(Byte) /\ wire \in Seq(Byte) /\ pending \in Seq(Byte)
  BY DEF Typed
<1>2. PICK n \in 1 .. Len(pending) :
        /\ wire' = wire \o SubSeq(pending, 1, n)
        /\ pending' = SubSeq(pending, n + 1, Len(pending))
  BY DEF PeerWrites
<1>3. PICK p, r : p = SubSeq(pending, 1, n) /\ r = SubSeq(pending, n + 1, Len(pending))
  OBVIOUS
<1>4. p \in Seq(Byte) /\ r \in Seq(Byte) /\ p \o r = pending
  <2>1. n \in 0 .. Len(pending)
    BY <1>1, LenProperties
  <2> QED
    BY <1>1, <1>3, <2>1, Cut
<1>5. wire' = wire \o p /\ pending' = r
  BY <1>2, <1>3
<1>6. /\ connected' = connected /\ peer' = peer /\ parser' = parser /\ pc' = pc
      /\ results' = results /\ late' = late /\ Waiting' = Waiting
  BY DEF PeerWrites, Waiting
<1>7. wire \o p \in Seq(Byte)
  BY <1>1, <1>4, ConcatProperties
<1>8. Typed'
  BY <1>1, <1>4, <1>5, <1>6, <1>7 DEF Typed
<1>9. Coming' = Coming
  <2>1. (wire \o p) \o r = wire \o (p \o r)
    <3>1. p \in Seq(Byte) /\ r \in Seq(Byte)
      BY <1>4
    <3> QED
      BY ZenonT(30), <3>1, <1>1, Regroup
  <2> QED
    BY <1>4, <1>5, <1>6, <2>1 DEF Coming
<1>10. Busy' = Busy
  BY <1>6 DEF Busy
<1> QED
  BY <1>6, <1>8, <1>9, <1>10, KeptBytes

LEMMA KeptCloses ==
  ASSUME Typed, Kept, PeerCloses
  PROVE  Typed' /\ Kept'
<1>1. /\ connected /\ connected' = connected /\ parser' = parser /\ pc' = pc /\ results' = results
      /\ late' = late /\ wire' = wire /\ pending' = <<>> /\ peer' = "closed"
      /\ Waiting' = Waiting
  BY DEF PeerCloses, Waiting
<1>2. <<>> \in Seq(Byte)
  BY EmptySeq
<1>3. Typed'
  BY <1>1, <1>2 DEF Typed
<1>4. PICK lo, a, m, pos : Placed(lo, a, m, pos) /\ Owed(a, m, pos) /\ InTurn(a, m) /\ UpTo(a)
  BY DEF Kept
<1>5. Owed(a, m, pos)'
  BY <1>1, <1>4, OwedEnd
<1>6. InTurn(a, m)' /\ UpTo(a)'
  BY <1>1, <1>4 DEF InTurn, Busy, UpTo
<1>7. Once' /\ InTime'
  BY <1>1 DEF Kept, Once, InTime, Paired
<1> QED
  BY <1>3, <1>4, <1>5, <1>6, <1>7 DEF Kept

(* A reply is returned to the command in hand. *)
LEMMA KeptParse ==
  ASSUME RepliesFramed(Seq(Byte)), Typed, Kept, ParseReply, ~astray'
  PROVE  Typed' /\ Kept'
<1>1. /\ Waiting /\ pc' = "idle" /\ ~Waiting' /\ has_message(parser)
      /\ parse_message(parser).msg # NullPtr
      /\ results' = Append(results, Answer(parser)) /\ parser' = Rest(parser)
      /\ connected' = connected /\ peer' = peer /\ pending' = pending /\ wire' = wire
      /\ late' = late
  BY DEF ParseReply, Parse, Returns, Waiting
<1>2. connected /\ Len(results) < MaxCommands
  BY <1>1 DEF Typed
<1>3. PICK lo, a, m, pos : Placed(lo, a, m, pos) /\ Owed(a, m, pos) /\ InTurn(a, m) /\ UpTo(a)
  BY DEF Kept
<1>4. /\ lo \in Nat /\ m \in Nat /\ a \in Nat /\ lo <= a /\ a <= m
      /\ m \in 0 .. MaxCommands /\ a \in lo .. m /\ Laid(pos, lo, m)
  BY <1>3, ClientAssumption DEF Placed
<1>5. parser \in Seq(Byte) /\ wire \in Seq(Byte) /\ pending \in Seq(Byte)
  BY DEF Typed
<1>6. PICK p, t : p = parser /\ t = wire \o pending
  OBVIOUS
<1>7. p \in Seq(Byte) /\ t \in Seq(Byte) /\ Begins(p \o t, pos, a, m)
  <2>1. wire \o pending \in Seq(Byte)
    BY <1>5, ConcatProperties
  <2> QED
    BY <2>1, <1>3, <1>5, <1>6 DEF Owed, Coming
<1>8. /\ a < m /\ Answer(p) = Reply(a + 1) /\ Rest(p) \in Seq(Byte)
      /\ Begins(Rest(p) \o t, pos, a + 1, m)
      /\ Len(p \o t) = Len(Rest(p) \o t) + (pos[a + 1] - pos[a])
  <2>1. has_message(p) /\ parse_message(p).msg # NullPtr
    BY <1>1, <1>6
  <2> QED
    BY <2>1, <1>4, <1>7, Parsed
<1>9. PICK n \in Nat : n = Len(results)
  BY LenProperties DEF Typed
<1>10. Busy = 1 /\ Busy' = 0
  BY <1>1 DEF Busy
<1>11. m <= n + 1 /\ a + 1 <= n + 1
  BY <1>3, <1>4, <1>8, <1>9, <1>10 DEF InTurn
<1>12. results' = Append(results, Reply(a + 1))
  BY <1>1, <1>6, <1>8
<1>13. /\ results' \in Seq(Possible) /\ Len(results') = n + 1 /\ Len(results') <= MaxCommands
       /\ UpTo(a + 1)' /\ Once' /\ (Paired /\ a = n => Paired')
  <2>1. PICK b \in Nat : b = a + 1
    BY <1>4
  <2>2. /\ results' \in Seq(Possible) /\ Len(results') = Len(results) + 1
        /\ Len(results') <= MaxCommands
        /\ UpTo(b)' /\ Once'
        /\ Paired /\ Reply(b) \in {NoReply, Reply(Len(results) + 1)} => Paired'
    <3>1. b <= Len(results) + 1 /\ results' = Append(results, Reply(b))
      BY <1>9, <1>11, <1>12, <2>1
    <3> QED
      BY <2>1, <3>1, <1>2, <1>3, <1>4, Returned DEF Kept
  <2> QED
    BY <2>1, <2>2, <1>9
<1>14. Typed'
  BY <1>1, <1>2, <1>5, <1>6, <1>8, <1>13 DEF Typed
<1>15. Placed(lo, a + 1, m, pos)
  BY <1>4, <1>8 DEF Placed
<1>16. Owed(a + 1, m, pos)'
  <2>1. Coming' = Rest(p) \o t
    BY <1>1, <1>6 DEF Coming
  <2>2. ASSUME peer' = "open" PROVE Len(Rest(p) \o t) = pos[m] - pos[a + 1]
    <3>1. Len(p \o t) = pos[m] - pos[a]
      BY <2>2, <1>1, <1>3, <1>6 DEF Owed, Coming
    <3>2. pos[m] \in Nat /\ pos[a] \in Nat /\ pos[a + 1] \in Nat
      BY <1>4, <1>8, Ends, SMTT(30) DEF Laid
    <3>3. Len(Rest(p) \o t) \in Nat
      BY <1>8, LenProperties DEF Begins
    <3> QED
      BY ONLY <3>1, <3>2, <3>3, <1>8
  <2> QED
    BY <2>1, <2>2, <1>8 DEF Owed
<1>17. InTurn(a + 1, m)'
  BY <1>1, <1>2, <1>3, <1>4, <1>9, <1>10, <1>11, <1>13 DEF InTurn
<1>18. InTime'
  BY <1>1, <1>2, <1>3, <1>9, <1>13 DEF Kept, InTime, InTurn
<1> QED
  BY <1>13, <1>14, <1>15, <1>16, <1>17, <1>18 DEF Kept

(* A receive that brings nothing: there is no message to parse. *)
LEMMA NothingParsed ==
  ASSUME RepliesFramed(Seq(Byte)), Typed, Kept, Receiving,
         \/ pc = "receive" /\ NothingRead
         \/ pc = "loop" /\ Parse
  PROVE  Returns(NoReply) /\ UNCHANGED parser
<1>1. CASE pc = "receive" /\ NothingRead
  BY <1>1 DEF NothingRead
<1>2. CASE pc = "loop" /\ Parse
  <2>1. ~has_message(parser)
    BY <1>2 DEF Receiving
  <2>2. PICK lo, a, m, pos : Placed(lo, a, m, pos) /\ Owed(a, m, pos)
    BY DEF Kept
  <2>3. PICK p, t : p = parser /\ t = wire \o pending
    OBVIOUS
  <2>4. p \in Seq(Byte) /\ t \in Seq(Byte) /\ Begins(p \o t, pos, a, m)
    <3>1. wire \o pending \in Seq(Byte)
      BY ConcatProperties DEF Typed
    <3> QED
      BY <3>1, <2>2, <2>3 DEF Typed, Owed, Coming
  <2>5. \/ a < m /\ has_message(p) /\ Answer(p) = Reply(a + 1)
        \/ ~has_message(p) /\ Answer(p) = NoReply /\ Rest(p) = p
        \/ has_message(p)
    BY <2>2, <2>4, Parsed DEF Placed
  <2> QED
    BY <1>2, <2>1, <2>3, <2>5 DEF Parse
<1> QED
  BY <1>1, <1>2

LEMMA NextKept ==
  ASSUME RepliesFramed(Seq(Byte)), Typed, Kept, [Next]_vars, ~astray'
  PROVE  Typed' /\ Kept'
<1>1. CASE UNCHANGED vars
  <2>1. /\ parser' = parser /\ wire' = wire /\ pending' = pending /\ pc' = pc /\ peer' = peer
        /\ results' = results /\ connected' = connected /\ late' = late /\ Waiting' = Waiting
    BY <1>1 DEF vars, Waiting
  <2>2. Typed'
    BY <2>1 DEF Typed
  <2>3. Coming' = Coming /\ Busy' = Busy
    BY <2>1 DEF Coming, Busy
  <2> QED
    BY <2>1, <2>2, <2>3, KeptBytes
<1>2. CASE connect
  BY <1>2, KeptConnect
<1>3. CASE disconnect
  BY <1>3, KeptDisconnect
<1>4. CASE NotConnected
  BY <1>4, KeptError DEF NotConnected, Waiting
<1>5. CASE send_command
  BY <1>5, KeptElsewhere
<1>6. CASE send_raw
  <2>1. CASE Sent
    BY <2>1, KeptSend
  <2>2. CASE SendFails
    BY <2>2, KeptError DEF SendFails, Typed
  <2>3. CASE SendKills
    BY <2>3, KeptElsewhere
  <2> QED
    BY <1>6, <2>1, <2>2, <2>3 DEF send_raw
<1>7. CASE ReceiveBytes
  BY <1>7, KeptReceive
<1>8. CASE ReceiveTimeout
  <2>1. Returns(NoReply) /\ UNCHANGED parser
    BY <1>8, NothingParsed DEF ReceiveTimeout
  <2>2. Waiting /\ Len(results) < MaxCommands
    BY <1>8 DEF ReceiveTimeout, Receiving, Typed, Waiting
  <2> QED
    BY <1>8, <2>1, <2>2, KeptError DEF ReceiveTimeout
<1>9. CASE ReceiveEnd
  <2>1. Returns(NoReply) /\ UNCHANGED parser
    BY <1>9, NothingParsed DEF ReceiveEnd
  <2>2. Waiting /\ Len(results) < MaxCommands
    BY <1>9 DEF ReceiveEnd, Receiving, Typed, Waiting
  <2> QED
    BY <1>9, <2>1, <2>2, KeptError DEF ReceiveEnd
<1>10. CASE ParseReply
  BY <1>10, KeptParse
<1>11. CASE PeerWrites
  BY <1>11, KeptWrites
<1>12. CASE PeerCloses
  BY <1>12, KeptCloses
<1> QED
  BY <1>1, <1>2, <1>3, <1>4, <1>5, <1>6, <1>7, <1>8, <1>9, <1>10, <1>11, <1>12
     DEF Next, ClientStep

(* A parser that has lost its place does not find it again.                 *)
LEMMA AstrayStays == astray /\ [Next]_vars => astray'
<1> SUFFICES ASSUME astray, [Next]_vars PROVE astray'
  OBVIOUS
<1>1. CASE UNCHANGED vars
  BY <1>1 DEF vars
<1>2. CASE connect \/ disconnect \/ NotConnected \/ send_command \/ send_raw
  BY <1>2 DEF connect, disconnect, NotConnected, send_command, send_raw, Sent, SendFails, SendKills
<1>3. CASE ClientStep
  BY <1>3 DEF ClientStep, ReceiveBytes, ReceiveTimeout, ReceiveEnd, ParseReply, Parse, NothingRead
<1>4. CASE PeerWrites \/ PeerCloses
  BY <1>4 DEF PeerWrites, PeerCloses
<1> QED
  BY <1>1, <1>2, <1>3, <1>4 DEF Next

IInv == ~astray => Typed /\ Kept

LEMMA Inductive ==
  ASSUME RepliesFramed(Seq(Byte))
  PROVE  Spec => []IInv
<1>1. Init => IInv
  BY InitKept DEF IInv
<1>2. IInv /\ [Next]_vars => IInv'
  BY NextKept, AstrayStays DEF IInv
<1> QED
  BY <1>1, <1>2, PTL DEF Spec

(* Until a receive times out, a command is answered with its own reply or   *)
(* with an error of the library, for any number of commands and connections *)
(* and any replies, wherever reads cut them and wherever the peer closes,   *)
(* when the protocol frames the replies, as long as the parser has not lost *)
(* its place: no array was torn, and no connect() found bytes in it         *)
(* (RedisClient::send_command, TcpClient::connect).                         *)
THEOREM PairedKept ==
  ASSUME RepliesFramed(Seq(Byte))
  PROVE  Spec => []PairedUntilLate
<1>1. IInv => PairedUntilLate
  BY DEF IInv, Kept, InTime, PairedUntilLate
<1> QED
  BY <1>1, Inductive, PTL

(* Under the same hypotheses, timeouts or not, no reply is returned twice   *)
(* and none before its command (RedisClient::send_command).                 *)
THEOREM ReturnedOnce ==
  ASSUME RepliesFramed(Seq(Byte))
  PROVE  Spec => []NoReplyTwice
<1>1. IInv => NoReplyTwice
  BY DEF IInv, Kept, NoReplyTwice
<1> QED
  BY <1>1, Inductive, PTL
=============================================================================
