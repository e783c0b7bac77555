---------------------------- MODULE ServerProofs ----------------------------
(***************************************************************************)
(* As long as no read cuts a request, Server executes each request once and *)
(* answers a client with the replies to its own requests, behind those to   *)
(* requests that others left in the shared parser: for any clients and      *)
(* requests, any buffer sizes, whoever leaves when and owed how much, and   *)
(* every protocol that frames the requests.                                 *)
(***************************************************************************)
EXTENDS Server, SequenceTheorems, TLAPS

AllRequests == {Request(c, n) : c \in Clients, n \in 1 .. MaxRequests}

(* The bytes of the n-th of some requests. *)
Bytes(rs, n) == serialize(rs[n])

LEMMA RequestBytes ==
  ASSUME NEW rs \in Seq(AllRequests), NEW n \in 1 .. Len(rs)
  PROVE  Bytes(rs, n) \in Seq(Byte) /\ Len(Bytes(rs, n)) \in Nat /\ Len(Bytes(rs, n)) > 0
<1>1. rs[n] \in AllRequests
  BY ElementOfSeq
<1>2. PICK c \in Clients, k \in 1 .. MaxRequests : rs[n] = Request(c, k)
  BY <1>1 DEF AllRequests
<1>3. Bytes(rs, n) \in Seq(Byte) /\ Bytes(rs, n) # <<>>
  BY <1>2, ServerAssumption DEF Bytes
<1> QED
  BY <1>3, EmptySeq

(* Part of a sequence. *)
LEMMA Part ==
  ASSUME NEW S, NEW s \in Seq(S), NEW m \in 1 .. Len(s) + 1, NEW n \in 0 .. Len(s), m <= n + 1
  PROVE  /\ SubSeq(s, m, n) \in Seq(S)
         /\ Len(SubSeq(s, m, n)) = (n - m) + 1
         /\ \A i \in 1 .. (n - m) + 1 : SubSeq(s, m, n)[i] = s[(m + i) - 1]
<1>1. Len(s) \in Nat
  BY LenProperties
<1>2. m \in Int /\ n \in Int
  BY <1>1
<1>3. \A i \in m .. n : s[i] \in S
  BY <1>1, ElementOfSeq
<1>4. /\ SubSeq(s, m, n) \in Seq(S)
      /\ Len(SubSeq(s, m, n)) = IF m <= n THEN n - m + 1 ELSE 0
      /\ \A i \in 1 .. n - m + 1 : SubSeq(s, m, n)[i] = s[m + i - 1]
  BY <1>2, <1>3, SubSeqProperties, SMT
<1> QED
  BY <1>2, <1>4
-----------------------------------------------------------------------------
(* pos tells where each of the first n requests of rs ends, counted in      *)
(* bytes from the first one on.                                             *)
Laid(pos, rs, n) ==
  /\ pos \in [0 .. n -> Nat]
  /\ \A j \in 0 .. n - 1 : pos[j + 1] = pos[j] + Len(Bytes(rs, j + 1))
  /\ \A i, j \in 0 .. n : i <= j => pos[i] <= pos[j]

(* s consists of the requests a + 1 .. m of rs.*)
Holds(s, pos, rs, a, m) ==
  /\ s \in Seq(Byte)
  /\ Len(s) = pos[m] - pos[a]
  /\ \A j \in a .. m - 1 : \A i \in 1 .. Len(Bytes(rs, j + 1)) :
       s[(pos[j] - pos[a]) + i] = Bytes(rs, j + 1)[i]

(* No byte holds no request, and a request has bytes. *)
LEMMA HoldsNone ==
  ASSUME NEW rs \in Seq(AllRequests), NEW n \in 0 .. Len(rs), NEW pos, Laid(pos, rs, n),
         NEW a \in 0 .. n
  PROVE  Holds(<<>>, pos, rs, a, a) /\ \A s : Holds(s, pos, rs, a, a) => s = <<>>
<1>1. <<>> \in Seq(Byte) /\ Len(<<>>) = 0
  BY EmptySeq
<1>2. pos[a] \in Nat
  BY DEF Laid
<1>3. n \in Nat /\ a \in Nat /\ a .. a - 1 = {}
  BY LenProperties
<1>4. ASSUME NEW s, Holds(s, pos, rs, a, a) PROVE s = <<>>
  BY <1>2, <1>4, EmptySeq DEF Holds
<1> QED
  BY <1>1, <1>2, <1>3, <1>4 DEF Holds

(* The i-th byte of a request that begins at x and ends at y, seen from the *)
(* begin v of the part it is in, which ends at w.                           *)
LEMMA Between ==
  ASSUME NEW u \in Nat, NEW v \in Nat, NEW w \in Nat, NEW x \in Nat, NEW y \in Nat, NEW i \in Nat,
         u <= v, v <= x, i > 0, x + i <= y, y <= w
  PROVE  /\ (x - v) + i \in 1 .. w - v
         /\ (x - v) + i \in 1 .. (w - u) - (v - u)
  OBVIOUS

(* Between two ends of requests a sequence splits into what both parts hold. *)
LEMMA HoldsSplit ==
  ASSUME NEW rs \in Seq(AllRequests), NEW n \in 0 .. Len(rs), NEW pos, Laid(pos, rs, n),
         NEW a \in 0 .. n, NEW m \in a .. n, NEW k \in a .. m, NEW s, Holds(s, pos, rs, a, m)
  PROVE  /\ pos[k] - pos[a] \in 0 .. Len(s)
         /\ Holds(SubSeq(s, 1, pos[k] - pos[a]), pos, rs, a, k)
         /\ Holds(SubSeq(s, (pos[k] - pos[a]) + 1, Len(s)), pos, rs, k, m)
<1> DEFINE d == pos[k] - pos[a]
<1>1. /\ n \in Nat /\ a \in Nat /\ m \in Nat /\ k \in Nat
      /\ a \in 0 .. n /\ m \in 0 .. n /\ k \in 0 .. n /\ n <= Len(rs) /\ Len(rs) \in Nat
  BY LenProperties
<1>2. /\ pos[a] \in Nat /\ pos[m] \in Nat /\ pos[k] \in Nat
      /\ pos[a] <= pos[k] /\ pos[k] <= pos[m]
  BY <1>1 DEF Laid
<1>3. s \in Seq(Byte) /\ Len(s) = pos[m] - pos[a] /\ Len(s) \in Nat
  BY <1>2 DEF Holds
<1>4. d \in 0 .. Len(s)
  BY <1>2, <1>3
<1> DEFINE p == SubSeq(s, 1, d)
           r == SubSeq(s, d + 1, Len(s))
<1>5. p \in Seq(Byte) /\ Len(p) = d /\ \A i \in 1 .. d : p[i] = s[i]
  <2>1. /\ 1 \in 1 .. Len(s) + 1 /\ d \in 0 .. Len(s) /\ 1 <= d + 1
    BY <1>3, <1>4
  <2>2. /\ p \in Seq(Byte) /\ Len(p) = (d - 1) + 1
        /\ \A i \in 1 .. (d - 1) + 1 : p[i] = s[(1 + i) - 1]
    BY <2>1, <1>3, Part
  <2> QED
    BY <2>2, <1>3, <1>4
<1>6. r \in Seq(Byte) /\ Len(r) = Len(s) - d /\ \A i \in 1 .. Len(s) - d : r[i] = s[d + i]
  <2>1. /\ d + 1 \in 1 .. Len(s) + 1 /\ Len(s) \in 0 .. Len(s) /\ d + 1 <= Len(s) + 1
    BY <1>3, <1>4
  <2>2. /\ r \in Seq(Byte) /\ Len(r) = (Len(s) - (d + 1)) + 1
        /\ \A i \in 1 .. (Len(s) - (d + 1)) + 1 : r[i] = s[((d + 1) + i) - 1]
    BY SMTT(30), <2>1, <1>3, Part
  <2> HIDE DEF d, r
  <2>3. (Len(s) - (d + 1)) + 1 = Len(s) - d
    BY <1>3, <1>4
  <2>4. ASSUME NEW i \in 1 .. Len(s) - d PROVE ((d + 1) + i) - 1 = d + i
    BY <1>3, <1>4
  <2> QED
    BY <2>2, <2>3, <2>4
<1>7. ASSUME NEW j \in a .. m - 1, NEW i \in 1 .. Len(Bytes(rs, j + 1))
      PROVE  /\ s[(pos[j] - pos[a]) + i] = Bytes(rs, j + 1)[i]
             /\ j \in Nat /\ i \in Nat /\ i > 0
             /\ pos[j] \in Nat /\ pos[j + 1] \in Nat /\ pos[j] + i <= pos[j + 1]
             /\ pos[a] <= pos[j] /\ pos[j + 1] <= pos[m]
             /\ k <= j => pos[k] <= pos[j]
             /\ j < k => pos[j + 1] <= pos[k]
  <2>1. j \in 0 .. n - 1 /\ j \in 0 .. n /\ j + 1 \in 0 .. n /\ j + 1 \in 1 .. Len(rs) /\ j \in Nat
    BY <1>1
  <2>2. Len(Bytes(rs, j + 1)) \in Nat
    BY <2>1, RequestBytes
  <2>3. pos[j] \in Nat /\ pos[j + 1] = pos[j] + Len(Bytes(rs, j + 1))
    BY <2>1 DEF Laid
  <2>4. /\ pos[a] <= pos[j] /\ pos[j + 1] <= pos[m]
        /\ k <= j => pos[k] <= pos[j]
        /\ j < k => pos[j + 1] <= pos[k]
    BY SMTT(30), <1>1, <2>1 DEF Laid
  <2> QED
    BY <2>1, <2>2, <2>3, <2>4 DEF Holds
<1>8. Holds(p, pos, rs, a, k)
  <2>1. ASSUME NEW j \in a .. k - 1, NEW i \in 1 .. Len(Bytes(rs, j + 1))
        PROVE  p[(pos[j] - pos[a]) + i] = Bytes(rs, j + 1)[i]
    <3>1. j \in a .. m - 1 /\ j < k
      BY <1>1
    <3>2. /\ pos[j] \in Nat /\ pos[j + 1] \in Nat /\ pos[j] + i <= pos[j + 1] /\ i \in Nat /\ i > 0
          /\ pos[a] <= pos[j] /\ pos[j + 1] <= pos[k]
          /\ s[(pos[j] - pos[a]) + i] = Bytes(rs, j + 1)[i]
      BY <1>7, <3>1
    <3>3. (pos[j] - pos[a]) + i \in 1 .. d
      <4>1. /\ pos[a] \in Nat /\ pos[k] \in Nat /\ pos[j] \in Nat /\ pos[j + 1] \in Nat /\ i \in Nat
            /\ pos[a] <= pos[a] /\ pos[a] <= pos[j] /\ i > 0 /\ pos[j] + i <= pos[j + 1]
            /\ pos[j + 1] <= pos[k]
        BY SMTT(30), <1>2, <3>2
      <4>2. (pos[j] - pos[a]) + i \in 1 .. pos[k] - pos[a]
        BY ONLY <4>1, Between
      <4> QED
        BY <4>2
    <3> QED
      BY <1>5, <3>2, <3>3
  <2> QED
    BY <2>1, <1>5 DEF Holds
<1>9. Holds(r, pos, rs, k, m)
  <2>1. ASSUME NEW j \in k .. m - 1, NEW i \in 1 .. Len(Bytes(rs, j + 1))
        PROVE  r[(pos[j] - pos[k]) + i] = Bytes(rs, j + 1)[i]
    <3>1. j \in a .. m - 1 /\ k <= j
      BY <1>1
    <3>2. /\ pos[j] \in Nat /\ pos[j + 1] \in Nat /\ pos[j] + i <= pos[j + 1] /\ i \in Nat /\ i > 0
          /\ pos[k] <= pos[j] /\ pos[j + 1] <= pos[m]
          /\ s[(pos[j] - pos[a]) + i] = Bytes(rs, j + 1)[i]
      BY <1>7, <3>1
    <3>3. /\ (pos[j] - pos[k]) + i \in 1 .. Len(s) - d
          /\ d + ((pos[j] - pos[k]) + i) = (pos[j] - pos[a]) + i
      <4>1. /\ pos[a] \in Nat /\ pos[k] \in Nat /\ pos[m] \in Nat /\ pos[j] \in Nat
            /\ pos[j + 1] \in Nat /\ i \in Nat /\ pos[a] <= pos[k] /\ pos[k] <= pos[j] /\ i > 0
            /\ pos[j] + i <= pos[j + 1] /\ pos[j + 1] <= pos[m]
        BY <1>2, <3>2
      <4>2. (pos[j] - pos[k]) + i \in 1 .. (pos[m] - pos[a]) - (pos[k] - pos[a])
        BY ONLY <4>1, Between
      <4>3. (pos[k] - pos[a]) + ((pos[j] - pos[k]) + i) = (pos[j] - pos[a]) + i
        BY ONLY SMTT(30), <4>1
      <4> QED
        BY ONLY <4>2, <4>3, <1>3 DEF d
    <3> HIDE DEF d, r
    <3> QED
      BY <1>6, <3>2, <3>3
  <2>2. Len(r) = pos[m] - pos[k]
    BY SMTT(30), <1>2, <1>3, <1>6
  <2> QED
    BY <2>1, <2>2, <1>6 DEF Holds
<1> QED
  BY <1>4, <1>8, <1>9

(* The first request a sequence holds, and the others. *)
LEMMA HoldsFirst ==
  ASSUME NEW rs \in Seq(AllRequests), NEW n \in 0 .. Len(rs), NEW pos, Laid(pos, rs, n),
         NEW a \in 0 .. n, NEW m \in a .. n, a < m, NEW s, Holds(s, pos, rs, a, m)
  PROVE  \E rest \in Seq(Byte) : s = Bytes(rs, a + 1) \o rest /\ Holds(rest, pos, rs, a + 1, m)
<1> DEFINE d == pos[a + 1] - pos[a]
           p == SubSeq(s, 1, d)
           r == SubSeq(s, d + 1, Len(s))
           b == Bytes(rs, a + 1)
<1>1. /\ n \in Nat /\ a \in Nat /\ m \in Nat /\ a + 1 \in a .. m
      /\ a \in 0 .. n - 1 /\ a + 1 \in 1 .. Len(rs)
  BY LenProperties
<1>2. d \in 0 .. Len(s) /\ Holds(p, pos, rs, a, a + 1) /\ Holds(r, pos, rs, a + 1, m)
  BY <1>1, HoldsSplit
<1>3. b \in Seq(Byte) /\ Len(b) \in Nat
  BY <1>1, RequestBytes
<1>4. p \in Seq(Byte) /\ Len(p) = d /\ r \in Seq(Byte)
  BY <1>2 DEF Holds
<1>5. d = Len(b) /\ pos[a] \in Nat
  <2>1. pos[a] \in Nat /\ pos[a + 1] = pos[a] + Len(b)
    BY <1>1 DEF Laid
  <2> QED
    BY <2>1, <1>3
<1>6. p = b
  <2>1. ASSUME NEW i \in 1 .. Len(p) PROVE p[i] = b[i]
    <3>1. a \in a .. (a + 1) - 1 /\ i \in 1 .. Len(b) /\ (pos[a] - pos[a]) + i = i
      BY <1>1, <1>3, <1>4, <1>5
    <3> QED
      BY <3>1, <1>2 DEF Holds
  <2> QED
    BY <2>1, <1>3, <1>4, <1>5, SeqEqual
<1>7. s \in Seq(Byte) /\ Len(s) \in Nat
  BY LenProperties DEF Holds
<1>8. p \o r = SubSeq(s, 1, Len(s))
  <2>1. /\ 1 \in 1 .. Len(s) + 1 /\ d \in 1 - 1 .. Len(s) /\ Len(s) \in d .. Len(s)
    BY <1>2, <1>7
  <2> HIDE DEF d
  <2> QED
    BY <2>1, <1>7, ConcatAdjacentSubSeq
<1>9. s = b \o r
  BY <1>6, <1>7, <1>8, SubSeqFull
<1> HIDE DEF r, d, p
<1> QED
  BY <1>2, <1>4, <1>9

(* One request more: where it ends, and the sequence with its bytes.        *)
More(pos, rs, n) == [j \in 0 .. n + 1 |-> IF j <= n THEN pos[j] ELSE pos[n] + Len(Bytes(rs, n + 1))]

LEMMA LaidMore ==
  ASSUME NEW rs \in Seq(AllRequests), NEW n \in 0 .. Len(rs) - 1, NEW pos, Laid(pos, rs, n)
  PROVE  Laid(More(pos, rs, n), rs, n + 1)
<1> DEFINE q == More(pos, rs, n)
           b == Len(Bytes(rs, n + 1))
<1>1. n \in Nat /\ n + 1 \in 1 .. Len(rs) /\ n \in 0 .. n
  BY LenProperties
<1>2. b \in Nat
  BY <1>1, RequestBytes
<1>3. /\ \A j \in 0 .. n : pos[j] \in Nat /\ q[j] = pos[j] /\ pos[j] <= pos[n]
      /\ q[n + 1] = pos[n] + b
  BY <1>1 DEF Laid, More
<1>4. q \in [0 .. n + 1 -> Nat]
  <2>1. ASSUME NEW j \in 0 .. n + 1
        PROVE  (IF j <= n THEN pos[j] ELSE pos[n] + b) \in Nat
    BY <1>1, <1>2, <1>3
  <2> QED
    BY <2>1 DEF More
<1>5. ASSUME NEW j \in 0 .. (n + 1) - 1
      PROVE  q[j + 1] = q[j] + Len(Bytes(rs, j + 1))
  <2>1. CASE j = n
    BY <2>1, <1>1, <1>3
  <2>2. CASE j # n
    <3>1. j \in 0 .. n - 1 /\ j \in 0 .. n /\ j + 1 \in 0 .. n
      BY <2>2, <1>1
    <3> HIDE DEF q
    <3> QED
      BY <3>1, <1>3 DEF Laid
  <2> QED
    BY <2>1, <2>2
<1>6. ASSUME NEW i \in 0 .. n + 1, NEW j \in 0 .. n + 1, i <= j
      PROVE  q[i] <= q[j]
  <2>1. CASE j \in 0 .. n
    <3>1. i \in 0 .. n
      BY <2>1, <1>1, <1>6
    <3> HIDE DEF q
    <3> QED
      BY <3>1, <2>1, <1>3, <1>6 DEF Laid
  <2>2. CASE j = n + 1
    <3>1. i \in 0 .. n \/ i = n + 1
      BY <1>1
    <3> HIDE DEF q, b
    <3> QED
      BY <3>1, <2>2, <1>1, <1>2, <1>3
  <2> QED
    BY <2>1, <2>2, <1>1
<1> HIDE DEF q
<1>7. Laid(q, rs, n + 1)
  BY <1>4, <1>5, <1>6 DEF Laid
<1> QED
  BY <1>7 DEF q

LEMMA HoldsStill ==
  ASSUME NEW rs \in Seq(AllRequests), NEW n \in 0 .. Len(rs) - 1, NEW pos, Laid(pos, rs, n),
         NEW a \in 0 .. n, NEW m \in a .. n, NEW s, Holds(s, pos, rs, a, m)
  PROVE  Holds(s, More(pos, rs, n), rs, a, m)
<1>1. n \in Nat /\ a \in Nat /\ m \in 0 .. n /\ m \in Nat
  BY LenProperties
<1>2. \A j \in 0 .. n : More(pos, rs, n)[j] = pos[j]
  BY <1>1 DEF More
<1>3. \A j \in a .. m - 1 : More(pos, rs, n)[j] = pos[j]
  BY <1>1, <1>2
<1> QED
  BY <1>1, <1>2, <1>3 DEF Holds

LEMMA HoldsMore ==
  ASSUME NEW rs \in Seq(AllRequests), NEW n \in 0 .. Len(rs) - 1, NEW pos, Laid(pos, rs, n),
         NEW a \in 0 .. n, NEW s, Holds(s, pos, rs, a, n)
  PROVE  Holds(s \o Bytes(rs, n + 1), More(pos, rs, n), rs, a, n + 1)
<1> DEFINE q == More(pos, rs, n)
           b == Bytes(rs, n + 1)
<1>1. /\ n \in Nat /\ a \in Nat /\ n \in a .. n /\ n + 1 \in 1 .. Len(rs) /\ n \in 0 .. n
      /\ Len(rs) \in Nat
  BY LenProperties
<1>2. b \in Seq(Byte) /\ Len(b) \in Nat
  BY <1>1, RequestBytes
<1>3. s \in Seq(Byte) /\ Len(s) = pos[n] - pos[a] /\ Len(s) \in Nat /\ pos[n] \in Nat /\ pos[a] \in Nat
  BY <1>1, LenProperties DEF Holds, Laid
<1>4. /\ s \o b \in Seq(Byte) /\ Len(s \o b) = Len(s) + Len(b)
      /\ \A i \in 1 .. Len(s) + Len(b) :
           (s \o b)[i] = IF i <= Len(s) THEN s[i] ELSE b[i - Len(s)]
  BY <1>2, <1>3, ConcatProperties
<1>5. /\ \A j \in 0 .. n : q[j] = pos[j]
      /\ q[n + 1] = pos[n] + Len(b)
  BY <1>1 DEF More
<1>6. ASSUME NEW j \in a .. (n + 1) - 1, NEW i \in 1 .. Len(Bytes(rs, j + 1))
      PROVE  (s \o b)[(q[j] - q[a]) + i] = Bytes(rs, j + 1)[i]
  <2>1. j \in 0 .. n /\ q[j] = pos[j] /\ q[a] = pos[a]
    BY <1>1, <1>5
  <2>2. CASE j = n
    <3>1. (pos[n] - pos[a]) + i = Len(s) + i /\ i \in 1 .. Len(b) /\ i \in Nat
      BY <2>2, <1>2, <1>3
    <3>2. (s \o b)[Len(s) + i] = b[i]
      <4> HIDE DEF b
      <4>0. Len(s) \in Nat /\ Len(b) \in Nat /\ i \in 1 .. Len(b)
        BY <3>1, <1>2, <1>3
      <4>1. /\ Len(s) + i \in 1 .. Len(s) + Len(b) /\ ~(Len(s) + i <= Len(s))
            /\ (Len(s) + i) - Len(s) = i
        BY <4>0
      <4> QED
        BY <4>1, <1>4
    <3> QED
      BY <3>1, <3>2, <2>1, <2>2
  <2>3. CASE j # n
    <3>1. j \in a .. n - 1 /\ j \in 0 .. n - 1 /\ j + 1 \in 0 .. n /\ j + 1 \in 1 .. Len(rs)
      BY <2>3, <1>1
    <3>2. Len(Bytes(rs, j + 1)) \in Nat
      BY <3>1, RequestBytes
    <3>3. /\ pos[j] \in Nat /\ pos[j + 1] = pos[j] + Len(Bytes(rs, j + 1))
          /\ pos[j + 1] <= pos[n] /\ pos[a] <= pos[j]
      BY <1>1, <3>1 DEF Laid
    <3>4. (pos[j] - pos[a]) + i \in 1 .. Len(s)
      BY SMTT(60), <1>3, <3>2, <3>3
    <3>5. s[(pos[j] - pos[a]) + i] = Bytes(rs, j + 1)[i]
      BY <3>1 DEF Holds
    <3> DEFINE x == (pos[j] - pos[a]) + i
    <3>6. (s \o b)[x] = s[x]
      <4> HIDE DEF b
      <4> QED
        BY <3>4, <1>2, <1>3, <1>4
    <3> QED
      BY <3>5, <3>6, <2>1
  <2> QED
    BY <2>2, <2>3
<1>7. Len(s \o b) = q[n + 1] - q[a]
  BY <1>1, <1>2, <1>3, <1>4, <1>5
<1> HIDE DEF q, b
<1> QED
  BY <1>4, <1>6, <1>7 DEF Holds, b, q
-----------------------------------------------------------------------------
(* Requests followed by those from f + 1 to a of others.                    *)
Joined(us, rs, ts, f, a) ==
  /\ us \in Seq(AllRequests)
  /\ Len(us) = Len(rs) + (a - f)
  /\ \A j \in 1 .. Len(rs) : us[j] = rs[j]
  /\ \A j \in 1 .. a - f : us[Len(rs) + j] = ts[f + j]

(* Where they end. *)
Joint(pos, n, qos, f, a) ==
  [j \in 0 .. n + (a - f) |-> IF j <= n THEN pos[j] ELSE pos[n] + (qos[f + (j - n)] - qos[f])]

LEMMA JointEnds ==
  ASSUME NEW n \in Nat, NEW m \in Nat, NEW f \in 0 .. m, NEW a \in f .. m,
         NEW pos \in [0 .. n -> Nat], NEW qos \in [0 .. m -> Nat],
         \A i, j \in 0 .. m : i <= j => qos[i] <= qos[j]
  PROVE  /\ \A j \in 0 .. n : Joint(pos, n, qos, f, a)[j] = pos[j]
         /\ \A i \in 0 .. a - f :
              Joint(pos, n, qos, f, a)[n + i] = pos[n] + (qos[f + i] - qos[f])
         /\ \A i \in 0 .. a - f : qos[f + i] \in Nat /\ qos[f] <= qos[f + i]
         /\ Joint(pos, n, qos, f, a) \in [0 .. n + (a - f) -> Nat]
<1> DEFINE q == Joint(pos, n, qos, f, a)
<1>1. f \in Nat /\ a \in Nat /\ a - f \in Nat /\ n \in 0 .. n /\ f <= a /\ a <= m
  OBVIOUS
<1>2. \A j \in 0 .. n : q[j] = pos[j] /\ pos[j] \in Nat
  <2>1. \A j \in 0 .. n : j \in 0 .. n + (a - f) /\ j <= n
    BY <1>1
  <2> QED
    BY <2>1 DEF Joint
<1>3. ASSUME NEW i \in 0 .. a - f
      PROVE  qos[f + i] \in Nat /\ qos[f] \in Nat /\ qos[f] <= qos[f + i]
  <2>1. f + i \in 0 .. m /\ f \in 0 .. m /\ f <= f + i
    BY <1>1
  <2> QED
    BY <2>1
<1>4. ASSUME NEW i \in 0 .. a - f
      PROVE  q[n + i] = pos[n] + (qos[f + i] - qos[f])
  <2>1. n + i \in 0 .. n + (a - f) /\ (n + i) - n = i /\ f + 0 = f /\ i \in Nat
    BY <1>1
  <2>2. CASE i = 0
    <3>1. qos[f + i] - qos[f] = 0 /\ q[n + i] = pos[n] /\ pos[n] \in Nat
      BY <2>2, <1>1, <1>2, <1>3
    <3> HIDE DEF q
    <3> QED
      BY <3>1
  <2>3. CASE i # 0
    <3>1. ~(n + i <= n)
      BY <2>1, <2>3
    <3> QED
      BY <3>1, <2>1 DEF Joint
  <2> QED
    BY <2>2, <2>3
<1>5. q \in [0 .. n + (a - f) -> Nat]
  <2>1. ASSUME NEW j \in 0 .. n + (a - f) PROVE q[j] \in Nat
    <3>1. CASE j <= n
      BY <3>1, <1>2
    <3>2. CASE ~(j <= n)
      <4>1. j - n \in 0 .. a - f /\ n + (j - n) = j
        BY <3>2, <1>1
      <4>2. q[n + (j - n)] = pos[n] + (qos[f + (j - n)] - qos[f])
        BY <4>1, <1>4
      <4>3. qos[f + (j - n)] \in Nat /\ qos[f] \in Nat /\ qos[f] <= qos[f + (j - n)] /\ pos[n] \in Nat
        BY <4>1, <1>1, <1>2, <1>3
      <4> HIDE DEF q
      <4>4. pos[n] + (qos[f + (j - n)] - qos[f]) \in Nat
        BY <4>3
      <4> QED
        BY <4>1, <4>2, <4>4
    <3> QED
      BY <3>1, <3>2
  <2>2. DOMAIN q = 0 .. n + (a - f) /\ q = [j \in DOMAIN q |-> q[j]]
    BY DEF Joint
  <2> HIDE DEF q
  <2> QED
    BY <2>1, <2>2
<1> QED
  BY <1>2, <1>3, <1>4, <1>5

(* The i-th byte of a request that begins at y, in a part that begins at f  *)
(* and ends at a, behind one that begins at e and ends at p.                *)
LEMMA Shifted ==
  ASSUME NEW e \in Nat, NEW p \in Nat, NEW f \in Nat, NEW a \in Nat, NEW y \in Nat, NEW l \in Nat,
         NEW i \in Nat, e <= p, f <= y, y + l <= a, i > 0, i <= l
  PROVE  /\ (y - f) + i \in 1 .. a - f
         /\ ((p + (y - f)) - e) + i = (p - e) + ((y - f) + i)
         /\ (p - e) + ((y - f) + i) \in 1 .. (p - e) + (a - f)
         /\ ~((p - e) + ((y - f) + i) <= p - e)
         /\ ((p - e) + ((y - f) + i)) - (p - e) = (y - f) + i
  OBVIOUS

(* A sequence that holds the rest of the first requests and one that holds  *)
(* those that follow hold, one after the other, the rest of all of them.    *)
LEMMA HoldsJoined ==
  ASSUME NEW rs \in Seq(AllRequests), NEW n, n = Len(rs), NEW pos, Laid(pos, rs, n),
         NEW e \in 0 .. n, NEW s, Holds(s, pos, rs, e, n),
         NEW ts \in Seq(AllRequests), NEW m \in 0 .. Len(ts), NEW qos, Laid(qos, ts, m),
         NEW f \in 0 .. m, NEW a \in f .. m, NEW v, Holds(v, qos, ts, f, a),
         NEW us, Joined(us, rs, ts, f, a)
  PROVE  /\ Laid(Joint(pos, n, qos, f, a), us, Len(us))
         /\ Holds(s \o v, Joint(pos, n, qos, f, a), us, e, Len(us))
<1> DEFINE q == Joint(pos, n, qos, f, a)
           z == n + (a - f)
<1>1. /\ n \in Nat /\ m \in Nat /\ f \in Nat /\ a \in Nat /\ a - f \in Nat /\ e \in Nat /\ z \in Nat
      /\ Len(us) = z /\ f <= a /\ a <= m /\ e <= n /\ n \in 0 .. n /\ f \in 0 .. m /\ a \in 0 .. m
      /\ a - f \in 0 .. a - f /\ e \in 0 .. n /\ m <= Len(ts) /\ Len(ts) \in Nat
  BY LenProperties DEF Joined
<1>2. /\ pos \in [0 .. n -> Nat] /\ qos \in [0 .. m -> Nat]
      /\ \A i, j \in 0 .. m : i <= j => qos[i] <= qos[j]
      /\ \A i, j \in 0 .. n : i <= j => pos[i] <= pos[j]
  BY DEF Laid
<1>3. /\ \A j \in 0 .. n : q[j] = pos[j]
      /\ \A i \in 0 .. a - f : q[n + i] = pos[n] + (qos[f + i] - qos[f])
      /\ \A i \in 0 .. a - f : qos[f + i] \in Nat /\ qos[f] <= qos[f + i]
      /\ q \in [0 .. z -> Nat]
  <2>1. n \in Nat /\ m \in Nat /\ f \in 0 .. m /\ a \in f .. m
    BY <1>1
  <2>2. /\ \A j \in 0 .. n : Joint(pos, n, qos, f, a)[j] = pos[j]
        /\ \A i \in 0 .. a - f :
             Joint(pos, n, qos, f, a)[n + i] = pos[n] + (qos[f + i] - qos[f])
        /\ \A i \in 0 .. a - f : qos[f + i] \in Nat /\ qos[f] <= qos[f + i]
        /\ Joint(pos, n, qos, f, a) \in [0 .. n + (a - f) -> Nat]
    BY ONLY <2>1, <1>2, JointEnds
  <2> QED
    BY <2>2
<1> HIDE DEF q
<1>4. ASSUME NEW j \in 0 .. n - 1
      PROVE  /\ Bytes(us, j + 1) = Bytes(rs, j + 1) /\ Len(Bytes(us, j + 1)) \in Nat
             /\ pos[j] \in Nat /\ pos[j + 1] = pos[j] + Len(Bytes(us, j + 1))
             /\ pos[j + 1] <= pos[n]
  <2>1. j + 1 \in 1 .. Len(rs) /\ j \in 0 .. n /\ j + 1 \in 0 .. n
    BY <1>1
  <2>2. Bytes(us, j + 1) = Bytes(rs, j + 1)
    BY <2>1 DEF Joined, Bytes
  <2>3. Len(Bytes(rs, j + 1)) \in Nat
    BY <2>1, RequestBytes
  <2>4. pos[j] \in Nat /\ pos[j + 1] <= pos[n]
    <3>1. j + 1 <= n /\ n \in 0 .. n
      BY <1>1
    <3> QED
      BY <3>1, <2>1, <1>2
  <2>5. pos[j + 1] = pos[j] + Len(Bytes(rs, j + 1))
    BY DEF Laid
  <2> QED
    BY <2>2, <2>3, <2>4, <2>5
<1>5. ASSUME NEW i \in 0 .. (a - f) - 1
      PROVE  /\ Bytes(us, (n + i) + 1) = Bytes(ts, (f + i) + 1)
             /\ Len(Bytes(us, (n + i) + 1)) \in Nat
             /\ qos[f + i] \in Nat /\ qos[(f + i) + 1] = qos[f + i] + Len(Bytes(us, (n + i) + 1))
             /\ qos[(f + i) + 1] <= qos[a]
  <2>1. /\ i + 1 \in 1 .. a - f /\ Len(rs) + (i + 1) = (n + i) + 1 /\ f + (i + 1) = (f + i) + 1
        /\ (f + i) + 1 \in 1 .. Len(ts) /\ f + i \in 0 .. m - 1 /\ f + i \in 0 .. m
        /\ (f + i) + 1 \in 0 .. m /\ (f + i) + 1 <= a
    BY <1>1
  <2>2. us[Len(rs) + (i + 1)] = ts[f + (i + 1)]
    BY <2>1 DEF Joined
  <2>3. Bytes(us, (n + i) + 1) = Bytes(ts, (f + i) + 1)
    BY <2>1, <2>2 DEF Bytes
  <2>4. Len(Bytes(ts, (f + i) + 1)) \in Nat
    BY <2>1, RequestBytes
  <2>5. qos[f + i] \in Nat /\ qos[(f + i) + 1] <= qos[a]
    BY <2>1, <1>1, <1>2
  <2>6. qos[(f + i) + 1] = qos[f + i] + Len(Bytes(ts, (f + i) + 1))
    BY <2>1 DEF Laid
  <2> QED
    BY <2>3, <2>4, <2>5, <2>6
<1>6. ASSUME NEW j \in 0 .. z
      PROVE  j \in 0 .. n \/ \E i \in 0 .. a - f : j = n + i
  <2>1. CASE j <= n
    BY <2>1, <1>1
  <2>2. CASE ~(j <= n)
    <3>1. j - n \in 0 .. a - f /\ j = n + (j - n)
      BY <2>2, <1>1
    <3> QED
      BY <3>1
  <2> QED
    BY <2>1, <2>2
<1>7. ASSUME NEW j \in 0 .. z - 1
      PROVE  j \in 0 .. n - 1 \/ \E i \in 0 .. (a - f) - 1 : j = n + i
  <2>1. CASE j < n
    BY <2>1, <1>1
  <2>2. CASE ~(j < n)
    <3>1. j - n \in 0 .. (a - f) - 1 /\ j = n + (j - n)
      BY <2>2, <1>1
    <3> QED
      BY <3>1
  <2> QED
    BY <2>1, <2>2
<1>8. ASSUME NEW j \in 0 .. z - 1 PROVE q[j + 1] = q[j] + Len(Bytes(us, j + 1))
  <2>1. CASE j \in 0 .. n - 1
    <3>1. j \in 0 .. n /\ j + 1 \in 0 .. n
      BY <2>1, <1>1
    <3> QED
      BY <2>1, <3>1, <1>3, <1>4
  <2>2. ASSUME NEW i \in 0 .. (a - f) - 1, j = n + i PROVE q[j + 1] = q[j] + Len(Bytes(us, j + 1))
    <3>1. i \in 0 .. a - f /\ i + 1 \in 0 .. a - f /\ n + (i + 1) = j + 1 /\ f + (i + 1) = (f + i) + 1
      BY <2>2, <1>1
    <3>2. /\ q[j + 1] = pos[n] + (qos[(f + i) + 1] - qos[f])
          /\ q[j] = pos[n] + (qos[f + i] - qos[f])
      BY <2>2, <3>1, <1>3
    <3>3. /\ pos[n] \in Nat /\ qos[f] \in Nat /\ qos[f + i] \in Nat /\ Len(Bytes(us, j + 1)) \in Nat
          /\ qos[(f + i) + 1] = qos[f + i] + Len(Bytes(us, j + 1))
      BY <2>2, <1>1, <1>2, <1>5
    <3> QED
      BY ONLY SMTT(30), <3>2, <3>3
  <2> QED
    BY <2>1, <2>2, <1>7
<1>9. ASSUME NEW i \in 0 .. z, NEW j \in 0 .. z, i <= j PROVE q[i] <= q[j]
  <2>1. \A k \in 0 .. n : q[k] \in Nat /\ q[k] <= pos[n] /\ pos[n] \in Nat
    <3>1. ASSUME NEW k \in 0 .. n PROVE q[k] \in Nat /\ q[k] <= pos[n] /\ pos[n] \in Nat
      <4>1. k <= n /\ n \in 0 .. n /\ q[k] = pos[k]
        BY <1>1, <1>3
      <4> QED
        BY <4>1, <1>2
    <3> QED
      BY <3>1
  <2>2. \A k \in 0 .. a - f : q[n + k] \in Nat /\ pos[n] <= q[n + k]
    <3>1. ASSUME NEW k \in 0 .. a - f PROVE q[n + k] \in Nat /\ pos[n] <= q[n + k]
      <4>1. /\ q[n + k] = pos[n] + (qos[f + k] - qos[f]) /\ qos[f + k] \in Nat
            /\ qos[f] <= qos[f + k] /\ qos[f] \in Nat /\ pos[n] \in Nat
        BY <1>1, <1>2, <1>3
      <4> QED
        BY ONLY SMTT(30), <4>1
    <3> QED
      BY <3>1
  <2>3. CASE i \in 0 .. n /\ j \in 0 .. n
    BY <2>3, <1>2, <1>3, <1>9
  <2>4. ASSUME i \in 0 .. n, NEW k \in 0 .. a - f, j = n + k PROVE q[i] <= q[j]
    <3>1. q[i] \in Nat /\ q[i] <= pos[n] /\ pos[n] \in Nat /\ q[j] \in Nat /\ pos[n] <= q[j]
      BY <2>1, <2>2, <2>4
    <3> QED
      BY ONLY <3>1
  <2>5. ASSUME NEW l \in 0 .. a - f, i = n + l, NEW k \in 0 .. a - f, j = n + k PROVE q[i] <= q[j]
    <3>1. f + l \in 0 .. m /\ f + k \in 0 .. m /\ f + l <= f + k
      BY <2>5, <1>1, <1>9
    <3>2. qos[f + l] <= qos[f + k] /\ qos[f + l] \in Nat /\ qos[f + k] \in Nat
      BY <3>1, <1>2
    <3>3. /\ q[i] = pos[n] + (qos[f + l] - qos[f]) /\ q[j] = pos[n] + (qos[f + k] - qos[f])
          /\ pos[n] \in Nat /\ qos[f] \in Nat
      BY <2>5, <1>1, <1>2, <1>3
    <3> QED
      BY ONLY SMTT(30), <3>2, <3>3
  <2>6. ASSUME NEW l \in 0 .. a - f, i = n + l, j \in 0 .. n PROVE q[i] <= q[j]
    <3>1. l = 0 /\ i = n /\ j = n
      BY <2>6, <1>1, <1>9
    <3> QED
      BY <3>1, <2>1, <1>1
  <2> QED
    BY <2>3, <2>4, <2>5, <2>6, <1>6
<1>10. Laid(q, us, z)
  BY <1>3, <1>8, <1>9 DEF Laid
<1>11. /\ s \in Seq(Byte) /\ Len(s) = pos[n] - pos[e] /\ Len(s) \in Nat
       /\ v \in Seq(Byte) /\ Len(v) = qos[a] - qos[f] /\ Len(v) \in Nat
       /\ pos[n] \in Nat /\ pos[e] \in Nat /\ qos[a] \in Nat /\ qos[f] \in Nat
  BY <1>1, <1>2, LenProperties DEF Holds
<1>12. /\ s \o v \in Seq(Byte) /\ Len(s \o v) = Len(s) + Len(v)
       /\ \A i \in 1 .. Len(s) + Len(v) : (s \o v)[i] = IF i <= Len(s) THEN s[i] ELSE v[i - Len(s)]
  BY <1>11, ConcatProperties
<1>13. Len(s \o v) = q[z] - q[e]
  <2>1. PICK k : k = a - f
    OBVIOUS
  <2>2. k \in 0 .. a - f /\ f + k = a /\ n + k = z
    BY <2>1, <1>1
  <2>3. q[z] = pos[n] + (qos[a] - qos[f]) /\ q[e] = pos[e]
    BY <2>2, <1>1, <1>3
  <2>4. Len(s \o v) = Len(s) + Len(v)
    BY <1>12
  <2> QED
    BY ONLY SMTT(30), <2>3, <2>4, <1>11
<1>14. ASSUME NEW j \in e .. z - 1, NEW i \in 1 .. Len(Bytes(us, j + 1))
       PROVE  (s \o v)[(q[j] - q[e]) + i] = Bytes(us, j + 1)[i]
  <2>1. j \in 0 .. z - 1 /\ q[e] = pos[e]
    BY <1>1, <1>3
  <2>2. CASE j \in 0 .. n - 1
    <3>1. j \in e .. n - 1 /\ j \in 0 .. n /\ e \in 0 .. n /\ e <= j
      BY <2>2, <1>1
    <3>2. /\ Bytes(us, j + 1) = Bytes(rs, j + 1) /\ Len(Bytes(us, j + 1)) \in Nat
          /\ pos[j] \in Nat /\ pos[j + 1] = pos[j] + Len(Bytes(us, j + 1)) /\ pos[j + 1] <= pos[n]
          /\ pos[e] <= pos[j] /\ q[j] = pos[j] /\ q[e] = pos[e]
      BY <2>2, <3>1, <1>2, <1>3, <1>4
    <3> DEFINE x == (pos[j] - pos[e]) + i
    <3>3. x \in 1 .. Len(s)
      <4>1. PICK l, o, g, h, y : /\ l = Len(Bytes(us, j + 1)) /\ o = pos[n] /\ g = pos[e]
                                 /\ h = pos[j] /\ y = pos[j + 1]
        OBVIOUS
      <4>2. l \in Nat /\ o \in Nat /\ g \in Nat /\ h \in Nat /\ y = h + l /\ y <= o /\ g <= h
        BY <4>1, <3>2, <1>11
      <4>3. i \in 1 .. l
        BY <4>1
      <4>4. (h - g) + i \in 1 .. o - g
        BY <4>2, <4>3
      <4> QED
        BY <4>1, <4>4, <1>11
    <3>4. s[x] = Bytes(rs, j + 1)[i]
      BY <3>1, <3>2 DEF Holds
    <3> HIDE DEF x
    <3>5. (s \o v)[x] = s[x]
      BY SMTT(30), <3>3, <1>11, <1>12
    <3> QED
      BY <3>2, <3>4, <3>5 DEF x
  <2>3. ASSUME NEW k \in 0 .. (a - f) - 1, j = n + k
        PROVE  (s \o v)[(q[j] - q[e]) + i] = Bytes(us, j + 1)[i]
    <3>1. /\ Bytes(us, j + 1) = Bytes(ts, (f + k) + 1) /\ Len(Bytes(us, j + 1)) \in Nat
          /\ qos[f + k] \in Nat /\ qos[(f + k) + 1] = qos[f + k] + Len(Bytes(us, j + 1))
          /\ qos[(f + k) + 1] <= qos[a]
      BY <2>3, <1>5
    <3>2. k \in 0 .. a - f /\ f + k \in f .. a - 1
      BY <1>1
    <3>3. q[j] = pos[n] + (qos[f + k] - qos[f]) /\ qos[f] <= qos[f + k]
      BY <2>3, <3>2, <1>3
    <3>4. PICK y : y = qos[f + k]
      OBVIOUS
    <3>5. PICK x : x = (y - qos[f]) + i
      OBVIOUS
    <3>6. /\ x \in 1 .. Len(v) /\ (q[j] - q[e]) + i = Len(s) + x
          /\ Len(s) + x \in 1 .. Len(s) + Len(v) /\ ~(Len(s) + x <= Len(s)) /\ (Len(s) + x) - Len(s) = x
      <4>1. i \in Nat /\ i > 0 /\ i <= Len(Bytes(us, j + 1)) /\ Len(Bytes(us, j + 1)) \in Nat
        BY <3>1
      <4>2. y \in Nat /\ qos[f] <= y /\ y + Len(Bytes(us, j + 1)) <= qos[a]
        BY <3>1, <3>3, <3>4
      <4>3. q[e] = pos[e] /\ q[j] = pos[n] + (y - qos[f])
        BY <2>1, <3>3, <3>4
      <4>4. pos[n] \in Nat /\ pos[e] \in Nat /\ qos[a] \in Nat /\ qos[f] \in Nat /\ pos[e] <= pos[n]
        BY <1>1, <1>2, <1>11
      <4>5. Len(s) = pos[n] - pos[e] /\ Len(v) = qos[a] - qos[f]
        BY <1>11
      <4>6. PICK l, o, g, w, h : l = Len(Bytes(us, j + 1)) /\ o = pos[n] /\ g = pos[e] /\ w = qos[a] /\ h = qos[f]
        OBVIOUS
      <4>a. /\ l \in Nat /\ o \in Nat /\ g \in Nat /\ w \in Nat /\ h \in Nat /\ y \in Nat /\ i \in Nat
            /\ g <= o /\ h <= y /\ y + l <= w /\ i > 0 /\ i <= l
        BY <4>1, <4>2, <4>4, <4>6
      <4>b. /\ (y - h) + i \in 1 .. w - h
            /\ ((o + (y - h)) - g) + i = (o - g) + ((y - h) + i)
            /\ (o - g) + ((y - h) + i) \in 1 .. (o - g) + (w - h)
            /\ ~((o - g) + ((y - h) + i) <= o - g)
            /\ ((o - g) + ((y - h) + i)) - (o - g) = (y - h) + i
        BY <4>a, Shifted
      <4>7. /\ (y - qos[f]) + i \in 1 .. qos[a] - qos[f]
            /\ ((pos[n] + (y - qos[f])) - pos[e]) + i = (pos[n] - pos[e]) + ((y - qos[f]) + i)
            /\ (pos[n] - pos[e]) + ((y - qos[f]) + i) \in 1 .. (pos[n] - pos[e]) + (qos[a] - qos[f])
            /\ ~((pos[n] - pos[e]) + ((y - qos[f]) + i) <= pos[n] - pos[e])
            /\ ((pos[n] - pos[e]) + ((y - qos[f]) + i)) - (pos[n] - pos[e]) = (y - qos[f]) + i
        BY <4>b, <4>6
      <4>8. x \in 1 .. Len(v)
        BY <4>5, <4>7, <3>5
      <4>9. (q[j] - q[e]) + i = Len(s) + x
        BY <4>3, <4>5, <4>7, <3>5
      <4>10. /\ Len(s) + x \in 1 .. Len(s) + Len(v) /\ ~(Len(s) + x <= Len(s))
             /\ (Len(s) + x) - Len(s) = x
        BY <4>5, <4>7, <3>5
      <4> QED
        BY <4>8, <4>9, <4>10
    <3>7. v[x] = Bytes(ts, (f + k) + 1)[i]
      BY <3>1, <3>2, <3>4, <3>5 DEF Holds
    <3>8. (s \o v)[Len(s) + x] = v[x]
      BY <3>6, <1>12
    <3> QED
      BY <3>1, <3>6, <3>7, <3>8
  <2> QED
    BY <2>1, <2>2, <2>3, <1>7
<1>15. Holds(s \o v, q, us, e, z)
  BY <1>12, <1>13, <1>14 DEF Holds
<1> QED
  BY <1>1, <1>10, <1>15 DEF q
-----------------------------------------------------------------------------
(* Bytes on their way. *)
WireByte == [byte : Byte, stop : BOOLEAN, last : BOOLEAN]

Data(w) == [i \in 1 .. Len(w) |-> w[i].byte]

(* A sequence given element by element. *)
LEMMA Listed ==
  ASSUME NEW S, NEW n \in Nat, NEW f \in [1 .. n -> S]
  PROVE  f \in Seq(S) /\ Len(f) = n
<1>1. f \in Seq(S)
  BY SeqDef
<1>2. DOMAIN f = 1 .. n /\ DOMAIN f = 1 .. Len(f) /\ Len(f) \in Nat
  BY <1>1, LenProperties
<1> QED
  BY <1>1, <1>2

LEMMA DataSeq ==
  ASSUME NEW w \in Seq(WireByte)
  PROVE  /\ Len(w) \in Nat
         /\ Data(w) \in Seq(Byte) /\ Len(Data(w)) = Len(w)
         /\ \A i \in 1 .. Len(w) : Data(w)[i] = w[i].byte /\ w[i] \in WireByte
<1>1. Len(w) \in Nat /\ \A i \in 1 .. Len(w) : w[i] \in WireByte
  BY LenProperties, ElementOfSeq
<1>2. Data(w) \in [1 .. Len(w) -> Byte]
  BY <1>1 DEF Data, WireByte
<1>3. Data(w) \in Seq(Byte) /\ Len(Data(w)) = Len(w)
  BY <1>1, <1>2, Listed
<1> QED
  BY <1>1, <1>3 DEF Data

LEMMA OnWireBytes ==
  ASSUME NEW rs \in Seq(AllRequests), NEW n \in 1 .. Len(rs)
  PROVE  /\ OnWire(rs[n]) \in Seq(WireByte)
         /\ Len(OnWire(rs[n])) = Len(Bytes(rs, n))
         /\ \A i \in 1 .. Len(Bytes(rs, n)) :
              /\ OnWire(rs[n])[i].byte = Bytes(rs, n)[i]
              /\ OnWire(rs[n])[i].last <=> i = Len(Bytes(rs, n))
<1> DEFINE b == Bytes(rs, n)
           may(i) == i \in Cuts \cup {Len(b)}
           last(i) == i = Len(b)
           f == [i \in 1 .. Len(b) |-> [byte |-> b[i], stop |-> may(i), last |-> last(i)]]
<1>1. b \in Seq(Byte) /\ Len(b) \in Nat
  BY RequestBytes
<1>2. OnWire(rs[n]) = f
  BY DEF OnWire, Bytes
<1>3. \A i \in 1 .. Len(b) : b[i] \in Byte
  BY <1>1, ElementOfSeq
<1>4. \A i \in 1 .. Len(b) : may(i) \in BOOLEAN /\ last(i) \in BOOLEAN
  OBVIOUS
<1> HIDE DEF b, may, last
<1>5. f \in [1 .. Len(b) -> WireByte]
  BY <1>3, <1>4 DEF WireByte
<1>6. f \in Seq(WireByte) /\ Len(f) = Len(b)
  BY <1>1, <1>5, Listed
<1>7. \A i \in 1 .. Len(b) : f[i].byte = b[i] /\ f[i].last = last(i)
  OBVIOUS
<1> QED
  BY <1>2, <1>6, <1>7 DEF b, last

LEMMA DataMore ==
  ASSUME NEW rs \in Seq(AllRequests), NEW n \in 1 .. Len(rs), NEW w \in Seq(WireByte)
  PROVE  Data(w \o OnWire(rs[n])) = Data(w) \o Bytes(rs, n)
<1> DEFINE v == OnWire(rs[n])
           b == Bytes(rs, n)
           x == w \o v
           y == Data(w) \o b
<1>1. b \in Seq(Byte) /\ Len(b) \in Nat
  BY RequestBytes
<1>2. v \in Seq(WireByte) /\ Len(v) = Len(b) /\ \A i \in 1 .. Len(b) : v[i].byte = b[i]
  BY OnWireBytes
<1>3. /\ Len(w) \in Nat /\ Data(w) \in Seq(Byte) /\ Len(Data(w)) = Len(w)
      /\ \A i \in 1 .. Len(w) : Data(w)[i] = w[i].byte
  BY DataSeq
<1> HIDE DEF v, b
<1>4. /\ x \in Seq(WireByte) /\ Len(x) = Len(w) + Len(v)
      /\ \A i \in 1 .. Len(w) + Len(v) : x[i] = IF i <= Len(w) THEN w[i] ELSE v[i - Len(w)]
  BY ZenonT(30), <1>2, ConcatProperties
<1>5. /\ y \in Seq(Byte) /\ Len(y) = Len(Data(w)) + Len(b)
      /\ \A i \in 1 .. Len(Data(w)) + Len(b) :
           y[i] = IF i <= Len(Data(w)) THEN Data(w)[i] ELSE b[i - Len(Data(w))]
  BY <1>1, <1>3, ConcatProperties
<1> HIDE DEF x, y
<1>6. /\ Data(x) \in Seq(Byte) /\ Len(Data(x)) = Len(x)
      /\ \A i \in 1 .. Len(x) : Data(x)[i] = x[i].byte
  BY <1>4, DataSeq
<1>7. ASSUME NEW i \in 1 .. Len(Data(x)) PROVE Data(x)[i] = y[i]
  <2>1. i \in 1 .. Len(w) + Len(b) /\ Data(x)[i] = x[i].byte
    BY <1>2, <1>4, <1>6
  <2>2. CASE i <= Len(w)
    <3>1. i \in 1 .. Len(w) /\ x[i] = w[i] /\ y[i] = Data(w)[i]
      BY <2>1, <2>2, <1>1, <1>2, <1>3, <1>4, <1>5
    <3> QED
      BY <3>1, <2>1, <1>3
  <2>3. CASE ~(i <= Len(w))
    <3>1. i - Len(w) \in 1 .. Len(b) /\ x[i] = v[i - Len(w)] /\ y[i] = b[i - Len(w)]
      BY <2>1, <2>3, <1>1, <1>2, <1>3, <1>4, <1>5
    <3> QED
      BY <3>1, <2>1, <1>2
  <2> QED
    BY <2>2, <2>3
<1>8. Len(Data(x)) = Len(y)
  BY <1>1, <1>2, <1>3, <1>4, <1>5, <1>6
<1>9. Data(x) = y
  BY <1>5, <1>6, <1>7, <1>8, SeqEqual
<1> QED
  BY <1>9 DEF x, y, v, b

LEMMA DataParts ==
  ASSUME NEW w \in Seq(WireByte), NEW k \in 0 .. Len(w)
  PROVE  /\ SubSeq(w, k + 1, Len(w)) \in Seq(WireByte)
         /\ Len(SubSeq(w, k + 1, Len(w))) = Len(w) - k
         /\ \A i \in 1 .. Len(w) - k : SubSeq(w, k + 1, Len(w))[i] = w[k + i]
         /\ Data(SubSeq(w, k + 1, Len(w))) = SubSeq(Data(w), k + 1, Len(Data(w)))
         /\ [i \in 1 .. k |-> w[i].byte] = SubSeq(Data(w), 1, k)
<1> DEFINE v == SubSeq(w, k + 1, Len(w))
           r == SubSeq(Data(w), k + 1, Len(w))
           p == SubSeq(Data(w), 1, k)
           f == [i \in 1 .. k |-> w[i].byte]
<1>1. /\ Len(w) \in Nat /\ Data(w) \in Seq(Byte) /\ Len(Data(w)) = Len(w)
      /\ \A i \in 1 .. Len(w) : Data(w)[i] = w[i].byte /\ w[i] \in WireByte
  BY DataSeq
<1>2. /\ k \in Nat /\ k + 1 \in 1 .. Len(w) + 1 /\ Len(w) \in 0 .. Len(w) /\ k + 1 <= Len(w) + 1
      /\ (Len(w) - (k + 1)) + 1 = Len(w) - k
      /\ 1 \in 1 .. Len(w) + 1 /\ 1 <= k + 1 /\ (k - 1) + 1 = k
  BY <1>1
<1>3. \A i \in 1 .. Len(w) - k : ((k + 1) + i) - 1 = k + i /\ k + i \in 1 .. Len(w)
  BY <1>1, <1>2
<1>4. /\ v \in Seq(WireByte) /\ Len(v) = (Len(w) - (k + 1)) + 1
      /\ \A i \in 1 .. (Len(w) - (k + 1)) + 1 : v[i] = w[((k + 1) + i) - 1]
  BY ZenonT(30), <1>2, Part
<1>5. /\ v \in Seq(WireByte) /\ Len(v) = Len(w) - k /\ \A i \in 1 .. Len(w) - k : v[i] = w[k + i]
  BY <1>2, <1>3, <1>4
<1>6. /\ r \in Seq(Byte) /\ Len(r) = (Len(w) - (k + 1)) + 1
      /\ \A i \in 1 .. (Len(w) - (k + 1)) + 1 : r[i] = Data(w)[((k + 1) + i) - 1]
  BY <1>1, <1>2, Part
<1>7. /\ r \in Seq(Byte) /\ Len(r) = Len(w) - k /\ \A i \in 1 .. Len(w) - k : r[i] = Data(w)[k + i]
  BY <1>2, <1>3, <1>6
<1>8. Data(v) = r
  <2> HIDE DEF v, r
  <2>1. /\ Data(v) \in Seq(Byte) /\ Len(Data(v)) = Len(v)
        /\ \A i \in 1 .. Len(v) : Data(v)[i] = v[i].byte
    BY <1>5, DataSeq
  <2>2. \A i \in 1 .. Len(Data(v)) : Data(v)[i] = r[i]
    BY ZenonT(30), <2>1, <1>1, <1>3, <1>5, <1>7
  <2> QED
    BY <2>1, <2>2, <1>5, <1>7, SeqEqual
<1>9. f = p
  <2>1. /\ p \in Seq(Byte) /\ Len(p) = (k - 1) + 1
        /\ \A i \in 1 .. (k - 1) + 1 : p[i] = Data(w)[(1 + i) - 1]
    BY <1>1, <1>2, Part
  <2>2. \A i \in 1 .. k : i \in 1 .. Len(w) /\ (1 + i) - 1 = i
    BY <1>1, <1>2
  <2>3. Len(p) = k /\ \A i \in 1 .. k : p[i] = w[i].byte
    BY <2>1, <2>2, <1>1, <1>2
  <2>4. f \in [1 .. k -> Byte]
    BY <2>2, <1>1 DEF WireByte
  <2>5. f \in Seq(Byte) /\ Len(f) = k
    BY <2>4, <1>2, Listed
  <2>6. \A i \in 1 .. Len(f) : f[i] = p[i]
    BY <2>3, <2>5
  <2> HIDE DEF f, p
  <2> QED
    BY <2>1, <2>3, <2>5, <2>6, SeqEqual
<1> QED
  BY <1>1, <1>5, <1>8, <1>9

(* w carries the requests a + 1 .. m of rs, and only their last bytes are   *)
(* marked so.                                                               *)
Carries(w, pos, rs, a, m) ==
  /\ w \in Seq(WireByte)
  /\ Holds(Data(w), pos, rs, a, m)
  /\ \A p \in 1 .. Len(w) : w[p].last => \E j \in a + 1 .. m : p = pos[j] - pos[a]

LEMMA CarriesMore ==
  ASSUME NEW rs \in Seq(AllRequests), NEW n \in 0 .. Len(rs) - 1, NEW pos, Laid(pos, rs, n),
         NEW a \in 0 .. n, NEW w, Carries(w, pos, rs, a, n)
  PROVE  Carries(w \o OnWire(rs[n + 1]), More(pos, rs, n), rs, a, n + 1)
<1> DEFINE v == OnWire(rs[n + 1])
           b == Bytes(rs, n + 1)
           x == w \o v
           q == More(pos, rs, n)
<1>1. n \in Nat /\ a \in Nat /\ n + 1 \in 1 .. Len(rs) /\ n \in 0 .. n /\ n + 1 \in 0 .. n + 1
  BY LenProperties
<1>2. w \in Seq(WireByte) /\ Len(w) \in Nat /\ Len(w) = pos[n] - pos[a]
  <2>1. w \in Seq(WireByte) /\ Len(Data(w)) = pos[n] - pos[a]
    BY DEF Carries, Holds
  <2> QED
    BY <2>1, DataSeq
<1>3. Holds(Data(w) \o b, q, rs, a, n + 1)
  BY HoldsMore DEF Carries
<1>4. Data(x) = Data(w) \o b
  BY <1>1, <1>2, DataMore
<1>5. /\ v \in Seq(WireByte) /\ Len(v) = Len(b) /\ Len(b) \in Nat
      /\ \A i \in 1 .. Len(b) : v[i].last <=> i = Len(b)
  BY <1>1, OnWireBytes, RequestBytes
<1>6. q[n + 1] = pos[n] + Len(b) /\ \A j \in 0 .. n : q[j] = pos[j]
  BY <1>1 DEF More
<1>7. pos[n] \in Nat /\ pos[a] \in Nat
  BY <1>1 DEF Laid
<1> HIDE DEF v, b, q
<1>8. /\ x \in Seq(WireByte) /\ Len(x) = Len(w) + Len(v)
      /\ \A i \in 1 .. Len(w) + Len(v) : x[i] = IF i <= Len(w) THEN w[i] ELSE v[i - Len(w)]
  <2>1. w \in Seq(WireByte) /\ v \in Seq(WireByte)
    BY <1>2, <1>5
  <2> QED
    BY ONLY <2>1, ConcatProperties
<1> HIDE DEF x
<1>9. ASSUME NEW p \in 1 .. Len(x), x[p].last
      PROVE  \E j \in a + 1 .. n + 1 : p = q[j] - q[a]
  <2>1. p \in 1 .. Len(w) + Len(b) /\ p \in Nat
    BY <1>2, <1>5, <1>8
  <2>2. CASE p <= Len(w)
    <3>1. p \in 1 .. Len(w) /\ w[p].last
      BY <2>1, <2>2, <1>2, <1>5, <1>8, <1>9
    <3>2. PICK j \in a + 1 .. n : p = pos[j] - pos[a]
      BY <3>1 DEF Carries
    <3>3. j \in a + 1 .. n + 1 /\ j \in 0 .. n
      BY <1>1
    <3> QED
      BY <3>2, <3>3, <1>6
  <2>3. CASE ~(p <= Len(w))
    <3>1. p - Len(w) \in 1 .. Len(b) /\ x[p] = v[p - Len(w)]
      BY <2>1, <2>3, <1>2, <1>5, <1>8
    <3>2. p - Len(w) = Len(b)
      BY <3>1, <1>5, <1>9
    <3>3. p = Len(w) + Len(b)
      BY ONLY <3>2, <2>1, <1>2, <1>5
    <3>4. Len(w) + Len(b) = q[n + 1] - q[a]
      BY ONLY <1>1, <1>2, <1>5, <1>6, <1>7
    <3>5. n + 1 \in a + 1 .. n + 1
      BY <1>1
    <3> QED
      BY <3>3, <3>4, <3>5
  <2> QED
    BY <2>2, <2>3
<1>10. Carries(x, q, rs, a, n + 1)
  BY <1>3, <1>4, <1>8, <1>9 DEF Carries
<1> QED
  BY <1>10 DEF x, v, q

(* A read that ends with a last byte takes whole requests.                  *)
LEMMA CarriesRead ==
  ASSUME NEW rs \in Seq(AllRequests), NEW n \in 0 .. Len(rs), NEW pos, Laid(pos, rs, n),
         NEW a \in 0 .. n, NEW w, Carries(w, pos, rs, a, n),
         NEW k \in 1 .. Len(w), w[k].last
  PROVE  \E b \in a + 1 .. n :
           /\ Holds([i \in 1 .. k |-> w[i].byte], pos, rs, a, b)
           /\ Carries(SubSeq(w, k + 1, Len(w)), pos, rs, b, n)
<1>1. PICK b \in a + 1 .. n : k = pos[b] - pos[a]
  BY DEF Carries
<1>2. w \in Seq(WireByte) /\ Len(w) \in Nat /\ Holds(Data(w), pos, rs, a, n) /\ Len(Data(w)) = Len(w)
  BY DataSeq DEF Carries
<1>3. n \in Nat /\ a \in Nat /\ n \in a .. n /\ b \in a .. n /\ b \in 0 .. n /\ k \in 0 .. Len(w)
  BY <1>2, LenProperties
<1>4. /\ Holds(SubSeq(Data(w), 1, k), pos, rs, a, b)
      /\ Holds(SubSeq(Data(w), k + 1, Len(Data(w))), pos, rs, b, n)
  BY <1>1, <1>2, <1>3, HoldsSplit
<1> DEFINE v == SubSeq(w, k + 1, Len(w))
<1>5. /\ v \in Seq(WireByte) /\ Len(v) = Len(w) - k /\ \A i \in 1 .. Len(w) - k : v[i] = w[k + i]
      /\ Data(v) = SubSeq(Data(w), k + 1, Len(Data(w)))
      /\ [i \in 1 .. k |-> w[i].byte] = SubSeq(Data(w), 1, k)
  BY <1>2, <1>3, DataParts
<1> HIDE DEF v
<1>6. pos[a] \in Nat /\ pos[b] \in Nat
  BY <1>3 DEF Laid
<1>7. ASSUME NEW p \in 1 .. Len(v), v[p].last
      PROVE  \E j \in b + 1 .. n : p = pos[j] - pos[b]
  <2>1. k + p \in 1 .. Len(w) /\ w[k + p].last /\ p \in Nat /\ p > 0
    BY <1>2, <1>3, <1>5, <1>7
  <2>2. PICK j \in a + 1 .. n : k + p = pos[j] - pos[a]
    BY <2>1 DEF Carries
  <2>3. j \in 0 .. n /\ pos[j] \in Nat
    BY <1>3 DEF Laid
  <2>4. p = pos[j] - pos[b] /\ ~(pos[j] <= pos[b])
    <3>1. (pos[b] - pos[a]) + p = pos[j] - pos[a]
      BY <2>2, <1>1
    <3> QED
      BY ONLY SMTT(30), <3>1, <2>1, <2>3, <1>6
  <2>5. ~(j <= b)
    BY <2>3, <2>4, <1>3 DEF Laid
  <2>6. j \in b + 1 .. n
    BY <2>3, <2>5, <1>3
  <2> QED
    BY <2>4, <2>6
<1>8. Carries(v, pos, rs, b, n)
  BY <1>4, <1>5, <1>7 DEF Carries
<1>9. Holds([i \in 1 .. k |-> w[i].byte], pos, rs, a, b)
  BY <1>4, <1>5
<1> QED
  BY <1>8, <1>9 DEF v
(* The requests of a client, sent and to send. *)
ToSend(c) == [n \in 1 .. MaxRequests |-> Request(c, n)]

LEMMA ToSendSeq ==
  ASSUME NEW c \in Clients
  PROVE  /\ ToSend(c) \in Seq(AllRequests) /\ Len(ToSend(c)) = MaxRequests /\ MaxRequests \in Nat
         /\ \A i \in 1 .. MaxRequests : ToSend(c)[i] = Request(c, i)
<1>1. MaxRequests \in Nat
  BY ServerAssumption
<1>2. ToSend(c) \in [1 .. MaxRequests -> AllRequests]
  BY DEF ToSend, AllRequests
<1>3. ToSend(c) \in Seq(AllRequests) /\ Len(ToSend(c)) = MaxRequests
  BY <1>1, <1>2, Listed
<1> QED
  BY <1>1, <1>3 DEF ToSend

Stats == [connections_handled : Nat, requests_processed : Nat, errors_encountered : Nat]

(* The k-th request of c is Request(c, k). *)
Sent(c) ==
  /\ requests[c] \in Seq(AllRequests) /\ Len(requests[c]) <= MaxRequests
  /\ \A i \in 1 .. Len(requests[c]) : requests[c][i] = Request(c, i)

ClientsOK ==
  /\ DOMAIN requests = Clients /\ \A c \in Clients : Sent(c)
  /\ stream \in [Clients -> Seq(WireByte)]
  /\ hung_up \in [Clients -> BOOLEAN]

ServerOK ==
  /\ read_buffer \in Seq(Byte)
  /\ executed \in Seq(Range(executed))
  /\ stats \in Stats

Typed == TypeOK /\ ClientsOK /\ ServerOK

(* Inside handle_client there is a client. *)
LEMMA Serving ==
  ASSUME TypeOK, pc \in {"read", "feed", "loop", "consume"}
  PROVE  current \in Clients /\ current # NoClient
  BY DEF TypeOK

LEMMA SendSent ==
  ASSUME ClientsOK, NEW c \in Clients, Send(c)
  PROVE  /\ Len(requests[c]) \in 0 .. MaxRequests - 1 /\ Len(requests[c]) \in Nat
         /\ requests'[c] = Append(requests[c], Request(c, Len(requests[c]) + 1))
         /\ Len(requests'[c]) = Len(requests[c]) + 1
         /\ stream'[c] = stream[c] \o OnWire(Request(c, Len(requests[c]) + 1))
         /\ \A d \in Clients \ {c} : requests'[d] = requests[d] /\ stream'[d] = stream[d]
         /\ ClientsOK'
<1> DEFINE n == Len(requests[c])
           r == Request(c, n + 1)
<1>1. /\ requests[c] \in Seq(AllRequests) /\ n \in Nat /\ n < MaxRequests /\ MaxRequests \in Nat
      /\ \A i \in 1 .. n : requests[c][i] = Request(c, i)
  BY ServerAssumption, LenProperties DEF ClientsOK, Sent, Send
<1>2. n \in 0 .. MaxRequests - 1 /\ n + 1 \in 1 .. MaxRequests
  BY <1>1
<1>3. /\ requests' = [requests EXCEPT ![c] = Append(@, r)]
      /\ stream' = [stream EXCEPT ![c] = @ \o OnWire(r)]
      /\ hung_up' = hung_up
  BY DEF Send
<1>4. r \in AllRequests
  BY <1>2 DEF AllRequests
<1> HIDE DEF r
<1>5. /\ Append(requests[c], r) \in Seq(AllRequests) /\ Len(Append(requests[c], r)) = n + 1
      /\ \A i \in 1 .. n : Append(requests[c], r)[i] = requests[c][i]
      /\ Append(requests[c], r)[n + 1] = r
  BY <1>1, <1>4, AppendProperties
<1>6. /\ requests'[c] = Append(requests[c], r)
      /\ \A d \in Clients \ {c} : requests'[d] = requests[d]
      /\ DOMAIN requests' = Clients
  BY <1>3 DEF ClientsOK
<1>7. /\ stream'[c] = stream[c] \o OnWire(r)
      /\ \A d \in Clients \ {c} : stream'[d] = stream[d]
  BY <1>3 DEF ClientsOK
<1>8. OnWire(r) \in Seq(WireByte)
  <2>1. /\ ToSend(c) \in Seq(AllRequests) /\ n + 1 \in 1 .. Len(ToSend(c))
        /\ ToSend(c)[n + 1] = r
    BY <1>2, ToSendSeq DEF r
  <2>2. OnWire(ToSend(c)[n + 1]) \in Seq(WireByte)
    BY <2>1, OnWireBytes
  <2> QED
    BY <2>1, <2>2
<1>9. stream[c] \o OnWire(r) \in Seq(WireByte)
  BY <1>8, ConcatProperties DEF ClientsOK
<1>10. stream' \in [Clients -> Seq(WireByte)]
  BY <1>3, <1>9 DEF ClientsOK
<1>11. Sent(c)'
  <2>1. \A i \in 1 .. n + 1 : requests'[c][i] = Request(c, i)
    <3>1. ASSUME NEW i \in 1 .. n + 1 PROVE requests'[c][i] = Request(c, i)
      <4>1. i \in 1 .. n \/ i = n + 1
        BY <1>1
      <4> QED
        BY <4>1, <1>1, <1>5, <1>6 DEF r
    <3> QED
      BY <3>1
  <2>2. Len(requests'[c]) = n + 1 /\ n + 1 <= MaxRequests
    BY <1>1, <1>5, <1>6
  <2> QED
    BY <2>1, <2>2, <1>5, <1>6 DEF Sent
<1>12. ASSUME NEW d \in Clients \ {c} PROVE Sent(d)'
  BY <1>6 DEF Sent, ClientsOK
<1>13. ClientsOK'
  BY <1>3, <1>6, <1>10, <1>11, <1>12 DEF ClientsOK
<1> QED
  BY <1>1, <1>2, <1>5, <1>6, <1>7, <1>13 DEF r

LEMMA InitTyped == Init => Typed
<1> SUFFICES ASSUME Init PROVE Typed
  OBVIOUS
<1>1. <<>> \in Seq(AllRequests) /\ <<>> \in Seq(WireByte) /\ <<>> \in Seq(Byte) /\ Len(<<>>) = 0
  BY EmptySeq
<1>2. <<>> \in Seq(Range(<<>>))
  BY EmptySeq
<1>3. ClientsOK
  BY <1>1, ServerAssumption DEF Init, ClientsOK, Sent
<1>4. ServerOK
  BY <1>1, <1>2 DEF Init, ServerOK, Stats
<1>5. TypeOK
  BY <1>1, ServerAssumption DEF Init, TypeOK
<1> QED
  BY <1>3, <1>4, <1>5 DEF Typed

(* ClientConnection::read, and the bytes of the first n of the stream.      *)
LEMMA ReadBytes ==
  ASSUME Typed, NEW n \in 1 .. Len(stream[current]), read(n)
  PROVE  /\ n \in Nat /\ current \in Clients /\ stream[current] \in Seq(WireByte)
         /\ Received(n) \in Seq(Byte) /\ Len(Received(n)) = n
         /\ stream' = [stream EXCEPT ![current] = SubSeq(@, n + 1, Len(@))]
         /\ SubSeq(stream[current], n + 1, Len(stream[current])) \in Seq(WireByte)
<1>1. current \in Clients
  BY Serving DEF read, Typed
<1>2. stream[current] \in Seq(WireByte) /\ Len(stream[current]) \in Nat
  BY <1>1, LenProperties DEF Typed, ClientsOK
<1>3. n \in Nat /\ n \in 0 .. Len(stream[current])
  BY <1>2
<1>4. SubSeq(stream[current], n + 1, Len(stream[current])) \in Seq(WireByte)
  BY <1>2, <1>3, DataParts
<1>5. \A i \in 1 .. n : stream[current][i] \in WireByte
  BY <1>2, <1>3, ElementOfSeq
<1>6. Received(n) \in [1 .. n -> Byte]
  BY <1>5 DEF Received, WireByte
<1>7. Received(n) \in Seq(Byte) /\ Len(Received(n)) = n
  BY <1>3, <1>6, Listed
<1> QED
  BY <1>1, <1>2, <1>3, <1>4, <1>7 DEF read

(* The counters of CommandHandler. *)
LEMMA Counting ==
  ASSUME NEW s \in Stats
  PROVE  /\ [s EXCEPT !.connections_handled = @ + 1] \in Stats
         /\ [s EXCEPT !.connections_handled = @ + 1].requests_processed = s.requests_processed
         /\ [s EXCEPT !.connections_handled = @ + 1].errors_encountered = s.errors_encountered
         /\ [s EXCEPT !.errors_encountered = @ + 1] \in Stats
         /\ [s EXCEPT !.errors_encountered = @ + 1].requests_processed = s.requests_processed
         /\ [s EXCEPT !.requests_processed = @ + 1] \in Stats
         /\ [s EXCEPT !.requests_processed = @ + 1].requests_processed = s.requests_processed + 1
         /\ [s EXCEPT !.requests_processed = @ + 1].errors_encountered = s.errors_encountered
  BY DEF Stats

LEMMA CountingError ==
  ASSUME NEW s \in Stats
  PROVE  /\ [s EXCEPT !.requests_processed = @ + 1, !.errors_encountered = @ + 1] \in Stats
         /\ [s EXCEPT !.requests_processed = @ + 1, !.errors_encountered = @ + 1].requests_processed
              = s.requests_processed + 1
         /\ [s EXCEPT !.requests_processed = @ + 1, !.errors_encountered = @ + 1].errors_encountered # 0
<1> DEFINE t == [s EXCEPT !.requests_processed = @ + 1]
<1>1. t \in Stats /\ t.errors_encountered = s.errors_encountered
  BY DEF Stats
<1>2. [s EXCEPT !.requests_processed = @ + 1, !.errors_encountered = @ + 1]
        = [t EXCEPT !.errors_encountered = s.errors_encountered + 1]
  OBVIOUS
<1> HIDE DEF t
<1>3. [t EXCEPT !.errors_encountered = s.errors_encountered + 1] \in Stats
  BY <1>1 DEF Stats
<1> QED
  BY <1>2, <1>3 DEF Stats

(* One command more. *)
LEMMA Executes ==
  ASSUME ServerOK, NEW m, executed' = Append(executed, m)
  PROVE  /\ Len(executed) \in Nat /\ Len(executed') = Len(executed) + 1
         /\ executed' \in Seq(Range(executed'))
         /\ \A i \in 1 .. Len(executed) : executed'[i] = executed[i]
         /\ executed'[Len(executed) + 1] = m
<1> DEFINE S == Range(executed) \cup {m}
<1>1. executed \in Seq(S) /\ m \in S /\ Len(executed) \in Nat
  BY SeqMonotonic, LenProperties DEF ServerOK
<1> HIDE DEF S
<1>2. /\ Append(executed, m) \in Seq(S) /\ Len(Append(executed, m)) = Len(executed) + 1
      /\ \A i \in 1 .. Len(executed) : Append(executed, m)[i] = executed[i]
      /\ Append(executed, m)[Len(executed) + 1] = m
  BY <1>1, AppendProperties
<1>3. executed' \in Seq(Range(executed'))
  BY <1>2, SeqOfRange
<1> QED
  BY <1>1, <1>2, <1>3

LEMMA NextTyped == Typed /\ [Next]_vars => Typed'
<1> SUFFICES ASSUME Typed, [Next]_vars PROVE Typed'
  OBVIOUS
<1> USE DEF Typed
<1>0. <<>> \in Seq(Byte) /\ Len(<<>>) = 0 /\ MaxBufferSize \in Nat /\ NoClient \notin Clients
  BY EmptySeq, ServerAssumption
<1>e. Len(executed) \in Nat
  BY LenProperties DEF ServerOK
<1>1. CASE UNCHANGED vars
  BY <1>1 DEF vars, clientVars, handlerVars, stopVars, TypeOK, ClientsOK, Sent, ServerOK
<1>2. ASSUME NEW c \in Clients, Send(c) PROVE Typed'
  <2>1. ClientsOK'
    BY <1>2, SendSent
  <2>2. TypeOK' /\ ServerOK'
    BY <1>2 DEF Send, handlerVars, stopVars, TypeOK, ServerOK
  <2> QED
    BY <2>1, <2>2
<1>3. ASSUME NEW c \in Clients, HangUp(c) PROVE Typed'
  BY <1>3 DEF HangUp, handlerVars, stopVars, TypeOK, ClientsOK, Sent, ServerOK
<1>4. CASE stop
  BY <1>4 DEF stop, clientVars, handlerVars, TypeOK, ClientsOK, Sent, ServerOK
<1>5. CASE run_blocking \/ SetRunning \/ ClearStop \/ While \/ AcceptInvalid
  <2>1. UNCHANGED <<clientVars, handlerVars, waiting, current, read_buffer>>
    BY <1>5 DEF run_blocking, SetRunning, ClearStop, While, AcceptInvalid
  <2>2. ClientsOK' /\ ServerOK'
    BY <2>1 DEF clientVars, handlerVars, ClientsOK, Sent, ServerOK
  <2>3. /\ pc \notin {"read", "feed", "loop", "consume"}
        /\ pc' \in {"begin", "set", "start", "while", "accept", "stopped"}
    BY <1>5 DEF run_blocking, SetRunning, ClearStop, While, AcceptInvalid
  <2>4. TypeOK'
    BY <2>1, <2>3 DEF clientVars, handlerVars, TypeOK
  <2> QED
    BY <2>2, <2>4
<1>6. ASSUME NEW c \in waiting, accept(c) PROVE Typed'
  BY <1>0, <1>6 DEF accept, clientVars, handlerVars, stopVars, TypeOK, ClientsOK, Sent, ServerOK
<1>7. ASSUME NEW n \in 1 .. Len(stream[current]), read(n) PROVE Typed'
  <2>1. /\ n \in Nat /\ current \in Clients
        /\ Received(n) \in Seq(Byte) /\ Len(Received(n)) = n
        /\ stream' = [stream EXCEPT ![current] = SubSeq(@, n + 1, Len(@))]
        /\ SubSeq(stream[current], n + 1, Len(stream[current])) \in Seq(WireByte)
    BY <1>7, ReadBytes
  <2>2. ClientsOK'
    <3>1. stream' \in [Clients -> Seq(WireByte)]
      BY <2>1 DEF ClientsOK
    <3> QED
      BY <3>1, <1>7 DEF read, ClientsOK, Sent
  <2>3. /\ read_buffer \o Received(n) \in Seq(Byte)
        /\ Len(read_buffer \o Received(n)) = Len(read_buffer) + n
        /\ Len(read_buffer) \in Nat
    <3>1. read_buffer \in Seq(Byte)
      BY DEF ServerOK
    <3>2. /\ read_buffer \o Received(n) \in Seq(Byte)
          /\ Len(read_buffer \o Received(n)) = Len(read_buffer) + Len(Received(n))
      BY <3>1, <2>1, ConcatProperties
    <3> QED
      BY <3>1, <3>2, <2>1, LenProperties
  <2>4. UNCHANGED <<handlerVars, waiting>>
    BY <1>7 DEF read
  <2>5. \/ /\ read_buffer' = <<>> /\ current' = NoClient /\ pc' = "while"
        \/ /\ read_buffer' = read_buffer \o Received(n) /\ Len(read_buffer) + n <= MaxBufferSize
           /\ current' = current /\ pc' = "feed"
    BY <1>0, <1>7, <2>1, <2>3 DEF read, Close
  <2>6. ServerOK'
    BY <2>3, <2>4, <2>5, <1>0 DEF ServerOK, handlerVars
  <2>7. Len(read_buffer') <= MaxBufferSize
    BY <2>3, <2>5, <1>0
  <2>8. TypeOK'
    BY <2>1, <2>4, <2>5, <2>7, <1>0 DEF TypeOK, handlerVars
  <2> QED
    BY <2>2, <2>6, <2>8
<1>8. CASE ReadEnd
  <2>1. ClientsOK' /\ ServerOK'
    BY <1>0, <1>8 DEF ReadEnd, Close, clientVars, handlerVars, ClientsOK, Sent, ServerOK
  <2>2. TypeOK'
    BY <1>0, <1>8 DEF ReadEnd, Close, handlerVars, TypeOK
  <2> QED
    BY <2>1, <2>2
<1>9. CASE feed
  <2>1. ClientsOK' /\ ServerOK' /\ stats'.requests_processed = stats.requests_processed
    <3>1. stats' = [stats EXCEPT !.connections_handled = @ + 1]
      BY <1>9 DEF feed
    <3>2. stats' \in Stats /\ stats'.requests_processed = stats.requests_processed
      BY <3>1, Counting DEF ServerOK
    <3> QED
      BY <3>2, <1>9 DEF feed, clientVars, ClientsOK, Sent, ServerOK
  <2>2. TypeOK'
    BY <2>1, <1>e, <1>9 DEF feed, TypeOK
  <2> QED
    BY <2>1, <2>2
<1>10. CASE ParseFailed
  <2>1. ClientsOK' /\ ServerOK' /\ stats'.requests_processed = stats.requests_processed
    <3>1. stats' = [stats EXCEPT !.errors_encountered = @ + 1]
      BY <1>10 DEF ParseFailed
    <3>2. stats' \in Stats /\ stats'.requests_processed = stats.requests_processed
      BY <3>1, Counting DEF ServerOK
    <3> QED
      BY <3>2, <1>10 DEF ParseFailed, clientVars, ClientsOK, Sent, ServerOK
  <2>2. TypeOK'
    BY <2>1, <1>10 DEF ParseFailed, TypeOK
  <2> QED
    BY <2>1, <2>2
<1>11. CASE process_request
  <2> DEFINE m == parse_message(parser).msg
  <2>1. /\ pc = "loop" /\ executed' = Append(executed, m) /\ (Reply(m) \/ ReplyFailed \/ ReplyKills)
        /\ UNCHANGED <<clientVars, waiting, cut>>
    BY <1>11 DEF process_request
  <2>2. Len(executed') = Len(executed) + 1 /\ executed' \in Seq(Range(executed'))
    BY <2>1, Executes
  <2>3. stats' \in Stats /\ stats'.requests_processed = stats.requests_processed + 1
    <3>1. \/ stats' = [stats EXCEPT !.requests_processed = @ + 1]
          \/ stats' = [stats EXCEPT !.requests_processed = @ + 1, !.errors_encountered = @ + 1]
      BY <2>1 DEF Reply, ReplyFailed, ReplyKills
    <3> QED
      BY <3>1, Counting, CountingError DEF ServerOK
  <2>4. /\ \/ pc' \in {"loop", "consume"} /\ current' = current
           \/ pc' = "killed" /\ current' = NoClient
        /\ read_buffer' \in {read_buffer, <<>>}
        /\ messages_processed' \in {messages_processed, messages_processed + 1}
    BY <2>1 DEF Reply, ReplyFailed, ReplyKills
  <2>5. ClientsOK'
    BY <2>1 DEF clientVars, ClientsOK, Sent
  <2>6. ServerOK'
    BY <2>2, <2>3, <2>4, <1>0 DEF ServerOK
  <2>7. messages_processed' \in 0 .. Len(executed')
    BY <2>2, <2>4, <1>e DEF TypeOK
  <2>8. TypeOK'
    BY <2>1, <2>2, <2>3, <2>4, <2>7, <1>0 DEF TypeOK
  <2> QED
    BY <2>5, <2>6, <2>8
<1>12. CASE LoopDone
  BY <1>12 DEF LoopDone, clientVars, handlerVars, stopVars, TypeOK, ClientsOK, Sent, ServerOK
<1>13. CASE consume
  <2>1. ClientsOK' /\ ServerOK'
    BY <1>0, <1>13 DEF consume, Close, clientVars, handlerVars, ClientsOK, Sent, ServerOK
  <2>2. TypeOK'
    BY <1>0, <1>13 DEF consume, Close, handlerVars, TypeOK
  <2> QED
    BY <2>1, <2>2
<1> QED
  BY <1>1, <1>2, <1>3, <1>4, <1>5, <1>6, <1>7, <1>8, <1>9, <1>10, <1>11, <1>12, <1>13
     DEF Next, ServerStep

(* A client is served exactly inside TcpServer::handle_client, the read     *)
(* buffer never exceeds its limit, and every executed command is counted,   *)
(* whatever the protocol does with the bytes.                               *)
THEOREM TypeCorrect == Spec => []TypeOK
<1>1. Typed => TypeOK
  BY DEF Typed
<1> QED
  BY <1>1, InitTyped, NextTyped, PTL DEF Spec
-----------------------------------------------------------------------------
(* The invariant, as long as no read has cut a request.                     *)

(* m is a request that another client, gone since, sent. *)
Stray(c, m) ==
  \E d \in Clients \ {c} : hung_up[d] /\ \E i \in 1 .. Len(requests[d]) : m = Request(d, i)

(* A client was answered its first requests, after k that were not its own. *)
OwnAfter(c, k) ==
  /\ stats.errors_encountered = 0 => k = 0
  /\ \A i \in 1 .. k : Stray(c, replies[c][i])
  /\ Len(replies[c]) - k <= Len(requests[c])
  /\ \A i \in 1 .. Len(replies[c]) - k : replies[c][k + i] = Request(c, i)

OwnOf(c) == \E k \in 0 .. Len(replies[c]) : OwnAfter(c, k)

Own ==
  /\ replies \in [Clients -> Seq(AllRequests)]
  /\ \A c \in Clients \ {current} : OwnOf(c)

(* The stream of a client carries its requests after the first a. *)
Pending(c, pos, a) ==
  /\ a \in 0 .. Len(requests[c])
  /\ Laid(pos, ToSend(c), Len(requests[c]))
  /\ Carries(stream[c], pos, ToSend(c), a, Len(requests[c]))

Waits == \A c \in waiting : replies[c] = <<>> /\ \E pos : Pending(c, pos, 0)

(* q is all the parser was ever fed: the executed requests and those it     *)
(* still holds.                                                             *)
Queue(q, pos) ==
  /\ q \in Seq(AllRequests) /\ Laid(pos, q, Len(q))
  /\ Len(executed) <= Len(q)
  /\ \A p \in 1 .. Len(executed) : executed[p] = q[p]
  /\ Holds(parser, pos, q, Len(executed), Len(q))
  /\ \A p, j \in 1 .. Len(q) : q[p] = q[j] => p = j

(* Each was sent by an accepted client, those that are not executed by the  *)
(* current one, of which the first f are in q, or by one that is gone.      *)
From(q, f, j, d, i) ==
  /\ q[j] = Request(d, i) /\ i \in 1 .. Len(requests[d]) /\ d \notin waiting
  /\ d = current => i <= f
  /\ j > Len(executed) /\ d # current => hung_up[d]

Members(q, f) == \A j \in 1 .. Len(q) : \E d \in Clients, i \in Nat : From(q, f, j, d, i)

(* Nothing is left over between two clients unless a write has failed.      *)
Idle ==
  current = NoClient =>
    /\ read_buffer = <<>>
    /\ \E q, pos : /\ Queue(q, pos) /\ Members(q, 0)
                   /\ pc # "killed" /\ stats.errors_encountered = 0 => Len(executed) = Len(q)

(* The last f of q are the current client's; its replies are those of q     *)
(* from the s-th on.                                                        *)
Mine(q, f, s) ==
  /\ f \in 0 .. Len(requests[current]) /\ s \in 0 .. Len(q) - f
  /\ \A i \in 1 .. f : q[(Len(q) - f) + i] = Request(current, i)
  /\ \A j \in s + 1 .. Len(q) - f : Stray(current, q[j])
  /\ s + Len(replies[current]) <= Len(executed)
  /\ \A i \in 1 .. Len(replies[current]) : replies[current][i] = q[s + i]
  /\ stats.errors_encountered = 0 => s = Len(q) - f

(* Where its requests are: a are read, f fed. *)
InHand(q, pos, a, f, s) ==
  /\ pc = "read" => a = f /\ read_buffer = <<>>
  /\ pc \in {"read", "feed"} /\ stats.errors_encountered = 0 => Len(executed) = Len(q)
  /\ pc = "feed" => f < a /\ Holds(read_buffer, pos, ToSend(current), f, a)
  /\ pc = "loop" =>
       a = f /\ connection_ok = TRUE /\ (Len(executed) < Len(q) \/ messages_processed > 0)
  /\ pc = "consume" =>
       /\ a = f
       /\ connection_ok => Len(executed) = Len(q) /\ messages_processed > 0
       /\ ~connection_ok => hung_up[current] /\ stats.errors_encountered # 0
  /\ (pc = "consume" => connection_ok) => Len(executed) = s + Len(replies[current])

Served(q, qos, pos, a, f, s) ==
  /\ Queue(q, qos) /\ Members(q, f) /\ Mine(q, f, s)
  /\ Pending(current, pos, a) /\ f <= a
  /\ InHand(q, pos, a, f, s)

Serves == current # NoClient => \E q, qos, pos, a, f, s : Served(q, qos, pos, a, f, s)

Kept == Own /\ Waits /\ Idle /\ Serves

Whole == ~cut => Kept

(* The numbers of requests, replies and commands. *)
LEMMA Numbers ==
  ASSUME Typed, Own, NEW c \in Clients
  PROVE  /\ Len(requests[c]) \in Nat /\ Len(requests[c]) \in 0 .. MaxRequests
         /\ Len(replies[c]) \in Nat /\ replies[c] \in Seq(AllRequests)
         /\ Len(executed) \in Nat /\ stats.errors_encountered \in Nat
<1>1. requests[c] \in Seq(AllRequests) /\ Len(requests[c]) <= MaxRequests
  BY DEF Typed, ClientsOK, Sent
<1>2. replies[c] \in Seq(AllRequests)
  BY DEF Own
<1>3. /\ Len(requests[c]) \in Nat /\ Len(replies[c]) \in Nat /\ MaxRequests \in Nat
      /\ Len(executed) \in Nat
  BY <1>1, <1>2, LenProperties, ServerAssumption DEF Typed, ServerOK
<1> QED
  BY <1>1, <1>2, <1>3 DEF Typed, ServerOK, Stats

(* What the loop of handle_client finds in a parser that holds the requests *)
(* of q after the first e.                                                  *)
LEMMA LoopHead ==
  ASSUME RequestsFramed(Seq(Byte)),
         NEW q \in Seq(AllRequests), NEW l, l = Len(q), NEW pos, Laid(pos, q, l),
         NEW e \in 0 .. l, NEW s, Holds(s, pos, q, e, l)
  PROVE  /\ e < l => /\ has_message(s)
                     /\ parse_message(s).msg = q[e + 1]
                     /\ q[e + 1] # NullPtr /\ q[e + 1] \in AllRequests
                     /\ Holds(parse_message(s).rest, pos, q, e + 1, l)
         /\ e = l => s = <<>> /\ ~has_message(s)
<1>1. l \in Nat /\ e \in Nat /\ l \in 0 .. Len(q) /\ l \in e .. l
  BY LenProperties
<1>2. CASE e < l
  <2>1. PICK rest \in Seq(Byte) : s = Bytes(q, e + 1) \o rest /\ Holds(rest, pos, q, e + 1, l)
    BY <1>1, <1>2, HoldsFirst
  <2>2. q[e + 1] \in AllRequests
    BY <1>1, <1>2, ElementOfSeq
  <2>3. PICK c \in Clients, i \in 1 .. MaxRequests : q[e + 1] = Request(c, i)
    BY <2>2 DEF AllRequests
  <2>4. Framed(Request(c, i), rest) /\ Request(c, i) # NullPtr
    BY ServerAssumption DEF RequestsFramed
  <2>5. has_message(s) /\ parse_message(s) = [msg |-> q[e + 1], rest |-> rest]
    BY <2>1, <2>3, <2>4 DEF Framed, Bytes
  <2>6. parse_message(s).msg = q[e + 1] /\ parse_message(s).rest = rest
    BY <2>5
  <2> QED
    BY <1>1, <1>2, <2>1, <2>2, <2>3, <2>4, <2>5, <2>6
<1>3. CASE e = l
  <2>1. s = <<>>
    BY <1>1, <1>3, HoldsNone
  <2> QED
    BY <1>1, <1>3, <2>1 DEF RequestsFramed
<1> QED
  BY <1>1, <1>2, <1>3

(* No requests. *)
LEMMA InitWhole == Init => Whole
<1> SUFFICES ASSUME Init PROVE Kept
  BY DEF Whole
<1> DEFINE zero == [j \in 0 .. 0 |-> 0]
<1>1. /\ <<>> \in Seq(AllRequests) /\ <<>> \in Seq(WireByte) /\ <<>> \in Seq(Byte) /\ Len(<<>>) = 0
  BY EmptySeq
<1>2. Data(<<>>) = <<>>
  <2>1. Data(<<>>) \in Seq(Byte) /\ Len(Data(<<>>)) = 0
    BY <1>1, DataSeq
  <2> QED
    BY <2>1, EmptySeq
<1>3. ASSUME NEW rs \in Seq(AllRequests) PROVE Laid(zero, rs, 0) /\ Holds(<<>>, zero, rs, 0, 0)
  <2>1. Laid(zero, rs, 0)
    BY DEF Laid
  <2>2. 0 \in 0 .. Len(rs) /\ 0 \in 0 .. 0
    BY LenProperties
  <2> HIDE DEF zero
  <2> QED
    BY <2>1, <2>2, HoldsNone
<1> HIDE DEF zero
<1>4. Own
  <2>1. replies \in [Clients -> Seq(AllRequests)]
    BY <1>1 DEF Init
  <2>2. ASSUME NEW c \in Clients PROVE OwnOf(c)
    <3>1. replies[c] = <<>> /\ requests[c] = <<>> /\ Len(replies[c]) = 0 /\ Len(requests[c]) = 0
      BY <1>1 DEF Init
    <3>2. OwnAfter(c, 0)
      BY <3>1 DEF OwnAfter
    <3> QED
      BY <3>1, <3>2 DEF OwnOf
  <2> QED
    BY <2>1, <2>2 DEF Own
<1>5. Waits
  <2>1. ASSUME NEW c \in Clients PROVE Pending(c, zero, 0)
    <3>1. requests[c] = <<>> /\ stream[c] = <<>> /\ ToSend(c) \in Seq(AllRequests)
      BY ToSendSeq DEF Init
    <3>2. Carries(<<>>, zero, ToSend(c), 0, 0)
      BY <3>1, <1>1, <1>2, <1>3 DEF Carries
    <3> QED
      BY <3>1, <3>2, <1>1, <1>3 DEF Pending
  <2> QED
    BY <2>1 DEF Init, Waits
<1>6. Idle /\ Serves
  <2>1. Queue(<<>>, zero)
    <3>1. Laid(zero, <<>>, 0) /\ Holds(<<>>, zero, <<>>, 0, 0)
      BY <1>1, <1>3
    <3>2. executed = <<>> /\ parser = <<>> /\ 1 .. 0 = {}
      BY DEF Init
    <3> QED
      BY <1>1, <3>1, <3>2 DEF Queue
  <2>2. Members(<<>>, 0)
    BY <1>1 DEF Members
  <2>3. current = NoClient /\ read_buffer = <<>> /\ Len(executed) = Len(<<>>)
    BY DEF Init
  <2>4. Idle
    BY <2>1, <2>2, <2>3 DEF Idle
  <2> QED
    BY <2>3, <2>4 DEF Serves
<1> QED
  BY <1>4, <1>5, <1>6 DEF Kept

(* Requests and departures accumulate, and a failed write stays on record.  *)
Growing ==
  /\ \A d \in Clients : /\ Len(requests[d]) \in Nat /\ Len(requests'[d]) \in Nat
                        /\ Len(requests[d]) <= Len(requests'[d])
                        /\ hung_up[d] => hung_up'[d]
  /\ stats'.errors_encountered = 0 => stats.errors_encountered = 0

LEMMA StrayStays ==
  ASSUME Growing, NEW c, NEW m, Stray(c, m)
  PROVE  Stray(c, m)'
<1>1. PICK d \in Clients \ {c} : hung_up[d] /\ \E i \in 1 .. Len(requests[d]) : m = Request(d, i)
  BY DEF Stray
<1>2. PICK i \in 1 .. Len(requests[d]) : m = Request(d, i)
  BY <1>1
<1>3. i \in 1 .. Len(requests'[d]) /\ hung_up'[d]
  BY <1>1, <1>2 DEF Growing
<1> QED
  BY <1>2, <1>3 DEF Stray

LEMMA OwnStays ==
  ASSUME Growing, NEW c \in Clients, replies[c] \in Seq(AllRequests), replies'[c] = replies[c], OwnOf(c)
  PROVE  OwnOf(c)'
<1>1. PICK k \in 0 .. Len(replies[c]) : OwnAfter(c, k)
  BY DEF OwnOf
<1>2. \A i \in 1 .. k : Stray(c, replies[c][i])'
  BY <1>1, StrayStays DEF OwnAfter
<1>3. /\ stats'.errors_encountered = 0 => k = 0
      /\ Len(replies[c]) - k <= Len(requests'[c])
  BY <1>1, LenProperties DEF OwnAfter, Growing
<1>4. OwnAfter(c, k)'
  BY <1>1, <1>2, <1>3 DEF OwnAfter
<1> QED
  BY <1>4 DEF OwnOf

LEMMA MembersStay ==
  ASSUME Growing, waiting' \subseteq waiting, current' = current, executed' = executed,
         NEW q, NEW f, Members(q, f)
  PROVE  Members(q, f)'
<1>1. ASSUME NEW j \in 1 .. Len(q) PROVE \E d \in Clients, i \in Nat : From(q, f, j, d, i)'
  <2>1. PICK d \in Clients, i \in Nat : From(q, f, j, d, i)
    BY DEF Members
  <2>2. i \in 1 .. Len(requests'[d]) /\ (hung_up[d] => hung_up'[d])
    BY <2>1 DEF From, Growing
  <2>3. From(q, f, j, d, i)'
    BY <2>1, <2>2 DEF From
  <2> QED
    BY <2>3
<1> QED
  BY <1>1 DEF Members

(* Steps that only add requests to the streams of the clients, or departures,*)
(* or move the accept loop.                                                 *)
LEMMA KeptQuiet ==
  ASSUME Typed, Kept, Growing,
         UNCHANGED <<replies, waiting, current, read_buffer, parser, messages_processed,
                     connection_ok, executed, stats>>,
         current # NoClient => pc' = pc, pc' # "killed" => pc # "killed",
         \A c \in Clients : \A pos, a : Pending(c, pos, a) =>
           \E new : /\ Pending(c, new, a)'
                    /\ \A s, f : f \in 0 .. a /\ Holds(s, pos, ToSend(c), f, a) =>
                                   Holds(s, new, ToSend(c), f, a)
  PROVE  Kept'
<1>1. Own'
  <2>1. ASSUME NEW c \in Clients \ {current'} PROVE OwnOf(c)'
    <3>1. c \in Clients \ {current} /\ replies[c] \in Seq(AllRequests) /\ replies'[c] = replies[c]
      BY DEF Kept, Own
    <3>2. OwnOf(c)
      BY <3>1 DEF Kept, Own
    <3> QED
      BY <3>1, <3>2, OwnStays
  <2> QED
    BY <2>1 DEF Kept, Own
<1>2. Waits'
  <2>1. ASSUME NEW c \in waiting PROVE \E new : Pending(c, new, 0)'
    <3>1. c \in Clients
      BY DEF Typed, TypeOK
    <3>2. PICK pos : Pending(c, pos, 0)
      BY DEF Kept, Waits
    <3> QED
      BY <3>1, <3>2
  <2> QED
    BY <2>1 DEF Kept, Waits
<1>3. ASSUME NEW q, NEW f, Members(q, f) PROVE Members(q, f)'
  BY <1>3, MembersStay
<1>4. ASSUME NEW q, NEW pos, Queue(q, pos) PROVE Queue(q, pos)'
  BY <1>4 DEF Queue
<1>5. Idle'
  <2> SUFFICES ASSUME current = NoClient
               PROVE  /\ read_buffer = <<>>
                      /\ \E q, pos : /\ Queue(q, pos)' /\ Members(q, 0)'
                                     /\ pc' # "killed" /\ stats'.errors_encountered = 0 =>
                                          Len(executed') = Len(q)
    BY DEF Idle
  <2>1. PICK q, pos : /\ Queue(q, pos) /\ Members(q, 0)
                      /\ pc # "killed" /\ stats.errors_encountered = 0 => Len(executed) = Len(q)
    BY DEF Kept, Idle
  <2>2. Queue(q, pos)' /\ Members(q, 0)'
    BY <2>1, <1>3, <1>4
  <2> QED
    BY <2>1, <2>2 DEF Kept, Idle
<1>6. Serves'
  <2> SUFFICES ASSUME current # NoClient
               PROVE  \E q, qos, pos, a, f, s : Served(q, qos, pos, a, f, s)'
    BY DEF Serves
  <2>1. PICK q, qos, pos, a, f, s : Served(q, qos, pos, a, f, s)
    BY DEF Kept, Serves
  <2>c. current \in Clients
    BY DEF Typed, TypeOK
  <2>2. PICK new : /\ Pending(current, new, a)'
                   /\ \A t, g : g \in 0 .. a /\ Holds(t, pos, ToSend(current), g, a) =>
                                  Holds(t, new, ToSend(current), g, a)
    BY <2>1, <2>c DEF Served
  <2>3. Queue(q, qos)' /\ Members(q, f)'
    BY <2>1, <1>3, <1>4 DEF Served
  <2>4. Mine(q, f, s)'
    <3>1. Mine(q, f, s)
      BY <2>1 DEF Served
    <3>2. f \in 0 .. Len(requests'[current])
      BY <2>c, <3>1 DEF Mine, Growing
    <3>3. \A j \in s + 1 .. Len(q) - f : Stray(current, q[j])'
      BY <3>1, StrayStays DEF Mine
    <3> QED
      BY <3>1, <3>2, <3>3 DEF Mine
  <2>5. InHand(q, new, a, f, s)'
    <3>1. InHand(q, pos, a, f, s) /\ f <= a /\ f \in Nat /\ a \in Nat
      BY <2>1, <2>c, Numbers DEF Served, Mine, Pending, Kept
    <3>2. pc = "feed" => Holds(read_buffer, new, ToSend(current), f, a)
      BY <3>1, <2>2 DEF InHand
    <3>3. hung_up[current] => hung_up'[current]
      BY <2>c DEF Growing
    <3> QED
      BY <3>1, <3>2, <3>3 DEF InHand
  <2>6. f <= a
    BY <2>1 DEF Served
  <2>7. Served(q, qos, new, a, f, s)'
    BY <2>2, <2>3, <2>4, <2>5, <2>6 DEF Served
  <2> QED
    BY <2>7
<1> QED
  BY <1>1, <1>2, <1>5, <1>6 DEF Kept

(* In most steps the clients rest. *)
LEMMA Resting ==
  ASSUME Typed, Own, UNCHANGED <<requests, hung_up>>,
         stats'.errors_encountered = 0 => stats.errors_encountered = 0
  PROVE  Growing
<1>1. \A d \in Clients : Len(requests[d]) \in Nat
  BY Numbers
<1> QED
  BY <1>1 DEF Growing

LEMMA KeptStutter ==
  ASSUME Typed, Kept,
         UNCHANGED <<requests, stream, replies, waiting, current, read_buffer, parser,
                     messages_processed, connection_ok, executed, stats>>,
         current # NoClient => pc' = pc, pc' # "killed" => pc # "killed",
         \A d \in Clients : hung_up[d] => hung_up'[d]
  PROVE  Kept'
<1>1. \A d \in Clients : Len(requests[d]) \in Nat
  BY Numbers DEF Kept
<1>2. Growing
  BY <1>1 DEF Growing
<1>3. ASSUME NEW c \in Clients, NEW pos, NEW a, Pending(c, pos, a) PROVE Pending(c, pos, a)'
  BY <1>3 DEF Pending
<1> QED
  BY <1>2, <1>3, KeptQuiet

(* A request more in a stream. *)
LEMMA KeptSend ==
  ASSUME Typed, Kept, NEW c \in Clients, Send(c)
  PROVE  Kept'
<1>0. /\ UNCHANGED <<hung_up, replies, waiting, current, pc, read_buffer, parser, stats,
                     messages_processed, connection_ok, executed>>
  BY DEF Send, handlerVars
<1>n. PICK n : n = Len(requests[c])
  OBVIOUS
<1>1. /\ n \in 0 .. MaxRequests - 1 /\ n \in Nat
      /\ Len(requests'[c]) = n + 1
      /\ stream'[c] = stream[c] \o OnWire(Request(c, n + 1))
      /\ \A d \in Clients \ {c} : requests'[d] = requests[d] /\ stream'[d] = stream[d]
  BY <1>n, SendSent DEF Typed
<1>2. Growing
  <2>1. ASSUME NEW d \in Clients
        PROVE  Len(requests[d]) \in Nat /\ Len(requests'[d]) \in Nat /\ Len(requests[d]) <= Len(requests'[d])
    <3>1. Len(requests[d]) \in Nat
      BY Numbers DEF Kept
    <3> QED
      BY <3>1, <1>n, <1>1
  <2> QED
    BY <2>1, <1>0 DEF Growing
<1>3. ASSUME NEW d \in Clients, NEW pos, NEW a, Pending(d, pos, a)
      PROVE  \E new : /\ Pending(d, new, a)'
                      /\ \A s, f : f \in 0 .. a /\ Holds(s, pos, ToSend(d), f, a) =>
                                     Holds(s, new, ToSend(d), f, a)
  <2>1. CASE d # c
    <3>1. Pending(d, pos, a)'
      BY <2>1, <1>1, <1>3 DEF Pending
    <3> QED
      BY <3>1
  <2>2. CASE d = c
    <3> DEFINE rs == ToSend(c)
               new == More(pos, rs, n)
    <3>1. rs \in Seq(AllRequests) /\ n \in 0 .. Len(rs) - 1 /\ rs[n + 1] = Request(c, n + 1)
      BY <1>1, ToSendSeq
    <3>2. Laid(pos, rs, n) /\ Carries(stream[c], pos, rs, a, n) /\ a \in 0 .. n
      BY <1>n, <1>3, <2>2 DEF Pending
    <3> HIDE DEF rs
    <3>3. Laid(new, rs, n + 1)
      BY <3>1, <3>2, LaidMore
    <3>4. Carries(stream[c] \o OnWire(rs[n + 1]), new, rs, a, n + 1)
      BY <3>1, <3>2, CarriesMore
    <3>5. ASSUME NEW s, NEW f, f \in 0 .. a, Holds(s, pos, rs, f, a)
          PROVE  Holds(s, new, rs, f, a)
      <4>1. f \in 0 .. n /\ a \in f .. n
        BY <3>2, <3>5, <1>1
      <4> QED
        BY <4>1, <3>1, <3>2, <3>5, HoldsStill
    <3>6. a \in 0 .. n + 1
      BY <3>2, <1>1
    <3> HIDE DEF new
    <3>7. Pending(c, new, a)'
      BY <3>1, <3>3, <3>4, <3>6, <1>1 DEF Pending, rs
    <3>8. \A s, f : f \in 0 .. a /\ Holds(s, pos, rs, f, a) => Holds(s, new, rs, f, a)
      BY <3>5
    <3> QED
      BY <2>2, <3>7, <3>8 DEF rs
  <2> QED
    BY <2>1, <2>2
<1> QED
  BY <1>0, <1>2, <1>3, KeptQuiet

(* What was said of the client being served is what is said of the others.  *)
LEMMA OwnServed ==
  ASSUME Typed, Own, current \in Clients,
         NEW q, NEW qos, NEW pos, NEW a, NEW f, NEW s, Served(q, qos, pos, a, f, s)
  PROVE  OwnOf(current)
<1>1. PICK r, l, e : r = Len(replies[current]) /\ l = Len(q) /\ e = Len(executed)
  OBVIOUS
<1>2. /\ r \in Nat /\ e \in Nat /\ l \in Nat /\ e <= l
      /\ f \in 0 .. Len(requests[current]) /\ Len(requests[current]) \in Nat
      /\ s \in 0 .. l - f /\ s + r <= e
  BY <1>1, Numbers, LenProperties DEF Served, Queue, Mine
<1>3. PICK k : k = IF r <= (l - f) - s THEN r ELSE (l - f) - s
  OBVIOUS
<1>4. k \in 0 .. r /\ r - k <= f /\ r - k <= Len(requests[current]) /\ k <= (l - f) - s
  <2>1. f \in Nat /\ s \in Nat /\ f <= Len(requests[current]) /\ s <= l - f /\ s + r <= l
    BY <1>2
  <2>2. CASE r <= (l - f) - s
    BY <2>1, <2>2, <1>2, <1>3
  <2>3. CASE ~(r <= (l - f) - s)
    <3>1. k = (l - f) - s
      BY <2>3, <1>3
    <3> QED
      BY <2>1, <2>3, <3>1, <1>2
  <2> QED
    BY <2>2, <2>3
<1>5. ASSUME NEW i \in 1 .. k PROVE Stray(current, replies[current][i])
  <2>1. i \in 1 .. r /\ s + i \in s + 1 .. l - f
    BY <1>2, <1>4
  <2> QED
    BY <2>1, <1>1 DEF Served, Mine
<1>6. ASSUME NEW i \in 1 .. r - k PROVE replies[current][k + i] = Request(current, i)
  <2>1. k + i \in 1 .. r /\ i \in 1 .. f /\ s + (k + i) = (l - f) + i
    BY <1>2, <1>3, <1>4
  <2>2. replies[current][k + i] = q[s + (k + i)] /\ q[(l - f) + i] = Request(current, i)
    BY <2>1, <1>1 DEF Served, Mine
  <2> QED
    BY <2>1, <2>2
<1>7. stats.errors_encountered = 0 => k = 0
  <2>1. stats.errors_encountered = 0 => s = l - f
    BY <1>1 DEF Served, Mine
  <2> QED
    BY <2>1, <1>2, <1>3
<1>8. OwnAfter(current, k)
  BY <1>1, <1>4, <1>5, <1>6, <1>7 DEF OwnAfter
<1> QED
  BY <1>1, <1>4, <1>8 DEF OwnOf

LEMMA Current ==
  ASSUME Typed, Kept, current \in Clients
  PROVE  \E q, qos, pos, a, f, s : Served(q, qos, pos, a, f, s)
<1>1. current # NoClient
  BY ServerAssumption
<1> QED
  BY <1>1 DEF Kept, Serves

(* The bytes at hand, in numbers. *)
LEMMA ServedNumbers ==
  ASSUME Typed, Own, current \in Clients,
         NEW q, NEW qos, NEW pos, NEW a, NEW f, NEW s, Served(q, qos, pos, a, f, s)
  PROVE  /\ q \in Seq(AllRequests) /\ Len(q) \in Nat
         /\ Len(executed) \in Nat /\ Len(executed) \in 0 .. Len(q)
         /\ Len(requests[current]) \in Nat /\ Len(requests[current]) \in 0 .. MaxRequests
         /\ Len(replies[current]) \in Nat
         /\ f \in Nat /\ a \in Nat /\ f <= a /\ f \in 0 .. Len(requests[current])
         /\ a \in 0 .. Len(requests[current]) /\ a \in f .. Len(requests[current])
         /\ s \in Nat /\ s \in 0 .. Len(q) - f /\ s + Len(replies[current]) <= Len(executed)
<1>1. q \in Seq(AllRequests) /\ Len(q) \in Nat
  BY LenProperties DEF Served, Queue
<1>2. /\ Len(executed) \in Nat /\ Len(requests[current]) \in Nat /\ Len(replies[current]) \in Nat
      /\ Len(requests[current]) \in 0 .. MaxRequests
  BY Numbers
<1>3. Len(executed) <= Len(q)
  BY DEF Served, Queue
<1>4. /\ f \in 0 .. Len(requests[current]) /\ a \in 0 .. Len(requests[current]) /\ f <= a
      /\ s \in 0 .. Len(q) - f /\ s + Len(replies[current]) <= Len(executed)
  BY DEF Served, Mine, Pending
<1> QED
  BY <1>1, <1>2, <1>3, <1>4

(* The client served is let go, once it has gone. *)
LEMMA KeptGone ==
  ASSUME Typed, Kept, Growing, current \in Clients, hung_up[current],
         UNCHANGED <<requests, stream, hung_up, replies, waiting>>,
         current' = NoClient, read_buffer' = <<>>,
         NEW q, NEW qos, NEW f, Members(q, f), Queue(q, qos)',
         Len(executed) <= Len(executed'), Len(executed') \in Nat,
         pc' # "killed" /\ stats'.errors_encountered = 0 => Len(executed') = Len(q)
  PROVE  Kept'
<1>1. Own'
  <2>1. ASSUME NEW c \in Clients PROVE OwnOf(c)'
    <3>1. replies[c] \in Seq(AllRequests) /\ replies'[c] = replies[c]
      BY DEF Kept, Own
    <3>2. OwnOf(c)
      <4>1. CASE c # current
        BY <4>1 DEF Kept, Own
      <4>2. CASE c = current
        BY <4>2, Current, OwnServed DEF Kept
      <4> QED
        BY <4>1, <4>2
    <3> QED
      BY <3>1, <3>2, OwnStays
  <2> QED
    BY <2>1 DEF Kept, Own
<1>2. Waits'
  BY DEF Kept, Waits, Pending
<1>3. Members(q, 0)'
  <2>1. ASSUME NEW j \in 1 .. Len(q) PROVE \E d \in Clients, i \in Nat : From(q, 0, j, d, i)'
    <3>1. PICK d \in Clients, i \in Nat : From(q, f, j, d, i)
      BY DEF Members
    <3>2. d # current'
      BY ServerAssumption
    <3>3. j > Len(executed') => hung_up[d]
      <4>1. j \in Nat /\ Len(executed) \in Nat
        BY LenProperties DEF Typed, ServerOK
      <4>2. j > Len(executed') => j > Len(executed)
        BY <4>1
      <4> QED
        BY <4>2, <3>1 DEF From
    <3>4. From(q, 0, j, d, i)'
      BY <3>1, <3>2, <3>3 DEF From
    <3> QED
      BY <3>4
  <2> QED
    BY <2>1 DEF Members
<1>4. Idle'
  BY <1>3 DEF Idle
<1>5. Serves'
  BY DEF Serves
<1> QED
  BY <1>1, <1>2, <1>4, <1>5 DEF Kept

(* The others, while the client served goes on being served. *)
LEMMA KeptOthers ==
  ASSUME Typed, Kept, Growing, current \in Clients,
         UNCHANGED <<requests, hung_up, waiting, current>>,
         replies' \in [Clients -> Seq(AllRequests)],
         \A c \in Clients \ {current} : replies'[c] = replies[c] /\ stream'[c] = stream[c]
  PROVE  Own' /\ Waits' /\ Idle'
<1>1. Own'
  <2>1. ASSUME NEW c \in Clients \ {current} PROVE OwnOf(c)'
    <3>1. replies[c] \in Seq(AllRequests) /\ replies'[c] = replies[c] /\ OwnOf(c)
      BY DEF Kept, Own
    <3> QED
      BY <3>1, OwnStays
  <2> QED
    BY <2>1 DEF Own
<1>2. \A c \in waiting : c \in Clients \ {current}
  BY DEF Typed, TypeOK
<1>3. Waits'
  BY <1>2 DEF Kept, Waits, Pending
<1>4. Idle'
  BY ServerAssumption DEF Idle
<1> QED
  BY <1>1, <1>3, <1>4

LEMMA KeptAccept ==
  ASSUME Typed, Kept, NEW c \in waiting, accept(c)
  PROVE  Kept'
<1>0. /\ UNCHANGED <<requests, stream, hung_up, replies, read_buffer, parser,
                     messages_processed, connection_ok, executed, stats>>
      /\ waiting' = waiting \ {c} /\ current' = c /\ pc' = "read" /\ pc = "accept"
  BY DEF accept, clientVars, handlerVars
<1>1. c \in Clients /\ current = NoClient /\ NoClient \notin Clients
  BY <1>0, ServerAssumption DEF Typed, TypeOK
<1>2. Growing
  BY <1>0, Resting DEF Kept
<1>3. PICK q, qos : /\ Queue(q, qos) /\ Members(q, 0)
                    /\ stats.errors_encountered = 0 => Len(executed) = Len(q)
  BY <1>0, <1>1 DEF Kept, Idle
<1>4. read_buffer = <<>>
  BY <1>1 DEF Kept, Idle
<1>5. Own'
  <2>1. ASSUME NEW d \in Clients \ {current'} PROVE OwnOf(d)'
    <3>1. replies[d] \in Seq(AllRequests) /\ replies'[d] = replies[d] /\ OwnOf(d)
      BY <1>0, <1>1 DEF Kept, Own
    <3> QED
      BY <3>1, <1>2, OwnStays
  <2> QED
    BY <2>1, <1>0 DEF Kept, Own
<1>6. Waits'
  BY <1>0 DEF Kept, Waits, Pending
<1>7. Idle'
  BY <1>0, <1>1 DEF Idle
<1>e. PICK e : e = Len(executed)
  OBVIOUS
<1>8. /\ e \in Nat /\ Len(q) \in Nat /\ e <= Len(q) /\ Len(requests[c]) \in Nat
      /\ Len(replies[c]) = 0 /\ replies[c] = <<>> /\ q \in Seq(AllRequests)
  BY <1>1, <1>3, <1>e, Numbers, LenProperties, EmptySeq DEF Kept, Queue, Waits
<1>9. Members(q, 0)'
  <2>1. ASSUME NEW j \in 1 .. Len(q) PROVE \E d \in Clients, i \in Nat : From(q, 0, j, d, i)'
    <3>1. PICK d \in Clients, i \in Nat : From(q, 0, j, d, i)
      BY <1>3 DEF Members
    <3>2. d # c /\ d # current
      BY <3>1, <1>1 DEF From
    <3>3. From(q, 0, j, d, i)'
      BY <3>1, <3>2, <1>0 DEF From
    <3> QED
      BY <3>3
  <2> QED
    BY <2>1 DEF Members
<1>10. Mine(q, 0, e)'
  <2>1. ASSUME NEW j \in e + 1 .. Len(q) PROVE Stray(c, q[j])'
    <3>1. j \in 1 .. Len(q) /\ j > e
      BY <1>8
    <3>2. PICK d \in Clients, i \in Nat : From(q, 0, j, d, i)
      BY <3>1, <1>3 DEF Members
    <3>3. d # c /\ d # current /\ hung_up[d] /\ i \in 1 .. Len(requests[d]) /\ q[j] = Request(d, i)
      BY <3>1, <3>2, <1>1, <1>e DEF From
    <3> QED
      BY <3>3, <1>0 DEF Stray
  <2>2. /\ 0 \in 0 .. Len(requests'[c]) /\ e \in 0 .. Len(q) - 0 /\ Len(q) - 0 = Len(q)
        /\ Len(replies'[c]) = 0 /\ e + 0 <= Len(executed')
    BY <1>0, <1>8, <1>e
  <2>3. stats'.errors_encountered = 0 => e = Len(q) - 0
    BY <1>0, <1>3, <1>8, <1>e
  <2>4. 1 .. 0 = {} /\ 1 .. Len(replies'[c]) = {}
    BY <2>2
  <2> QED
    BY <2>1, <2>2, <2>3, <2>4, <1>0 DEF Mine
<1>11. PICK pos : Pending(c, pos, 0)
  BY DEF Kept, Waits
<1>12. Pending(c, pos, 0)' /\ Queue(q, qos)'
  BY <1>0, <1>3, <1>11 DEF Pending, Queue
<1>13. InHand(q, pos, 0, 0, e)'
  <2>1. Len(executed') = e + Len(replies'[current'])
    BY <1>0, <1>8, <1>e
  <2> QED
    BY <2>1, <1>0, <1>3, <1>4 DEF InHand
<1>14. Served(q, qos, pos, 0, 0, e)'
  BY <1>0, <1>9, <1>10, <1>12, <1>13 DEF Served
<1> QED
  BY <1>5, <1>6, <1>7, <1>14 DEF Kept, Serves

LEMMA KeptRead ==
  ASSUME Typed, Kept, NEW k \in 1 .. Len(stream[current]), read(k), stream[current][k].last
  PROVE  Kept'
<1>1. /\ k \in Nat /\ current \in Clients /\ stream[current] \in Seq(WireByte)
      /\ Received(k) \in Seq(Byte)
      /\ stream' = [stream EXCEPT ![current] = SubSeq(@, k + 1, Len(@))]
  BY ReadBytes
<1>2. PICK q, qos, pos, a, f, s : Served(q, qos, pos, a, f, s)
  BY <1>1, Current
<1>n. PICK n : n = Len(requests[current])
  OBVIOUS
<1>3. /\ n \in Nat /\ n \in 0 .. MaxRequests /\ a \in 0 .. n /\ a \in Nat /\ f \in Nat
  BY <1>1, <1>2, <1>n, ServedNumbers DEF Kept
<1>4. a = f /\ read_buffer = <<>> /\ pc = "read"
  BY <1>2 DEF read, Served, InHand
<1>5. /\ ToSend(current) \in Seq(AllRequests) /\ n \in 0 .. Len(ToSend(current))
      /\ Laid(pos, ToSend(current), n) /\ Carries(stream[current], pos, ToSend(current), a, n)
  BY <1>1, <1>2, <1>3, <1>n, ToSendSeq DEF Served, Pending
<1>6. PICK b \in a + 1 .. n :
        /\ Holds([i \in 1 .. k |-> stream[current][i].byte], pos, ToSend(current), a, b)
        /\ Carries(SubSeq(stream[current], k + 1, Len(stream[current])), pos, ToSend(current), b, n)
  BY <1>1, <1>3, <1>5, CarriesRead
<1>7. /\ UNCHANGED <<requests, hung_up, replies, waiting, current, parser,
                     messages_processed, connection_ok, executed, stats>>
      /\ pc' = "feed" /\ read_buffer' = Received(k)
  <2>1. Len(read_buffer) = 0 /\ read_buffer \o Received(k) = Received(k)
    BY <1>1, <1>4, EmptySeq, ConcatEmptySeq
  <2>2. ~(Len(read_buffer) + k > MaxBufferSize)
    BY <1>1, <2>1, ServerAssumption DEF read
  <2> QED
    BY <2>1, <2>2 DEF read, handlerVars
<1>8. Growing
  BY <1>7, Resting DEF Kept
<1>9. Own' /\ Waits' /\ Idle'
  <2>1. \A c \in Clients \ {current} : replies'[c] = replies[c] /\ stream'[c] = stream[c]
    BY <1>1, <1>7 DEF Typed, ClientsOK
  <2>2. replies' \in [Clients -> Seq(AllRequests)]
    BY <1>7 DEF Kept, Own
  <2> QED
    BY <2>1, <2>2, <1>1, <1>7, <1>8, KeptOthers
<1>10. stream'[current] = SubSeq(stream[current], k + 1, Len(stream[current]))
  BY <1>1 DEF Typed, ClientsOK
<1>11. b \in 0 .. n /\ f < b /\ f <= b
  BY <1>3, <1>4
<1>12. Pending(current, pos, b)'
  BY <1>5, <1>6, <1>7, <1>10, <1>11, <1>n DEF Pending
<1>13. Queue(q, qos)' /\ Members(q, f)'
  BY <1>2, <1>7, <1>8, MembersStay DEF Served, Queue
<1>14. Mine(q, f, s)'
  BY <1>2, <1>7 DEF Served, Mine, Stray
<1>15. InHand(q, pos, b, f, s)'
  <2>1. Holds(read_buffer', pos, ToSend(current), f, b)
    BY <1>4, <1>6, <1>7 DEF Received
  <2>2. InHand(q, pos, a, f, s)
    BY <1>2 DEF Served
  <2> QED
    BY <2>1, <2>2, <1>4, <1>7, <1>11 DEF InHand
<1>16. Served(q, qos, pos, b, f, s)'
  BY <1>11, <1>12, <1>13, <1>14, <1>15, <1>7 DEF Served
<1> QED
  BY <1>9, <1>16 DEF Kept, Serves

LEMMA KeptReadEnd ==
  ASSUME Typed, Kept, ReadEnd
  PROVE  Kept'
<1>0. /\ pc = "read" /\ hung_up[current] /\ current' = NoClient /\ read_buffer' = <<>> /\ pc' = "while"
      /\ UNCHANGED <<requests, stream, hung_up, replies, waiting, parser, executed, stats>>
  BY DEF ReadEnd, Close, clientVars, handlerVars
<1>1. current \in Clients
  BY <1>0, Serving DEF Typed
<1>2. PICK q, qos, pos, a, f, s : Served(q, qos, pos, a, f, s)
  BY <1>1, Current
<1>3. Queue(q, qos)' /\ Members(q, f)
  BY <1>0, <1>2 DEF Served, Queue
<1>4. stats'.errors_encountered = 0 => Len(executed') = Len(q)
  BY <1>0, <1>2 DEF Served, InHand
<1>5. Len(executed) <= Len(executed') /\ Len(executed') \in Nat
  BY <1>0, <1>1, Numbers DEF Kept
<1>6. Growing
  BY <1>0, Resting DEF Kept
<1> QED
  BY <1>0, <1>1, <1>3, <1>4, <1>5, <1>6, KeptGone

(* The first requests of rs, and after them those of ts that are read.      *)
LEMMA JoinedExists ==
  ASSUME NEW rs \in Seq(AllRequests), NEW ts \in Seq(AllRequests),
         NEW f \in 0 .. Len(ts), NEW a \in f .. Len(ts)
  PROVE  \E us : Joined(us, rs, ts, f, a)
<1> DEFINE x == [j \in 1 .. a - f |-> ts[f + j]]
<1>1. a - f \in Nat /\ f \in Nat /\ Len(ts) \in Nat /\ a <= Len(ts) /\ Len(rs) \in Nat
  BY LenProperties
<1>2. ASSUME NEW j \in 1 .. a - f PROVE ts[f + j] \in AllRequests
  <2>1. f + j \in 1 .. Len(ts)
    BY <1>1
  <2> QED
    BY <2>1, ElementOfSeq
<1>3. x \in [1 .. a - f -> AllRequests]
  BY <1>2
<1>4. x \in Seq(AllRequests) /\ Len(x) = a - f /\ \A j \in 1 .. a - f : x[j] = ts[f + j]
  BY <1>1, <1>3, Listed
<1> HIDE DEF x
<1>5. /\ rs \o x \in Seq(AllRequests) /\ Len(rs \o x) = Len(rs) + (a - f)
      /\ \A i \in 1 .. Len(rs) + (a - f) :
           (rs \o x)[i] = IF i <= Len(rs) THEN rs[i] ELSE x[i - Len(rs)]
  <2>1. /\ rs \o x \in Seq(AllRequests) /\ Len(rs \o x) = Len(rs) + Len(x)
        /\ \A i \in 1 .. Len(rs) + Len(x) :
             (rs \o x)[i] = IF i <= Len(rs) THEN rs[i] ELSE x[i - Len(rs)]
    BY <1>4, ConcatProperties
  <2> QED
    BY <2>1, <1>4
<1>6. \A j \in 1 .. Len(rs) : (rs \o x)[j] = rs[j]
  <2>1. \A j \in 1 .. Len(rs) : j \in 1 .. Len(rs) + (a - f) /\ j <= Len(rs)
    BY <1>1
  <2> QED
    BY <2>1, <1>5
<1>7. ASSUME NEW j \in 1 .. a - f PROVE (rs \o x)[Len(rs) + j] = ts[f + j]
  <2>1. /\ Len(rs) + j \in 1 .. Len(rs) + (a - f) /\ ~(Len(rs) + j <= Len(rs))
        /\ (Len(rs) + j) - Len(rs) = j
    BY <1>1
  <2> QED
    BY <2>1, <1>4, <1>5
<1> QED
  BY <1>5, <1>6, <1>7 DEF Joined

(* The read buffer follows, in the parser, what earlier clients left there. *)
LEMMA KeptFeed ==
  ASSUME Typed, Kept, feed
  PROVE  Kept'
<1>0. /\ UNCHANGED <<requests, stream, hung_up, replies, waiting, current, read_buffer, executed>>
      /\ pc = "feed" /\ pc' = "loop" /\ connection_ok' = TRUE /\ parser' = parser \o read_buffer
      /\ stats' = [stats EXCEPT !.connections_handled = @ + 1]
  BY DEF feed, clientVars
<1>1. current \in Clients /\ current # NoClient
  BY <1>0, Serving DEF Typed
<1>2. PICK q, qos, pos, a, f, s : Served(q, qos, pos, a, f, s)
  BY <1>1, Current
<1>n. PICK n, l, e : n = Len(requests[current]) /\ l = Len(q) /\ e = Len(executed)
  OBVIOUS
<1>3. /\ n \in Nat /\ n \in 0 .. MaxRequests /\ l \in Nat /\ e \in Nat /\ e \in 0 .. l
      /\ a \in Nat /\ f \in Nat /\ f \in 0 .. n /\ a \in f .. n /\ a \in 0 .. n
      /\ q \in Seq(AllRequests) /\ s \in Nat /\ s \in 0 .. l - f
      /\ s + Len(replies[current]) <= e /\ Len(replies[current]) \in Nat
  BY <1>1, <1>2, <1>n, ServedNumbers DEF Kept
<1>4. f < a /\ Holds(read_buffer, pos, ToSend(current), f, a)
  BY <1>0, <1>2 DEF Served, InHand
<1>5. /\ ToSend(current) \in Seq(AllRequests) /\ Len(ToSend(current)) = MaxRequests
      /\ \A i \in 1 .. MaxRequests : ToSend(current)[i] = Request(current, i)
      /\ n \in 0 .. Len(ToSend(current)) /\ Laid(pos, ToSend(current), n) /\ MaxRequests \in Nat
  BY <1>1, <1>2, <1>3, <1>n, ToSendSeq DEF Served, Pending
<1>6. /\ Laid(qos, q, l) /\ Holds(parser, qos, q, e, l)
      /\ \A p \in 1 .. e : executed[p] = q[p]
      /\ \A p, j \in 1 .. l : q[p] = q[j] => p = j
  BY <1>2, <1>n DEF Served, Queue
<1>7. PICK us : Joined(us, q, ToSend(current), f, a)
  <2>1. f \in 0 .. Len(ToSend(current)) /\ a \in f .. Len(ToSend(current))
    BY <1>3, <1>5
  <2> QED
    BY <2>1, <1>3, <1>5, JoinedExists
<1>8. /\ us \in Seq(AllRequests) /\ Len(us) = l + (a - f)
      /\ \A j \in 1 .. l : us[j] = q[j]
      /\ \A j \in 1 .. a - f : us[l + j] = Request(current, f + j)
  <2>1. ASSUME NEW j \in 1 .. a - f PROVE us[l + j] = Request(current, f + j)
    <3>1. f + j \in 1 .. MaxRequests
      BY <1>3, <1>5
    <3>2. us[l + j] = ToSend(current)[f + j]
      BY <1>7, <1>n DEF Joined
    <3> QED
      BY <3>1, <3>2, <1>5
  <2> QED
    BY <2>1, <1>7, <1>n DEF Joined
<1>9. PICK u : u = l + (a - f)
  OBVIOUS
<1>10. u \in Nat /\ u - a = l - f /\ l < u /\ e < u /\ e <= u
  BY <1>3, <1>4, <1>9
<1>11. ASSUME NEW j \in 1 .. u
       PROVE  j \in 1 .. l \/ \E i \in f + 1 .. a : j = (l - f) + i /\ us[j] = Request(current, i)
  <2>1. CASE j <= l
    BY <2>1, <1>3
  <2>2. CASE ~(j <= l)
    <3>1. PICK i : i = j - (l - f)
      OBVIOUS
    <3>2. i \in f + 1 .. a /\ j = (l - f) + i /\ i - f \in 1 .. a - f /\ l + (i - f) = j /\ f + (i - f) = i
      BY <3>1, <2>2, <1>3, <1>9
    <3>3. us[l + (i - f)] = Request(current, f + (i - f))
      BY <3>2, <1>8
    <3> QED
      BY <3>2, <3>3
  <2> QED
    BY <2>1, <2>2
<1>12. Growing
  <2>1. stats'.errors_encountered = stats.errors_encountered
    BY <1>0, Counting DEF Typed, ServerOK
  <2> QED
    BY <2>1, <1>0, Resting DEF Kept
<1>13. Own' /\ Waits' /\ Idle'
  <2>1. replies' \in [Clients -> Seq(AllRequests)]
    BY <1>0 DEF Kept, Own
  <2> QED
    BY <2>1, <1>0, <1>1, <1>12, KeptOthers
<1>14. ASSUME NEW j \in 1 .. l PROVE \E d \in Clients, i \in Nat : From(q, f, j, d, i) /\ us[j] = Request(d, i)
  <2>1. PICK d \in Clients, i \in Nat : From(q, f, j, d, i)
    BY <1>2, <1>n DEF Served, Members
  <2> QED
    BY <2>1, <1>8 DEF From
<1>15. ASSUME NEW j \in 1 .. l, NEW i \in f + 1 .. a PROVE us[j] # Request(current, i)
  <2>1. PICK d \in Clients, g \in Nat : From(q, f, j, d, g) /\ us[j] = Request(d, g)
    BY <1>14
  <2>2. g \in 1 .. MaxRequests /\ i \in 1 .. MaxRequests
    <3>1. Len(requests[d]) \in 0 .. MaxRequests /\ g \in 1 .. Len(requests[d])
      BY <2>1, Numbers DEF Kept, From
    <3> QED
      BY <3>1, <1>3, <1>5
  <2>3. ~(d = current /\ g = i)
    BY <2>1, <1>3 DEF From
  <2> QED
    BY <2>1, <2>2, <2>3, <1>1, ServerAssumption
<1>16. ASSUME NEW p \in 1 .. u, NEW j \in 1 .. u, us[p] = us[j] PROVE p = j
  <2>1. CASE p \in 1 .. l /\ j \in 1 .. l
    BY <2>1, <1>6, <1>8, <1>16
  <2>2. CASE p \in 1 .. l /\ j \notin 1 .. l
    BY <2>2, <1>11, <1>15, <1>16
  <2>3. CASE p \notin 1 .. l /\ j \in 1 .. l
    BY <2>3, <1>11, <1>15, <1>16
  <2>4. CASE p \notin 1 .. l /\ j \notin 1 .. l
    <3>1. PICK i \in f + 1 .. a : p = (l - f) + i /\ us[p] = Request(current, i)
      BY <2>4, <1>11
    <3>2. PICK g \in f + 1 .. a : j = (l - f) + g /\ us[j] = Request(current, g)
      BY <2>4, <1>11
    <3>3. i \in 1 .. MaxRequests /\ g \in 1 .. MaxRequests
      BY <1>3, <1>5
    <3>4. Request(current, i) = Request(current, g)
      BY <3>1, <3>2, <1>16
    <3>5. i = g
      BY <3>3, <3>4, <1>1, ServerAssumption
    <3> QED
      BY <3>1, <3>2, <3>5
  <2> QED
    BY <2>1, <2>2, <2>3, <2>4
<1>17. Queue(us, Joint(qos, l, pos, f, a))'
  <2>1. /\ Laid(Joint(qos, l, pos, f, a), us, Len(us))
        /\ Holds(parser \o read_buffer, Joint(qos, l, pos, f, a), us, e, Len(us))
    BY <1>3, <1>4, <1>5, <1>6, <1>7, <1>n, HoldsJoined
  <2>2. \A p \in 1 .. e : executed'[p] = us[p]
    <3>1. \A p \in 1 .. e : p \in 1 .. l
      BY <1>3
    <3> QED
      BY <3>1, <1>0, <1>6, <1>8
  <2>3. Len(us) = u /\ e = Len(executed')
    BY <1>0, <1>8, <1>9, <1>n
  <2> QED
    BY <2>1, <2>2, <2>3, <1>0, <1>8, <1>10, <1>16 DEF Queue
<1>18. Members(us, a)'
  <2>1. ASSUME NEW j \in 1 .. u PROVE \E d \in Clients, i \in Nat : From(us, a, j, d, i)'
    <3>1. CASE j \in 1 .. l
      <4>1. PICK d \in Clients, i \in Nat : From(q, f, j, d, i) /\ us[j] = Request(d, i)
        BY <3>1, <1>14
      <4>2. i <= f => i <= a
        BY <1>3
      <4>3. From(us, a, j, d, i)'
        BY <4>1, <4>2, <1>0 DEF From
      <4> QED
        BY <4>3
    <3>2. CASE j \notin 1 .. l
      <4>1. PICK i \in f + 1 .. a : us[j] = Request(current, i)
        BY <3>2, <1>11
      <4>c. PICK c \in Clients : c = current
        BY <1>1
      <4>2. i \in Nat /\ i \in 1 .. Len(requests[c]) /\ i <= a
        BY <4>c, <1>3, <1>n
      <4>3. c \notin waiting
        BY <4>c DEF Typed, TypeOK
      <4>4. From(us, a, j, c, i)'
        BY <4>1, <4>2, <4>3, <4>c, <1>0 DEF From
      <4> QED
        BY <4>2, <4>4
    <3> QED
      BY <3>1, <3>2
  <2> QED
    BY <2>1, <1>8, <1>9 DEF Members
<1>19. Mine(us, a, s)'
  <2>0. Mine(q, f, s)
    BY <1>2 DEF Served
  <2>1. ASSUME NEW i \in 1 .. a PROVE us[(u - a) + i] = Request(current, i)
    <3>1. CASE i <= f
      <4>1. i \in 1 .. f /\ (l - f) + i \in 1 .. l
        BY <3>1, <1>3
      <4>2. q[(l - f) + i] = Request(current, i)
        BY <4>1, <2>0, <1>n DEF Mine
      <4> QED
        BY <4>1, <4>2, <1>8, <1>10
    <3>2. CASE ~(i <= f)
      <4>1. i - f \in 1 .. a - f /\ l + (i - f) = (l - f) + i /\ f + (i - f) = i
        BY <3>2, <1>3
      <4>2. us[l + (i - f)] = Request(current, f + (i - f))
        BY <4>1, <1>8
      <4> QED
        BY <4>1, <4>2, <1>10
    <3> QED
      BY <3>1, <3>2
  <2>2. ASSUME NEW j \in s + 1 .. l - f PROVE Stray(current, us[j])'
    <3>1. j \in 1 .. l
      BY <1>3
    <3>2. Stray(current, q[j])
      BY <2>0, <1>n DEF Mine
    <3> QED
      BY <3>1, <3>2, <1>0, <1>8 DEF Stray
  <2>3. ASSUME NEW i \in 1 .. Len(replies[current]) PROVE replies[current][i] = us[s + i]
    <3>1. s + i \in 1 .. l
      BY <1>3
    <3>2. replies[current][i] = q[s + i]
      BY <2>0 DEF Mine
    <3> QED
      BY <3>1, <3>2, <1>8
  <2>4. stats'.errors_encountered = 0 => s = u - a
    BY <2>0, <1>10, <1>12, <1>n DEF Mine, Growing
  <2>5. Len(us) = u
    BY <1>8, <1>9
  <2> QED
    BY <2>1, <2>2, <2>3, <2>4, <2>5, <1>0, <1>3, <1>10, <1>n DEF Mine
<1>20. InHand(us, pos, a, a, s)'
  <2>1. Len(executed) = s + Len(replies[current])
    BY <1>0, <1>2 DEF Served, InHand
  <2>2. Len(executed') < Len(us)
    BY <1>0, <1>8, <1>9, <1>10, <1>n
  <2> QED
    BY <2>1, <2>2, <1>0 DEF InHand
<1>21. Pending(current, pos, a)' /\ a <= a
  BY <1>0, <1>2, <1>3 DEF Served, Pending
<1>22. Served(us, Joint(qos, l, pos, f, a), pos, a, a, s)'
  BY <1>0, <1>17, <1>18, <1>19, <1>20, <1>21 DEF Served
<1> QED
  BY <1>13, <1>22 DEF Kept, Serves

LEMMA KeptConsume ==
  ASSUME Typed, Kept, consume
  PROVE  Kept'
<1>0. /\ UNCHANGED <<requests, stream, hung_up, replies, waiting, parser,
                     messages_processed, connection_ok, executed, stats>>
      /\ pc = "consume"
  BY DEF consume, clientVars, handlerVars
<1>1. current \in Clients /\ current # NoClient
  BY <1>0, Serving DEF Typed
<1>2. PICK q, qos, pos, a, f, s : Served(q, qos, pos, a, f, s)
  BY <1>1, Current
<1>3. /\ a = f /\ (connection_ok => Len(executed) = Len(q) /\ messages_processed > 0)
      /\ ~connection_ok => hung_up[current] /\ stats.errors_encountered # 0
      /\ connection_ok => Len(executed) = s + Len(replies[current])
  BY <1>0, <1>2 DEF Served, InHand
<1>4. Growing
  BY <1>0, Resting DEF Kept
<1>5. Queue(q, qos)'
  BY <1>0, <1>2 DEF Served, Queue
<1>6. CASE ~connection_ok
  <2>1. current' = NoClient /\ read_buffer' = <<>> /\ pc' = "while"
    BY <1>6 DEF consume, Close
  <2>2. Len(executed) <= Len(executed') /\ Len(executed') \in Nat
    BY <1>0, <1>1, Numbers DEF Kept
  <2>3. Members(q, f) /\ stats'.errors_encountered # 0
    BY <1>0, <1>2, <1>3, <1>6 DEF Served
  <2> QED
    BY <2>1, <2>2, <2>3, <1>0, <1>1, <1>3, <1>4, <1>5, <1>6, KeptGone
<1>7. CASE connection_ok
  <2>1. pc' = "read" /\ read_buffer' = <<>> /\ current' = current
    BY <1>3, <1>7 DEF consume
  <2>2. Own' /\ Waits' /\ Idle'
    <3>1. replies' \in [Clients -> Seq(AllRequests)]
      BY <1>0 DEF Kept, Own
    <3> QED
      BY <3>1, <2>1, <1>0, <1>1, <1>4, KeptOthers
  <2>3. Members(q, f)'
    BY <2>1, <1>0, <1>2, <1>4, MembersStay DEF Served
  <2>4. Mine(q, f, s)' /\ Pending(current, pos, a)' /\ f <= a
    BY <2>1, <1>0, <1>2 DEF Served, Mine, Stray, Pending
  <2>5. InHand(q, pos, a, f, s)'
    BY <2>1, <1>0, <1>3, <1>7 DEF InHand
  <2>6. Served(q, qos, pos, a, f, s)'
    BY <2>1, <2>3, <2>4, <2>5, <1>5 DEF Served
  <2> QED
    BY <2>2, <2>6 DEF Kept, Serves
<1> QED
  BY <1>6, <1>7

(* The loop: what the parser holds is whole requests. *)
LEMMA InLoop ==
  ASSUME RequestsFramed(Seq(Byte)), Typed, Own, current \in Clients,
         NEW q, NEW qos, NEW pos, NEW a, NEW f, NEW s, Served(q, qos, pos, a, f, s)
  PROVE  /\ Len(executed) \in Nat /\ Len(q) \in Nat /\ Len(executed) <= Len(q)
         /\ Len(executed) < Len(q) =>
              /\ has_message(parser)
              /\ parse_message(parser).msg = q[Len(executed) + 1]
              /\ q[Len(executed) + 1] # NullPtr /\ q[Len(executed) + 1] \in AllRequests
              /\ Holds(parse_message(parser).rest, qos, q, Len(executed) + 1, Len(q))
         /\ Len(executed) = Len(q) => ~has_message(parser)
<1>1. PICK l, e : l = Len(q) /\ e = Len(executed)
  OBVIOUS
<1>2. e \in Nat /\ l \in Nat /\ e <= l /\ e \in 0 .. l /\ q \in Seq(AllRequests)
  BY <1>1, ServedNumbers
<1>3. Laid(qos, q, l) /\ Holds(parser, qos, q, e, l)
  BY <1>1 DEF Served, Queue
<1>4. /\ e < l => /\ has_message(parser)
                  /\ parse_message(parser).msg = q[e + 1]
                  /\ q[e + 1] # NullPtr /\ q[e + 1] \in AllRequests
                  /\ Holds(parse_message(parser).rest, qos, q, e + 1, l)
      /\ e = l => ~has_message(parser)
  BY <1>1, <1>2, <1>3, LoopHead
<1> QED
  BY <1>1, <1>2, <1>4

(* has_message announces whole requests only, so parse_message never fails, *)
(* and the loop ends with an empty parser.                                  *)
LEMMA KeptLoopDone ==
  ASSUME RequestsFramed(Seq(Byte)), Typed, Kept, LoopDone
  PROVE  Kept'
<1>0. /\ UNCHANGED <<requests, stream, hung_up, replies, waiting, current, read_buffer, parser,
                     messages_processed, connection_ok, executed, stats>>
      /\ pc = "loop" /\ pc' = "consume" /\ ~has_message(parser)
  BY DEF LoopDone, clientVars, handlerVars
<1>1. current \in Clients /\ current # NoClient
  BY <1>0, Serving DEF Typed
<1>2. PICK q, qos, pos, a, f, s : Served(q, qos, pos, a, f, s)
  BY <1>1, Current
<1>3. /\ a = f /\ (Len(executed) < Len(q) \/ messages_processed > 0) /\ connection_ok = TRUE
      /\ Len(executed) = s + Len(replies[current])
  BY <1>0, <1>2 DEF Served, InHand
<1>4. Len(executed) = Len(q) /\ ~(Len(executed) < Len(q))
  <2>1. /\ Len(executed) \in Nat /\ Len(q) \in Nat /\ Len(executed) <= Len(q)
        /\ Len(executed) < Len(q) => has_message(parser)
    BY <1>1, <1>2, InLoop DEF Kept
  <2> QED
    BY <2>1, <1>0
<1>5. messages_processed > 0
  BY <1>3, <1>4
<1>6. Growing
  BY <1>0, Resting DEF Kept
<1>7. Own' /\ Waits' /\ Idle'
  <2>1. replies' \in [Clients -> Seq(AllRequests)]
    BY <1>0 DEF Kept, Own
  <2> QED
    BY <2>1, <1>0, <1>1, <1>6, KeptOthers
<1>8. Queue(q, qos)' /\ Members(q, f)'
  BY <1>0, <1>2, <1>6, MembersStay DEF Served, Queue
<1>9. Mine(q, f, s)' /\ Pending(current, pos, a)' /\ f <= a
  BY <1>0, <1>2 DEF Served, Mine, Stray, Pending
<1>10. InHand(q, pos, a, f, s)'
  BY <1>0, <1>3, <1>4, <1>5 DEF InHand
<1>11. Served(q, qos, pos, a, f, s)'
  BY <1>0, <1>8, <1>9, <1>10 DEF Served
<1> QED
  BY <1>7, <1>11 DEF Kept, Serves

LEMMA NoParseFailed ==
  ASSUME RequestsFramed(Seq(Byte)), Typed, Kept
  PROVE  ~ParseFailed
<1> SUFFICES ASSUME ParseFailed PROVE FALSE
  OBVIOUS
<1>0. pc = "loop" /\ has_message(parser) /\ parse_message(parser).msg = NullPtr
  BY DEF ParseFailed
<1>1. current \in Clients /\ current # NoClient
  BY <1>0, Serving DEF Typed
<1>2. PICK q, qos, pos, a, f, s : Served(q, qos, pos, a, f, s)
  BY <1>1, Current
<1>3. /\ Len(executed) \in Nat /\ Len(q) \in Nat /\ Len(executed) <= Len(q)
      /\ Len(executed) < Len(q) => parse_message(parser).msg # NullPtr
      /\ Len(executed) = Len(q) => ~has_message(parser)
  BY <1>1, <1>2, InLoop DEF Kept
<1> QED
  BY <1>0, <1>3

(* The next request is taken from the parser, and executed. *)
LEMMA QueueNext ==
  ASSUME Typed, NEW q, NEW qos, Queue(q, qos), Len(executed) < Len(q), Len(q) \in Nat,
         executed' = Append(executed, q[Len(executed) + 1]),
         Holds(parser', qos, q, Len(executed) + 1, Len(q))
  PROVE  /\ Queue(q, qos)'
         /\ Len(executed) \in Nat /\ Len(executed') = Len(executed) + 1 /\ Len(executed') <= Len(q)
<1>1. PICK e : e = Len(executed)
  OBVIOUS
<1>2. /\ e \in Nat /\ Len(executed') = e + 1
      /\ \A p \in 1 .. e : executed'[p] = executed[p]
      /\ executed'[e + 1] = q[e + 1]
  BY <1>1, Executes DEF Typed
<1>3. ASSUME NEW p \in 1 .. e + 1 PROVE executed'[p] = q[p]
  <2>1. p \in 1 .. e \/ p = e + 1
    BY <1>2
  <2> QED
    BY <2>1, <1>1, <1>2 DEF Queue
<1>4. e + 1 <= Len(q)
  BY <1>1, <1>2
<1>5. Queue(q, qos)'
  BY <1>1, <1>2, <1>3, <1>4 DEF Queue
<1> QED
  BY <1>1, <1>2, <1>4, <1>5

LEMMA MembersNext ==
  ASSUME Growing, UNCHANGED <<requests, hung_up, waiting, current>>, NEW q, NEW f, Members(q, f),
         Len(executed) \in Nat, Len(executed') = Len(executed) + 1
  PROVE  Members(q, f)'
<1>1. ASSUME NEW j \in 1 .. Len(q) PROVE \E d \in Clients, i \in Nat : From(q, f, j, d, i)'
  <2>1. PICK d \in Clients, i \in Nat : From(q, f, j, d, i)
    BY DEF Members
  <2>2. j > Len(executed') => j > Len(executed)
    OBVIOUS
  <2>3. From(q, f, j, d, i)'
    BY <2>1, <2>2 DEF From
  <2> QED
    BY <2>3
<1> QED
  BY <1>1 DEF Members

LEMMA KeptProcess ==
  ASSUME RequestsFramed(Seq(Byte)), Typed, Kept, process_request
  PROVE  Kept'
<1>0. /\ UNCHANGED <<requests, stream, hung_up, waiting>>
      /\ pc = "loop" /\ has_message(parser)
      /\ parser' = parse_message(parser).rest
      /\ executed' = Append(executed, parse_message(parser).msg)
      /\ Reply(parse_message(parser).msg) \/ ReplyFailed \/ ReplyKills
  BY DEF process_request, clientVars
<1>1. current \in Clients /\ current # NoClient
  BY <1>0, Serving DEF Typed
<1>2. PICK q, qos, pos, a, f, s : Served(q, qos, pos, a, f, s)
  BY <1>1, Current
<1>n. PICK e, m : e = Len(executed) /\ m = q[e + 1]
  OBVIOUS
<1>3. /\ e \in Nat /\ Len(q) \in Nat /\ e < Len(q) /\ q \in Seq(AllRequests)
      /\ parse_message(parser).msg = m /\ m \in AllRequests
      /\ Holds(parser', qos, q, e + 1, Len(q))
  <2>1. /\ Len(executed) \in Nat /\ Len(q) \in Nat /\ Len(executed) <= Len(q)
        /\ Len(executed) < Len(q) =>
              /\ parse_message(parser).msg = q[Len(executed) + 1]
              /\ q[Len(executed) + 1] \in AllRequests
              /\ Holds(parse_message(parser).rest, qos, q, Len(executed) + 1, Len(q))
        /\ Len(executed) = Len(q) => ~has_message(parser)
    BY <1>1, <1>2, InLoop DEF Kept
  <2>2. Len(executed) < Len(q)
    BY <2>1, <1>0
  <2> QED
    BY <2>1, <2>2, <1>0, <1>2, <1>n DEF Served, Queue
<1>4. /\ Queue(q, qos)' /\ Len(executed') = e + 1 /\ e + 1 <= Len(q)
  BY <1>0, <1>2, <1>3, <1>n, QueueNext DEF Served
<1>5. /\ a = f /\ connection_ok = TRUE /\ e = s + Len(replies[current])
  BY <1>0, <1>2, <1>n DEF Served, InHand
<1>6. PICK r : r = Len(replies[current])
  OBVIOUS
<1>7. /\ r \in Nat /\ s \in Nat /\ e = s + r /\ replies[current] \in Seq(AllRequests)
      /\ stats \in Stats
  BY <1>1, <1>2, <1>5, <1>6, ServedNumbers, Numbers DEF Kept, Typed, ServerOK
<1>8. Mine(q, f, s) /\ Members(q, f) /\ Pending(current, pos, a) /\ f <= a
  BY <1>2 DEF Served
<1>9. CASE Reply(m)
  <2>0. /\ replies' = [replies EXCEPT ![current] = Append(@, m)]
        /\ messages_processed' = messages_processed + 1 /\ pc' = "loop"
        /\ UNCHANGED <<connection_ok, current, read_buffer>>
        /\ stats'.errors_encountered = stats.errors_encountered
    BY <1>0, <1>7, <1>9, Counting DEF Reply
  <2>1. Growing
    BY <2>0, <1>0, Resting DEF Kept
  <2>2. /\ Append(replies[current], m) \in Seq(AllRequests)
        /\ Len(Append(replies[current], m)) = r + 1
        /\ \A i \in 1 .. r : Append(replies[current], m)[i] = replies[current][i]
        /\ Append(replies[current], m)[r + 1] = m
    BY <1>3, <1>6, <1>7, AppendProperties
  <2>3. /\ replies'[current] = Append(replies[current], m)
        /\ \A d \in Clients \ {current} : replies'[d] = replies[d]
        /\ replies' \in [Clients -> Seq(AllRequests)]
    BY <2>0, <2>2, <1>1 DEF Kept, Own
  <2>4. Own' /\ Waits' /\ Idle'
    BY <2>0, <2>1, <2>3, <1>0, <1>1, KeptOthers
  <2>5. Members(q, f)'
    BY <2>0, <2>1, <1>0, <1>3, <1>4, <1>8, <1>n, MembersNext
  <2>l. Len(replies'[current']) = r + 1
    BY <2>0, <2>2, <2>3
  <2>6. Mine(q, f, s)'
    <3>1. ASSUME NEW i \in 1 .. r + 1 PROVE replies'[current][i] = q[s + i]
      <4>1. i \in 1 .. r \/ (i = r + 1 /\ s + i = e + 1)
        BY <1>7
      <4> QED
        BY <4>1, <2>2, <2>3, <1>6, <1>8, <1>n DEF Mine
    <3>2. s + (r + 1) <= Len(executed')
      BY <1>4, <1>7
    <3>4. \A i \in 1 .. Len(replies'[current']) : replies'[current'][i] = q[s + i]
      BY <3>1, <2>l, <2>0
    <3>5. s + Len(replies'[current']) <= Len(executed')
      BY <3>2, <2>l
    <3>6. \A j \in s + 1 .. Len(q) - f : Stray(current, q[j])'
      BY <2>0, <1>0, <1>8 DEF Mine, Stray
    <3> QED
      BY <3>4, <3>5, <3>6, <2>0, <1>0, <1>8 DEF Mine
  <2>7. InHand(q, pos, a, f, s)'
    <3>1. Len(executed') = s + Len(replies'[current'])
      BY <2>l, <1>4, <1>7
    <3>2. messages_processed' > 0
      <4>1. messages_processed \in Nat
        BY LenProperties DEF Typed, TypeOK, ServerOK
      <4> QED
        BY <4>1, <2>0
    <3> QED
      BY <3>1, <3>2, <2>0, <1>5 DEF InHand
  <2>8. Pending(current, pos, a)'
    BY <2>0, <1>0, <1>8 DEF Pending
  <2>9. Served(q, qos, pos, a, f, s)'
    BY <2>0, <2>5, <2>6, <2>7, <2>8, <1>4, <1>8 DEF Served
  <2> QED
    BY <2>4, <2>9 DEF Kept, Serves
<1>10. CASE ReplyFailed
  <2>0. /\ hung_up[current] /\ connection_ok' = FALSE /\ pc' = "consume"
        /\ UNCHANGED <<replies, messages_processed, current>>
        /\ stats'.errors_encountered # 0
    BY <1>7, <1>10, CountingError DEF ReplyFailed
  <2>1. Growing
    BY <2>0, <1>0, Resting DEF Kept
  <2>2. Own' /\ Waits' /\ Idle'
    <3>1. replies' \in [Clients -> Seq(AllRequests)]
      BY <2>0 DEF Kept, Own
    <3> QED
      BY <3>1, <2>0, <2>1, <1>0, <1>1, KeptOthers
  <2>3. Members(q, f)'
    BY <2>0, <2>1, <1>0, <1>3, <1>4, <1>8, <1>n, MembersNext
  <2>4. Mine(q, f, s)'
    <3>1. s + Len(replies'[current']) <= Len(executed')
      BY <2>0, <1>4, <1>6, <1>7
    <3> QED
      BY <3>1, <2>0, <1>0, <1>8 DEF Mine, Stray
  <2>5. InHand(q, pos, a, f, s)'
    BY <2>0, <1>0, <1>5 DEF InHand
  <2>6. Pending(current, pos, a)'
    BY <2>0, <1>0, <1>8 DEF Pending
  <2>7. Served(q, qos, pos, a, f, s)'
    BY <2>0, <2>3, <2>4, <2>5, <2>6, <1>4, <1>8 DEF Served
  <2> QED
    BY <2>2, <2>7 DEF Kept, Serves
<1>11. CASE ReplyKills
  <2>0. /\ hung_up[current] /\ current' = NoClient /\ read_buffer' = <<>> /\ pc' = "killed"
        /\ replies' = replies
        /\ stats'.errors_encountered = stats.errors_encountered
    BY <1>7, <1>11, Counting DEF ReplyKills
  <2>1. Growing
    BY <2>0, <1>0, Resting DEF Kept
  <2>2. Len(executed) <= Len(executed') /\ Len(executed') \in Nat
    BY <1>3, <1>4, <1>n
  <2> QED
    BY <2>0, <2>1, <2>2, <1>0, <1>1, <1>4, <1>8, KeptGone
<1> QED
  BY <1>0, <1>3, <1>9, <1>10, <1>11

LEMMA NextWhole ==
  ASSUME RequestsFramed(Seq(Byte))
  PROVE  Typed /\ Whole /\ [Next]_vars => Whole'
<1> SUFFICES ASSUME Typed, Whole, [Next]_vars, ~cut' PROVE Kept'
  BY DEF Whole
<1>0. Kept
  <2>1. cut => cut'
    BY DEF Next, ServerStep, vars, Send, HangUp, stop, run_blocking, SetRunning, ClearStop, While,
           AcceptInvalid, accept, read, ReadEnd, feed, ParseFailed, process_request, LoopDone, consume
  <2> QED
    BY <2>1 DEF Whole
<1>1. CASE UNCHANGED vars
  BY <1>0, <1>1, KeptStutter DEF vars, clientVars, handlerVars
<1>2. ASSUME NEW c \in Clients, Send(c) PROVE Kept'
  BY <1>0, <1>2, KeptSend
<1>3. ASSUME NEW c \in Clients, HangUp(c) PROVE Kept'
  <2>1. \A d \in Clients : hung_up[d] => hung_up'[d]
    BY <1>3 DEF HangUp, Typed, ClientsOK
  <2> QED
    BY <2>1, <1>0, <1>3, KeptStutter DEF HangUp, handlerVars
<1>4. CASE stop
  BY <1>0, <1>4, KeptStutter DEF stop, clientVars, handlerVars
<1>5. CASE run_blocking \/ SetRunning \/ ClearStop \/ While \/ AcceptInvalid
  <2>1. UNCHANGED <<clientVars, handlerVars, replies, waiting, current, read_buffer>>
    BY <1>5 DEF run_blocking, SetRunning, ClearStop, While, AcceptInvalid
  <2>2. pc \notin {"read", "feed", "loop", "consume", "killed"}
    BY <1>5 DEF run_blocking, SetRunning, ClearStop, While, AcceptInvalid
  <2>3. current = NoClient
    BY <2>2 DEF Typed, TypeOK
  <2> QED
    BY <1>0, <2>1, <2>2, <2>3, KeptStutter DEF clientVars, handlerVars
<1>6. ASSUME NEW c \in waiting, accept(c) PROVE Kept'
  BY <1>0, <1>6, KeptAccept
<1>7. ASSUME NEW n \in 1 .. Len(stream[current]), read(n) PROVE Kept'
  <2>1. stream[current][n].last
    BY <1>7 DEF read
  <2> QED
    BY <2>1, <1>0, <1>7, KeptRead
<1>8. CASE ReadEnd
  BY <1>0, <1>8, KeptReadEnd
<1>9. CASE feed
  BY <1>0, <1>9, KeptFeed
<1>10. CASE ParseFailed
  BY <1>0, <1>10, NoParseFailed
<1>11. CASE process_request
  BY <1>0, <1>11, KeptProcess
<1>12. CASE LoopDone
  BY <1>0, <1>12, KeptLoopDone
<1>13. CASE consume
  BY <1>0, <1>13, KeptConsume
<1> QED
  BY <1>1, <1>2, <1>3, <1>4, <1>5, <1>6, <1>7, <1>8, <1>9, <1>10, <1>11, <1>12, <1>13
     DEF Next, ServerStep

LEMMA KeptOwn ==
  ASSUME Typed, Whole
  PROVE  OwnReplies
<1> SUFFICES ASSUME ~cut, NEW c \in Clients
             PROVE  \E k \in 0 .. Len(replies[c]) :
                      /\ stats.errors_encountered = 0 => k = 0
                      /\ \A i \in 1 .. k : replies[c][i] \in Strays(c)
                      /\ IsPrefix(SubSeq(replies[c], k + 1, Len(replies[c])), requests[c])
  BY DEF OwnReplies
<1>1. Kept
  BY DEF Whole
<1>2. OwnOf(c)
  <2>1. CASE c # current
    BY <2>1, <1>1 DEF Kept, Own
  <2>2. CASE c = current
    BY <2>2, <1>1, Current, OwnServed DEF Kept
  <2> QED
    BY <2>1, <2>2
<1>3. PICK k \in 0 .. Len(replies[c]) : OwnAfter(c, k)
  BY <1>2 DEF OwnOf
<1>4. PICK r : r = Len(replies[c]) - k
  OBVIOUS
<1>5. /\ requests[c] \in Seq(AllRequests) /\ replies[c] \in Seq(AllRequests)
      /\ r \in Nat /\ k \in Nat /\ Len(replies[c]) \in Nat /\ Len(requests[c]) \in Nat
      /\ k \in 0 .. Len(replies[c]) /\ r = Len(replies[c]) - k /\ r <= Len(requests[c])
      /\ \A i \in 1 .. Len(requests[c]) : requests[c][i] = Request(c, i)
  BY <1>1, <1>3, <1>4, Numbers DEF Kept, Typed, ClientsOK, Sent, OwnAfter
<1>6. ASSUME NEW i \in 1 .. k PROVE replies[c][i] \in Strays(c)
  <2>1. PICK d \in Clients \ {c} : hung_up[d] /\ \E j \in 1 .. Len(requests[d]) : replies[c][i] = Request(d, j)
    BY <1>3 DEF OwnAfter, Stray
  <2>2. PICK j \in 1 .. Len(requests[d]) : replies[c][i] = Request(d, j)
    BY <2>1
  <2>3. requests[d] \in Seq(AllRequests) /\ requests[d][j] = Request(d, j)
    BY DEF Typed, ClientsOK, Sent
  <2>4. DOMAIN requests[d] = 1 .. Len(requests[d])
    BY <2>3, LenProperties
  <2>5. replies[c][i] \in Range(requests[d])
    BY <2>2, <2>3, <2>4 DEF Range
  <2> QED
    BY <2>1, <2>5 DEF Strays
<1> DEFINE x == SubSeq(replies[c], k + 1, Len(replies[c]))
           y == SubSeq(requests[c], 1, r)
<1>7. x \in Seq(AllRequests) /\ Len(x) = r /\ \A i \in 1 .. r : x[i] = replies[c][k + i]
  <2>1. /\ k + 1 \in 1 .. Len(replies[c]) + 1 /\ Len(replies[c]) \in 0 .. Len(replies[c])
        /\ k + 1 <= Len(replies[c]) + 1 /\ (Len(replies[c]) - (k + 1)) + 1 = r
    BY <1>5
  <2>2. \A i \in 1 .. r : ((k + 1) + i) - 1 = k + i
    BY <1>5
  <2>3. /\ x \in Seq(AllRequests) /\ Len(x) = (Len(replies[c]) - (k + 1)) + 1
        /\ \A i \in 1 .. (Len(replies[c]) - (k + 1)) + 1 : x[i] = replies[c][((k + 1) + i) - 1]
    BY <2>1, <1>5, Part
  <2> HIDE DEF x
  <2> QED
    BY <2>1, <2>2, <2>3
<1>8. y \in Seq(AllRequests) /\ Len(y) = r /\ \A i \in 1 .. r : y[i] = requests[c][i]
  <2>1. /\ 1 \in 1 .. Len(requests[c]) + 1 /\ r \in 0 .. Len(requests[c]) /\ 1 <= r + 1
        /\ (r - 1) + 1 = r
    BY <1>5
  <2>2. \A i \in 1 .. r : (1 + i) - 1 = i
    BY <1>5
  <2>3. /\ y \in Seq(AllRequests) /\ Len(y) = (r - 1) + 1
        /\ \A i \in 1 .. (r - 1) + 1 : y[i] = requests[c][(1 + i) - 1]
    BY <1>5, <2>1, Part
  <2> HIDE DEF y
  <2> QED
    BY <2>1, <2>2, <2>3
<1> HIDE DEF x, y
<1>9. x = y
  <2>1. ASSUME NEW i \in 1 .. r PROVE x[i] = y[i]
    <3>1. i \in 1 .. Len(requests[c])
      BY <1>5
    <3>2. replies[c][k + i] = Request(c, i)
      BY <1>3, <1>4 DEF OwnAfter
    <3> QED
      BY <3>1, <3>2, <1>5, <1>7, <1>8
  <2> QED
    BY <2>1, <1>7, <1>8, SeqEqual
<1>10. SubSeq(x, 1, Len(x)) = x
  BY <1>7, SubSeqFull
<1>11. IsPrefix(x, requests[c])
  BY <1>5, <1>7, <1>9, <1>10 DEF IsPrefix, y
<1>12. stats.errors_encountered = 0 => k = 0
  BY <1>3 DEF OwnAfter
<1> QED
  BY <1>5, <1>6, <1>11, <1>12 DEF x

LEMMA KeptOnce ==
  ASSUME Typed, Whole
  PROVE  WholeExecutedOnce
<1> SUFFICES ASSUME ~cut PROVE ExecutedOnce
  BY DEF WholeExecutedOnce
<1>1. Kept
  BY DEF Whole
<1>2. PICK q, qos, f : Queue(q, qos) /\ Members(q, f)
  <2>1. CASE current = NoClient
    BY <2>1, <1>1 DEF Kept, Idle
  <2>2. CASE current # NoClient
    BY <2>2, <1>1 DEF Kept, Serves, Served
  <2> QED
    BY <2>1, <2>2
<1>3. /\ DOMAIN executed = 1 .. Len(executed) /\ Len(executed) \in Nat /\ Len(q) \in Nat
      /\ Len(executed) <= Len(q)
  BY <1>2, LenProperties DEF Typed, ServerOK, Queue
<1>4. ASSUME NEW p \in 1 .. Len(executed) PROVE p \in 1 .. Len(q) /\ executed[p] = q[p]
  BY <1>2, <1>3 DEF Queue
<1>5. IsInjective(executed)
  <2>1. ASSUME NEW p \in 1 .. Len(executed), NEW j \in 1 .. Len(executed), executed[p] = executed[j]
        PROVE  p = j
    BY <2>1, <1>2, <1>4 DEF Queue
  <2> QED
    BY <2>1, <1>3 DEF IsInjective
<1>6. ASSUME NEW p \in 1 .. Len(executed)
      PROVE  executed[p] \in UNION {Range(requests[c]) : c \in Clients}
  <2>1. PICK c \in Clients, i \in Nat : From(q, f, p, c, i)
    BY <1>2, <1>4 DEF Members
  <2>2. executed[p] = Request(c, i) /\ i \in 1 .. Len(requests[c])
    BY <2>1, <1>4 DEF From
  <2>3. requests[c] \in Seq(AllRequests) /\ requests[c][i] = Request(c, i)
    BY <2>2 DEF Typed, ClientsOK, Sent
  <2>4. DOMAIN requests[c] = 1 .. Len(requests[c])
    BY <2>3, LenProperties
  <2>5. executed[p] \in Range(requests[c])
    BY <2>2, <2>3, <2>4 DEF Range
  <2> QED
    BY <2>5
<1>7. Range(executed) \subseteq UNION {Range(requests[c]) : c \in Clients}
  BY <1>3, <1>6 DEF Range
<1> QED
  BY <1>5, <1>7 DEF ExecutedOnce

(* A client is answered with the replies to its own requests, in order, and *)
(* before them only with those to requests that clients who have gone left  *)
(* in the shared parser, which takes a write that failed: for any clients,  *)
(* requests and buffer sizes, however many requests were left, when reads   *)
(* end where requests end and the protocol frames the requests              *)
(* (CommandHandler::handle_client).                                         *)
THEOREM OwnRepliesKept ==
  ASSUME RequestsFramed(Seq(Byte))
  PROVE  Spec => []OwnReplies
<1>1. Typed /\ Whole /\ [Next]_vars => Whole'
  BY NextWhole
<1>2. Typed /\ Whole => OwnReplies
  BY KeptOwn
<1> QED
  BY <1>1, <1>2, InitTyped, NextTyped, InitWhole, PTL DEF Spec

(* Under the same hypotheses every command the store executes is a request  *)
(* that a client sent, and no request is executed twice, those left in the  *)
(* parser by a client that is gone included.                                *)
THEOREM ExecutedOnceKept ==
  ASSUME RequestsFramed(Seq(Byte))
  PROVE  Spec => []WholeExecutedOnce
<1>1. Typed /\ Whole /\ [Next]_vars => Whole'
  BY NextWhole
<1>2. Typed /\ Whole => WholeExecutedOnce
  BY KeptOnce
<1> QED
  BY <1>1, <1>2, InitTyped, NextTyped, InitWhole, PTL DEF Spec
=============================================================================
