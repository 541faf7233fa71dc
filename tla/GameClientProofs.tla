-------------------------- MODULE GameClientProofs --------------------------
(***************************************************************************)
(* The game over an unreliable network: whatever datagrams are lost, late, *)
(* duplicated or cut off and wherever a NAT moves the client, for any      *)
(* number of players, ids, inputs and any sizes of buffers and counts.     *)
(* The codec keeps every message; a datagram is read as it was sent or     *)
(* refused; the server does to the rooms only what GameRooms allows; it    *)
(* takes the client for the player whose id it goes by, and the client     *)
(* finds itself in every snapshot that it counts.                          *)
(*                                                                         *)
(* First the sizes of datagrams (the function Ends, by a least element of  *)
(* the naturals), then the header, each message, the rooms, the client's   *)
(* player in them, the server's replies, and the invariant.                *)
(***************************************************************************)
EXTENDS GameClient, FiniteSetTheorems, SequenceTheorems, TLAPS

Proved == INSTANCE GameRoomsProofs

-----------------------------------------------------------------------------
(* Natural numbers *)

LEMMA LeastElement ==
  ASSUME NEW S, S \subseteq Nat, S # {}
  PROVE  \E x \in S : \A y \in S : x <= y
<1> DEFINE R == OpToRel(<, Nat)
<1>1. IsWellFoundedOn(R, Nat)
  BY NatLessThanWellFounded
<1>2. \E x \in S : \A y \in S : <<y, x>> \notin R
  <2> HIDE DEF R
  <2> QED
    BY <1>1, WFMin
<1>3. PICK x \in S : \A y \in S : <<y, x>> \notin R
  BY <1>2
<1>4. \A y \in S : x <= y
  <2> SUFFICES ASSUME NEW y \in S PROVE x <= y
    OBVIOUS
  <2>1. x \in Nat /\ y \in Nat
    OBVIOUS
  <2>2. ~(y < x)
    BY <1>3, <2>1 DEF OpToRel
  <2> QED
    BY <2>1, <2>2
<1> QED
  BY <1>4

\* Induction, for a property given as the set of the numbers that have it.
LEMMA Induction ==
  ASSUME NEW S, 0 \in S, \A n \in Nat : n \in S => n + 1 \in S
  PROVE  Nat \subseteq S
<1> DEFINE T == {n \in Nat : n \notin S}
<1>1. ASSUME T # {} PROVE FALSE
  <2>1. PICK x \in T : \A y \in T : x <= y
    <3> HIDE DEF T
    <3>1. T \subseteq Nat
      BY DEF T
    <3> QED
      BY <1>1, <3>1, LeastElement
  <2>2. x \in Nat /\ x \notin S /\ x # 0
    OBVIOUS
  <2>3. x - 1 \in Nat /\ (x - 1) + 1 = x /\ ~(x <= x - 1)
    BY <2>2
  <2>4. x - 1 \in S
    BY <2>1, <2>3
  <2> QED
    BY <2>2, <2>3, <2>4
<1> QED
  BY <1>1

-----------------------------------------------------------------------------
(* Words: the sizes and prefixes of a datagram *)

IsWords(w) == w \in Seq(ToSet(w)) /\ \A i \in 1..Len(w) : w[i][1] \in Nat

\* The recursion that defines Ends, up to the m-th word.
EndsUpTo(w, e, m) ==
    e = [n \in 0..m |-> IF n = 0 THEN 0 ELSE e[n - 1] + w[n][1]]

LEMMA EndsExist ==
  ASSUME NEW w
  PROVE  \A m \in Nat : \E e : EndsUpTo(w, e, m)
<1> DEFINE S == {m \in Nat : \E e : EndsUpTo(w, e, m)}
<1>1. 0 \in S
  <2> DEFINE e == [n \in 0..0 |-> 0]
  <2>1. e = [n \in 0..0 |-> IF n = 0 THEN 0 ELSE e[n - 1] + w[n][1]]
    OBVIOUS
  <2> QED
    BY <2>1 DEF EndsUpTo
<1>2. ASSUME NEW m \in Nat, m \in S PROVE m + 1 \in S
  <2>1. PICK e : EndsUpTo(w, e, m)
    BY <1>2
  <2> DEFINE f == [n \in 0..(m + 1) |-> IF n = m + 1 THEN e[m] + w[m + 1][1] ELSE e[n]]
  <2>2. ASSUME NEW n \in 0..(m + 1)
        PROVE  f[n] = IF n = 0 THEN 0 ELSE f[n - 1] + w[n][1]
    <3>1. CASE n = m + 1
      BY <1>2, <3>1
    <3>2. CASE n \in 0..m
      <4>1. e[n] = IF n = 0 THEN 0 ELSE e[n - 1] + w[n][1]
        BY <2>1, <3>2 DEF EndsUpTo
      <4>2. n # 0 => n - 1 \in 0..m
        BY <1>2, <3>2
      <4>3. f[n] = e[n] /\ (n # 0 => f[n - 1] = e[n - 1])
        BY <1>2, <3>2, <4>2
      <4> QED
        BY <4>1, <4>3
    <3> QED
      BY <1>2, <3>1, <3>2
  <2>3. f = [n \in 0..(m + 1) |-> IF n = 0 THEN 0 ELSE f[n - 1] + w[n][1]]
    BY <2>2
  <2>4. EndsUpTo(w, f, m + 1)
    BY <2>3 DEF EndsUpTo
  <2> QED
    BY <1>2, <2>4
<1>3. Nat \subseteq S
  <2> HIDE DEF S
  <2> QED
    BY <1>1, <1>2, Induction
<1> QED
  BY <1>3

\* The equations of Ends.
LEMMA EndsSteps ==
  ASSUME NEW w, Len(w) \in Nat
  PROVE  /\ Ends(w)[0] = 0
         /\ \A n \in 1..Len(w) : Ends(w)[n] = Ends(w)[n - 1] + w[n][1]
<1>1. PICK e : EndsUpTo(w, e, Len(w))
  BY EndsExist
<1>2. e = [n \in 0..Len(w) |-> IF n = 0 THEN 0 ELSE e[n - 1] + w[n][1]]
  BY <1>1 DEF EndsUpTo
<1>3. Ends(w) = [n \in 0..Len(w) |-> IF n = 0 THEN 0 ELSE Ends(w)[n - 1] + w[n][1]]
  BY <1>2, Zenon DEF Ends
<1> QED
  BY <1>3

LEMMA EndsType ==
  ASSUME NEW w, Len(w) \in Nat, \A i \in 1..Len(w) : w[i][1] \in Nat
  PROVE  \A n \in 0..Len(w) : Ends(w)[n] \in Nat
<1> DEFINE S == {n \in Nat : n <= Len(w) => Ends(w)[n] \in Nat}
<1>1. 0 \in S
  BY EndsSteps
<1>2. ASSUME NEW n \in Nat, n \in S PROVE n + 1 \in S
  <2> SUFFICES ASSUME n + 1 <= Len(w) PROVE Ends(w)[n + 1] \in Nat
    OBVIOUS
  <2>1. n + 1 \in 1..Len(w) /\ (n + 1) - 1 = n
    OBVIOUS
  <2>2. Ends(w)[n + 1] = Ends(w)[n] + w[n + 1][1]
    BY <2>1, EndsSteps
  <2> QED
    BY <1>2, <2>1, <2>2
<1>3. Nat \subseteq S
  <2> HIDE DEF S
  <2> QED
    BY <1>1, <1>2, Induction
<1> QED
  BY <1>3

\* Words side by side: what follows the a-th word of w is as wide as v.
LEMMA EndsShift ==
  ASSUME NEW w, NEW v, Len(w) \in Nat, Len(v) \in Nat, NEW a \in 0..Len(w), NEW k \in 0..Len(v),
         \A i \in 1..Len(w) : w[i][1] \in Nat, \A i \in 1..Len(v) : v[i][1] \in Nat,
         a + k <= Len(w), \A i \in 1..k : w[a + i][1] = v[i][1]
  PROVE  Ends(w)[a + k] = Ends(w)[a] + Ends(v)[k]
<1> DEFINE S == {n \in Nat : n <= k => Ends(w)[a + n] = Ends(w)[a] + Ends(v)[n]}
<1>0. /\ \A i \in 0..Len(w) : Ends(w)[i] \in Nat
      /\ \A i \in 0..Len(v) : Ends(v)[i] \in Nat
  BY EndsType
<1>1. 0 \in S
  <2>1. Ends(v)[0] = 0 /\ a + 0 = a /\ Ends(w)[a] \in Nat
    BY <1>0, EndsSteps
  <2> QED
    BY <2>1
<1>2. ASSUME NEW n \in Nat, n \in S PROVE n + 1 \in S
  <2> SUFFICES ASSUME n + 1 <= k PROVE Ends(w)[a + (n + 1)] = Ends(w)[a] + Ends(v)[n + 1]
    OBVIOUS
  <2>1. /\ n + 1 \in 1..Len(v) /\ (n + 1) - 1 = n /\ n + 1 \in 1..k
        /\ a + (n + 1) \in 1..Len(w) /\ (a + (n + 1)) - 1 = a + n
        /\ a + n \in 0..Len(w) /\ n \in 0..Len(v)
    <3> HIDE DEF S
    <3>1. PICK x \in Nat, y \in Nat : x = Len(w) /\ y = Len(v)
      OBVIOUS
    <3>2. a \in Nat /\ k \in Nat /\ k <= y /\ a + k <= x
      BY <3>1
    <3>3. /\ n + 1 \in 1..y /\ (n + 1) - 1 = n /\ n + 1 \in 1..k
          /\ a + (n + 1) \in 1..x /\ (a + (n + 1)) - 1 = a + n
          /\ a + n \in 0..x /\ n \in 0..y
      BY <3>2
    <3> QED
      BY <3>1, <3>3
  <2>2. Ends(v)[n + 1] = Ends(v)[n] + v[n + 1][1]
    BY <2>1, EndsSteps
  <2>3. Ends(w)[a + (n + 1)] = Ends(w)[a + n] + w[a + (n + 1)][1]
    BY <2>1, EndsSteps
  <2>4. w[a + (n + 1)][1] = v[n + 1][1]
    BY <2>1
  <2>5. Ends(w)[a + n] = Ends(w)[a] + Ends(v)[n]
    BY <1>2
  <2>6. /\ Ends(w)[a] \in Nat /\ Ends(v)[n] \in Nat /\ v[n + 1][1] \in Nat
    BY <1>0, <2>1
  <2> QED
    BY <2>2, <2>3, <2>4, <2>5, <2>6, SMTT(30)
<1>3. Nat \subseteq S
  <2> HIDE DEF S
  <2> QED
    BY <1>1, <1>2, Induction
<1> QED
  BY <1>3

\* Words as wide as others end where they do.
LEMMA EndsSame ==
  ASSUME NEW w, NEW v, Len(w) \in Nat, Len(v) \in Nat, NEW k \in 0..Len(v), k <= Len(w),
         \A i \in 1..Len(w) : w[i][1] \in Nat, \A i \in 1..Len(v) : v[i][1] \in Nat,
         \A i \in 1..k : w[i][1] = v[i][1]
  PROVE  Ends(w)[k] = Ends(v)[k]
<1>1. 0 \in 0..Len(w) /\ 0 + k = k /\ 0 + k <= Len(w)
  OBVIOUS
<1>2. \A i \in 1..k : w[0 + i][1] = v[i][1]
  <2> SUFFICES ASSUME NEW i \in 1..k PROVE w[0 + i][1] = v[i][1]
    OBVIOUS
  <2>1. 0 + i = i
    OBVIOUS
  <2> QED
    BY <2>1
<1>3. Ends(w)[0 + k] = Ends(w)[0] + Ends(v)[k]
  BY <1>1, <1>2, EndsShift, SMTT(30)
<1>4. Ends(w)[0] = 0 /\ Ends(v)[k] \in Nat
  BY EndsSteps, EndsType
<1> QED
  BY <1>1, <1>3, <1>4

LEMMA EndsGrow ==
  ASSUME NEW w, Len(w) \in Nat, \A i \in 1..Len(w) : w[i][1] \in Nat,
         NEW m \in 0..Len(w), NEW n \in 0..Len(w), m <= n
  PROVE  Ends(w)[m] <= Ends(w)[n]
<1> DEFINE S == {k \in Nat : m <= k /\ k <= Len(w) => Ends(w)[m] <= Ends(w)[k]}
<1>0. \A k \in 0..Len(w) : Ends(w)[k] \in Nat
  BY EndsType
<1>1. 0 \in S
  BY <1>0
<1>2. ASSUME NEW k \in Nat, k \in S PROVE k + 1 \in S
  <2> SUFFICES ASSUME m <= k + 1, k + 1 <= Len(w) PROVE Ends(w)[m] <= Ends(w)[k + 1]
    OBVIOUS
  <2>1. CASE m = k + 1
    BY <2>1, <1>0
  <2>2. CASE m <= k
    <3>1. k + 1 \in 1..Len(w) /\ (k + 1) - 1 = k /\ k \in 0..Len(w) /\ k + 1 \in 0..Len(w)
      OBVIOUS
    <3>2. Ends(w)[k + 1] = Ends(w)[k] + w[k + 1][1]
      BY <3>1, EndsSteps
    <3>3. Ends(w)[m] <= Ends(w)[k]
      BY <1>2, <2>2
    <3> QED
      BY <3>1, <3>2, <3>3, <1>0
  <2> QED
    BY <2>1, <2>2
<1>3. Nat \subseteq S
  <2> HIDE DEF S
  <2> QED
    BY <1>1, <1>2, Induction
<1> QED
  BY <1>3

\* The greatest of some numbers up to n.
LEMMA GreatestElement ==
  ASSUME NEW n \in Nat, NEW S, S \subseteq 0..n, S # {}
  PROVE  Max(S) \in S /\ \A y \in S : y <= Max(S)
<1> DEFINE D == {n - y : y \in S}
<1>1. D \subseteq Nat /\ D # {}
  <2>1. \A y \in S : y \in 0..n /\ n - y \in Nat
    OBVIOUS
  <2>2. PICK y \in S : TRUE
    OBVIOUS
  <2>3. n - y \in D
    OBVIOUS
  <2> QED
    BY <2>1, <2>3
<1>2. PICK d \in D : \A y \in D : d <= y
  <2> HIDE DEF D
  <2> QED
    BY <1>1, LeastElement
<1>3. PICK x \in S : d = n - x
  OBVIOUS
<1>4. \A y \in S : x >= y
  BY <1>2, <1>3
<1>5. \E z \in S : \A y \in S : z >= y
  BY <1>4
<1>6. Max(S) \in S /\ \A y \in S : Max(S) >= y
  BY <1>5 DEF Max
<1> QED
  BY <1>6

\* A prefix is a cut after a word, and no word is cut off that fits.
LEMMA PrefixCuts ==
  ASSUME NEW w, w \in Seq(ToSet(w)), \A i \in 1..Len(w) : w[i][1] \in Nat, NEW bytes \in Nat
  PROVE  \E n \in 0..Len(w) : /\ Prefix(w, bytes) = SubSeq(w, 1, n)
                              /\ Ends(w)[n] <= bytes
                              /\ Size(w) <= bytes => n = Len(w)
<1> DEFINE T == {n \in 0..Len(w) : Ends(w)[n] <= bytes}
<1>0. Len(w) \in Nat /\ \A n \in 0..Len(w) : Ends(w)[n] \in Nat
  BY EndsType
<1>1. CASE Size(w) <= bytes
  <2>1. Prefix(w, bytes) = w
    BY <1>1 DEF Prefix, Size
  <2>2. w = SubSeq(w, 1, Len(w))
    OBVIOUS
  <2> QED
    <3>1. Len(w) \in 0..Len(w) /\ Ends(w)[Len(w)] <= bytes
      BY <1>0, <1>1 DEF Size
    <3> QED
      BY <2>1, <2>2, <3>1
<1>2. CASE ~(Size(w) <= bytes)
  <2>1. Prefix(w, bytes) = SubSeq(w, 1, Max(T))
    BY <1>2 DEF Prefix, Size
  <2>2. 0 \in T
    BY <1>0, EndsSteps
  <2>3. Max(T) \in T
    <3>1. T \subseteq 0..Len(w) /\ T # {}
      BY <2>2
    <3> HIDE DEF T
    <3> QED
      BY <1>0, <3>1, GreatestElement
  <2> QED
    BY <1>2, <2>1, <2>3
<1> QED
  BY <1>1, <1>2

-----------------------------------------------------------------------------
(* The header *)

\* Any packet, of whatever version.
AnyPacket(p) ==
    p = [magic |-> p.magic, version |-> p.version, msg_type |-> p.msg_type,
         room_id |-> p.room_id, player_id |-> p.player_id, seq |-> p.seq, tick |-> p.tick,
         payload_len |-> p.payload_len, payload |-> p.payload]

Header(p) == Append_(HeaderFields, [p EXCEPT !.payload_len = Size(p.payload) % LenSpace])

LEMMA HeaderLayout ==
  /\ Len(HeaderFields) = 10 /\ DOMAIN HeaderFields = 1..10
  /\ HeaderFields[1] = <<"magic", 4>> /\ HeaderFields[2] = <<"version", 1>>
  /\ HeaderFields[3] = <<"msg_type", 1>> /\ HeaderFields[4] = <<Pad, 2>>
  /\ HeaderFields[5] = <<"room_id", 4>> /\ HeaderFields[6] = <<"player_id", 4>>
  /\ HeaderFields[7] = <<"seq", 4>> /\ HeaderFields[8] = <<"tick", 4>>
  /\ HeaderFields[9] = <<"payload_len", 2>> /\ HeaderFields[10] = <<Pad, 2>>
  BY DEF HeaderFields, U8, U16, U32

LEMMA MapIsSequence ==
  ASSUME NEW n \in Nat, NEW S, NEW f \in [1..n -> S]
  PROVE  f \in Seq(S) /\ Len(f) = n /\ DOMAIN f = 1..n
  OBVIOUS

\* What is given element by element is a sequence of its own elements.
LEMMA OwnElements ==
  ASSUME NEW n \in Nat, NEW f, f = [i \in 1..n |-> f[i]]
  PROVE  f \in Seq(ToSet(f)) /\ Len(f) = n /\ DOMAIN f = 1..n
<1>1. f \in [1..n -> ToSet(f)]
  BY DEF ToSet
<1> QED
  BY <1>1, MapIsSequence

LEMMA HeaderWords ==
  ASSUME NEW p, AnyPacket(p)
  PROVE  /\ Len(Header(p)) = 10 /\ DOMAIN Header(p) = 1..10
         /\ Header(p) \in Seq(ToSet(Header(p)))
         /\ Header(p)[1] = <<4, p.magic>> /\ Header(p)[2] = <<1, p.version>>
         /\ Header(p)[3] = <<1, p.msg_type>> /\ Header(p)[4] = <<2, 0>>
         /\ Header(p)[5] = <<4, p.room_id>> /\ Header(p)[6] = <<4, p.player_id>>
         /\ Header(p)[7] = <<4, p.seq>> /\ Header(p)[8] = <<4, p.tick>>
         /\ Header(p)[9] = <<2, Size(p.payload) % LenSpace>> /\ Header(p)[10] = <<2, 0>>
<1> DEFINE q == [p EXCEPT !.payload_len = Size(p.payload) % LenSpace]
           h == [i \in DOMAIN HeaderFields |->
                    <<HeaderFields[i][2],
                      IF HeaderFields[i][1] = Pad THEN 0 ELSE q[HeaderFields[i][1]]>>]
<1>1. Header(p) = h
  BY Zenon DEF Header, Append_, Word
<1>2. /\ q["magic"] = p.magic /\ q["version"] = p.version /\ q["msg_type"] = p.msg_type
      /\ q["room_id"] = p.room_id /\ q["player_id"] = p.player_id /\ q["seq"] = p.seq
      /\ q["tick"] = p.tick /\ q["payload_len"] = Size(p.payload) % LenSpace
  BY DEF AnyPacket
<1> HIDE DEF q
<1>3. /\ DOMAIN h = 1..10
      /\ h[1] = <<4, p.magic>> /\ h[2] = <<1, p.version>>
      /\ h[3] = <<1, p.msg_type>> /\ h[4] = <<2, 0>>
      /\ h[5] = <<4, p.room_id>> /\ h[6] = <<4, p.player_id>>
      /\ h[7] = <<4, p.seq>> /\ h[8] = <<4, p.tick>>
      /\ h[9] = <<2, Size(p.payload) % LenSpace>> /\ h[10] = <<2, 0>>
  BY <1>2, HeaderLayout DEF Pad
<1>4. Len(h) = 10 /\ h \in Seq(ToSet(h))
  <2>1. h = [i \in 1..10 |-> h[i]]
    BY <1>3
  <2> HIDE DEF h
  <2> QED
    BY <2>1, OwnElements
<1> QED
  BY <1>1, <1>3, <1>4

LEMMA OwnSequence ==
  ASSUME NEW S, NEW w \in Seq(S)
  PROVE  w \in Seq(ToSet(w))
<1>1. Len(w) \in Nat /\ w = [i \in 1..Len(w) |-> w[i]]
  OBVIOUS
<1> QED
  BY <1>1, OwnElements

LEMMA HeaderSize ==
  HeaderBytes \in Nat /\ HeaderBytes >= kHeaderSize
<1> DEFINE z == [i \in DOMAIN HeaderFields |-> Word(HeaderFields[i][2], 0)]
<1>1. DOMAIN z = 1..10
  BY HeaderLayout
<1>2. /\ z[1][1] = 4 /\ z[2][1] = 1 /\ z[3][1] = 1 /\ z[4][1] = 2 /\ z[5][1] = 4
      /\ z[6][1] = 4 /\ z[7][1] = 4 /\ z[8][1] = 4 /\ z[9][1] = 2 /\ z[10][1] = 2
  BY HeaderLayout DEF Word
<1>3. HeaderBytes = Size(z)
  BY DEF HeaderBytes, Width
<1>4. z = [i \in 1..10 |-> z[i]]
  BY <1>1
<1> HIDE DEF z
<1>5. Len(z) = 10
  BY <1>4, OwnElements
<1>6. /\ Ends(z)[0] = 0
      /\ \A n \in 1..10 : Ends(z)[n] = Ends(z)[n - 1] + z[n][1]
  <2>1. Len(z) \in Nat
    BY <1>5
  <2>2. /\ Ends(z)[0] = 0
        /\ \A n \in 1..Len(z) : Ends(z)[n] = Ends(z)[n - 1] + z[n][1]
    BY <2>1, EndsSteps
  <2> QED
    BY <1>5, <2>2
<1>7. /\ Ends(z)[1] = 4 /\ Ends(z)[2] = 5 /\ Ends(z)[3] = 6 /\ Ends(z)[4] = 8 /\ Ends(z)[5] = 12
  BY <1>2, <1>6
<1>8. /\ Ends(z)[6] = 16 /\ Ends(z)[7] = 20 /\ Ends(z)[8] = 24 /\ Ends(z)[9] = 26
      /\ Ends(z)[10] = 28
  BY <1>2, <1>6, <1>7
<1> QED
  BY <1>3, <1>5, <1>8 DEF Size, kHeaderSize

\* The header and the payload in a datagram.
LEMMA EncodeParts ==
  ASSUME NEW p, AnyPacket(p), IsWords(p.payload)
  PROVE  /\ IsWords(encode(p))
         /\ Len(encode(p)) = 10 + Len(p.payload)
         /\ \A i \in 1..10 : encode(p)[i] = Header(p)[i]
         /\ \A i \in 1..Len(p.payload) : encode(p)[10 + i] = p.payload[i]
         /\ \A k \in 0..Len(p.payload) :
               Ends(encode(p))[10 + k] = HeaderBytes + Ends(p.payload)[k]
<1> DEFINE h == Header(p)
           y == p.payload
           S == ToSet(h) \cup ToSet(y)
<1>1. /\ Len(h) = 10 /\ h \in Seq(ToSet(h)) /\ h[1][1] = 4 /\ h[2][1] = 1 /\ h[3][1] = 1
      /\ h[4][1] = 2 /\ h[5][1] = 4 /\ h[6][1] = 4 /\ h[7][1] = 4 /\ h[8][1] = 4 /\ h[9][1] = 2
      /\ h[10][1] = 2
  BY HeaderWords
<1>2. encode(p) = h \o y
  BY DEF encode, Header
<1>3. y \in Seq(ToSet(y)) /\ Len(y) \in Nat /\ \A i \in 1..Len(y) : y[i][1] \in Nat
  BY DEF IsWords
<1> HIDE DEF h, y
<1>4. h \in Seq(S) /\ y \in Seq(S)
  BY <1>1, <1>3, SeqMonotonic
<1> HIDE DEF S
<1>5. PICK e : e = h \o y
  OBVIOUS
<1>6. /\ e \in Seq(S) /\ Len(e) = 10 + Len(y)
      /\ \A i \in 1..10 : e[i] = h[i]
      /\ \A i \in 1..Len(y) : e[10 + i] = y[i]
  <2>1. /\ e \in Seq(S) /\ Len(e) = Len(h) + Len(y)
        /\ \A i \in 1..Len(h) + Len(y) : e[i] = IF i <= Len(h) THEN h[i] ELSE y[i - Len(h)]
    BY <1>4, <1>5, ConcatProperties
  <2> QED
    BY <1>1, <1>3, <2>1
<1>7. \A i \in 1..Len(e) : e[i][1] \in Nat
  <2> SUFFICES ASSUME NEW i \in 1..Len(e) PROVE e[i][1] \in Nat
    OBVIOUS
  <2>1. CASE i \in 1..10
    <3>1. e[i] = h[i]
      BY <1>6, <2>1
    <3> QED
      BY <1>1, <2>1, <3>1
  <2>2. CASE i > 10
    <3>1. i - 10 \in 1..Len(y) /\ 10 + (i - 10) = i
      BY <1>3, <1>6, <2>2
    <3> QED
      BY <1>3, <1>6, <3>1
  <2> QED
    BY <1>3, <1>6, <2>1, <2>2
<1>8. IsWords(e)
  BY <1>6, <1>7, OwnSequence DEF IsWords
<1>9. Ends(e)[10] = HeaderBytes
  <2> DEFINE z == [i \in DOMAIN HeaderFields |-> Word(HeaderFields[i][2], 0)]
  <2>1. DOMAIN z = 1..10 /\ \A i \in 1..10 : z[i] = <<HeaderFields[i][2], 0>>
    BY HeaderLayout DEF Word
  <2>2. \A i \in 1..10 : z[i][1] = h[i][1] /\ z[i][1] \in Nat
    BY <1>1, <2>1, HeaderLayout
  <2>3. HeaderBytes = Size(z)
    BY DEF HeaderBytes, Width
  <2>4. z = [i \in 1..10 |-> z[i]]
    BY <2>1
  <2> HIDE DEF z
  <2>5. Len(z) = 10
    BY <2>4, OwnElements
  <2>6. /\ Len(e) \in Nat /\ Len(z) \in Nat /\ Len(z) \in 0..Len(z) /\ Len(z) <= Len(e)
        /\ \A i \in 1..Len(z) : z[i][1] \in Nat
    BY <1>3, <1>6, <2>2, <2>5
  <2>7. \A i \in 1..Len(z) : e[i][1] = z[i][1]
    <3> SUFFICES ASSUME NEW i \in 1..10 PROVE e[i][1] = z[i][1]
      BY <2>5
    <3>1. e[i] = h[i]
      BY <1>6
    <3> QED
      BY <2>2, <3>1
  <2>8. Ends(e)[Len(z)] = Ends(z)[Len(z)]
    BY <1>7, <2>6, <2>7, EndsSame
  <2> QED
    BY <2>3, <2>5, <2>8 DEF Size
<1>10. ASSUME NEW k \in 0..Len(y)
       PROVE  Ends(e)[10 + k] = HeaderBytes + Ends(y)[k]
  <2>1. /\ Len(e) \in Nat /\ 10 \in 0..Len(e) /\ 10 + k <= Len(e)
        /\ \A i \in 1..k : e[10 + i][1] = y[i][1]
    <3>1. k \in Nat /\ k <= Len(y) /\ Len(y) \in Nat /\ Len(e) = 10 + Len(y)
      BY <1>3, <1>6
    <3>2. ASSUME NEW i \in 1..k PROVE e[10 + i][1] = y[i][1]
      <4>1. i \in 1..Len(y)
        BY <3>1
      <4>2. e[10 + i] = y[i]
        BY <1>6, <4>1
      <4> QED
        BY <4>2
    <3>3. Len(e) \in Nat /\ 10 \in 0..Len(e) /\ 10 + k <= Len(e)
      BY <3>1
    <3> QED
      BY <3>2, <3>3
  <2>2. Ends(e)[10 + k] = Ends(e)[10] + Ends(y)[k]
    BY <1>3, <1>7, <2>1, EndsShift, SMTT(30)
  <2> QED
    BY <1>9, <2>2
<1>11. e = encode(p)
  BY <1>2, <1>5
<1> QED
  BY <1>6, <1>8, <1>10, <1>11 DEF h, y

-----------------------------------------------------------------------------
(* Decoding *)

\* Fields of which no two have the same name, but for pads.
Layout(fields) ==
    /\ DOMAIN fields = 1..Len(fields) /\ Len(fields) \in Nat
    /\ \A i, j \in DOMAIN fields : fields[i][1] = fields[j][1] => i = j \/ fields[i][1] = Pad

Names(fields) == {fields[i][1] : i \in DOMAIN fields} \ {Pad}

\* A decoder finds under a field's name the word in the field's place.
LEMMA ReadFields ==
  ASSUME NEW fields, Layout(fields), NEW words, Readable(fields, words)
  PROVE  /\ DOMAIN Read_(fields, words) = Names(fields)
         /\ \A i \in DOMAIN fields : fields[i][1] # Pad =>
               fields[i][1] \in Names(fields) /\ Read_(fields, words)[fields[i][1]] = words[i][2]
<1> DEFINE at(f) == CHOOSE i \in DOMAIN fields : fields[i][1] = f
           r == [f \in Names(fields) |-> words[at(f)][2]]
<1>1. Read_(fields, words) = r
  BY Zenon DEF Read_, Names
<1>2. ASSUME NEW i \in DOMAIN fields, fields[i][1] # Pad
      PROVE  fields[i][1] \in Names(fields) /\ r[fields[i][1]] = words[i][2]
  <2>1. fields[i][1] \in Names(fields)
    BY <1>2 DEF Names
  <2>2. at(fields[i][1]) \in DOMAIN fields /\ fields[at(fields[i][1])][1] = fields[i][1]
    BY <1>2
  <2>3. at(fields[i][1]) = i
    BY <1>2, <2>2 DEF Layout
  <2> QED
    BY <2>1, <2>3
<1> HIDE DEF r
<1>3. DOMAIN r = Names(fields)
  BY DEF r
<1> QED
  BY <1>1, <1>2, <1>3

LEMMA HeaderIsLayout == Layout(HeaderFields)
<1>1. /\ "magic" # Pad /\ "version" # Pad /\ "msg_type" # Pad /\ "room_id" # Pad
      /\ "player_id" # Pad /\ "seq" # Pad /\ "tick" # Pad /\ "payload_len" # Pad
  BY DEF Pad
<1> QED
  BY <1>1, HeaderLayout DEF Layout

\* What a decoder reads of a header that is there whole.
LEMMA ReadHeader ==
  ASSUME NEW p, AnyPacket(p), NEW words, Readable(HeaderFields, words),
         \A i \in 1..10 : words[i] = Header(p)[i],
         NEW r, r = Read_(HeaderFields, words)
  PROVE  /\ r.magic = p.magic /\ r.version = p.version /\ r.msg_type = p.msg_type
         /\ r.room_id = p.room_id /\ r.player_id = p.player_id /\ r.seq = p.seq
         /\ r.tick = p.tick /\ r.payload_len = Size(p.payload) % LenSpace
         /\ DOMAIN r = {"magic", "version", "msg_type", "room_id", "player_id", "seq", "tick",
                        "payload_len"}
<1>1. /\ "magic" # Pad /\ "version" # Pad /\ "msg_type" # Pad /\ "room_id" # Pad
      /\ "player_id" # Pad /\ "seq" # Pad /\ "tick" # Pad /\ "payload_len" # Pad
  BY DEF Pad
<1>2. /\ DOMAIN r = Names(HeaderFields)
      /\ \A i \in 1..10 : HeaderFields[i][1] # Pad => r[HeaderFields[i][1]] = words[i][2]
  BY HeaderIsLayout, HeaderLayout, ReadFields
<1>3. /\ r["magic"] = words[1][2] /\ r["version"] = words[2][2] /\ r["msg_type"] = words[3][2]
      /\ r["room_id"] = words[5][2] /\ r["player_id"] = words[6][2] /\ r["seq"] = words[7][2]
      /\ r["tick"] = words[8][2] /\ r["payload_len"] = words[9][2]
  BY <1>1, <1>2, HeaderLayout
<1>4. /\ words[1][2] = p.magic /\ words[2][2] = p.version /\ words[3][2] = p.msg_type
      /\ words[5][2] = p.room_id /\ words[6][2] = p.player_id /\ words[7][2] = p.seq
      /\ words[8][2] = p.tick /\ words[9][2] = Size(p.payload) % LenSpace
  BY HeaderWords
<1>5. Names(HeaderFields) = {"magic", "version", "msg_type", "room_id", "player_id", "seq",
                             "tick", "payload_len"}
  BY <1>1, HeaderLayout DEF Names
<1> QED
  BY <1>2, <1>3, <1>4, <1>5

LEMMA CutPayload ==
  ASSUME NEW p, AnyPacket(p), IsWords(p.payload), NEW n \in 10..Len(encode(p))
  PROVE  SubSeq(SubSeq(encode(p), 1, n), 11, n) = SubSeq(p.payload, 1, n - 10)
<1>1. PICK e : e = encode(p)
  OBVIOUS
<1>2. PICK y : y = p.payload
  OBVIOUS
<1>3. /\ e \in Seq(ToSet(e)) /\ Len(e) = 10 + Len(y) /\ y \in Seq(ToSet(y)) /\ Len(y) \in Nat
      /\ \A i \in 1..Len(y) : e[10 + i] = y[i]
  BY <1>1, <1>2, EncodeParts, SMTT(30) DEF IsWords
<1>4. PICK d : d = SubSeq(e, 1, n)
  OBVIOUS
<1>5. n \in 10..(10 + Len(y)) /\ n \in Nat
  BY <1>1, <1>3
<1>6. /\ d \in Seq(ToSet(e)) /\ Len(d) = n /\ \A i \in 1..n : d[i] = e[i]
  BY <1>3, <1>4, <1>5
<1>7. PICK r : r = SubSeq(d, 11, n)
  OBVIOUS
<1>8. r \in Seq(ToSet(e)) /\ Len(r) = n - 10 /\ \A i \in 1..(n - 10) : r[i] = d[10 + i]
  BY <1>5, <1>6, <1>7
<1>9. PICK s : s = SubSeq(y, 1, n - 10)
  OBVIOUS
<1>10. s \in Seq(ToSet(y)) /\ Len(s) = n - 10 /\ \A i \in 1..(n - 10) : s[i] = y[i]
  BY <1>3, <1>5, <1>9
<1>11. \A i \in 1..(n - 10) : r[i] = s[i]
  <2> SUFFICES ASSUME NEW i \in 1..(n - 10) PROVE r[i] = s[i]
    OBVIOUS
  <2>1. 10 + i \in 1..n /\ i \in 1..Len(y)
    BY <1>5
  <2>2. d[10 + i] = e[10 + i] /\ e[10 + i] = y[i]
    BY <1>3, <1>6, <2>1
  <2> QED
    BY <1>8, <1>10, <2>2
<1>12. r \in Seq(ToSet(e) \cup ToSet(y)) /\ s \in Seq(ToSet(e) \cup ToSet(y))
  BY <1>8, <1>10, SeqMonotonic
<1>13. r = s
  BY <1>8, <1>10, <1>11, <1>12, SeqEqual
<1> QED
  BY <1>1, <1>2, <1>4, <1>7, <1>9, <1>13

\* What decode makes of a datagram that is cut after its n-th word, if anything.
LEMMA DecodeCut ==
  ASSUME NEW p, AnyPacket(p), IsWords(p.payload), NEW n \in 0..Len(encode(p)),
         NEW q, q = decode(SubSeq(encode(p), 1, n)), q # Refused,
         NEW rest, rest = SubSeq(p.payload, 1, n - 10)
  PROVE  /\ n \in 10..Len(encode(p))
         /\ q.msg_type = p.msg_type /\ q.room_id = p.room_id /\ q.player_id = p.player_id
         /\ q.seq = p.seq /\ q.tick = p.tick /\ q.version = p.version
         /\ Size(p.payload) % LenSpace <= Size(rest)
         /\ q.payload = Prefix(rest, Size(p.payload) % LenSpace)
<1> DEFINE len == Size(p.payload) % LenSpace
<1>1. PICK d : d = SubSeq(encode(p), 1, n)
  OBVIOUS
<1>2. /\ Len(encode(p)) \in Nat /\ encode(p) \in Seq(ToSet(encode(p)))
      /\ \A i \in 1..10 : encode(p)[i] = Header(p)[i]
      /\ Len(encode(p)) >= 10
  <2>1. /\ IsWords(encode(p)) /\ \A i \in 1..10 : encode(p)[i] = Header(p)[i]
        /\ Len(encode(p)) = 10 + Len(p.payload)
    BY EncodeParts
  <2>2. Len(p.payload) \in Nat
    BY DEF IsWords
  <2> QED
    BY <2>1, <2>2 DEF IsWords
<1>3. Len(d) = n /\ \A i \in 1..n : d[i] = encode(p)[i]
  <2>1. PICK e : e = encode(p)
    OBVIOUS
  <2>2. d = SubSeq(e, 1, n) /\ n \in 0..Len(e) /\ e \in Seq(ToSet(e))
    BY <1>1, <1>2, <2>1
  <2>3. Len(d) = n /\ \A i \in 1..n : d[i] = e[i]
    BY <2>2
  <2> QED
    BY <2>1, <2>3
<1>4. PICK r : r = Read_(HeaderFields, d)
  OBVIOUS
<1>5. PICK s : s = SubSeq(d, Len(HeaderFields) + 1, Len(d))
  OBVIOUS
<1>6. /\ r # Refused /\ PayloadFits(r.payload_len, s)
      /\ q = Together(r, [payload |-> Prefix(s, r.payload_len)])
  BY <1>1, <1>4, <1>5 DEF decode
<1>7. Readable(HeaderFields, d)
  BY <1>4, <1>6 DEF Read_
<1>8. n >= 10
  <2>1. Len(d) >= Len(HeaderFields)
    BY <1>7 DEF Readable
  <2> QED
    BY <1>3, <2>1, HeaderLayout
<1>9. \A i \in 1..10 : d[i] = Header(p)[i]
  <2>1. TAKE i \in 1..10
  <2>2. i \in 1..n
    BY <1>8
  <2>3. d[i] = encode(p)[i]
    BY <1>3, <2>2
  <2>4. encode(p)[i] = Header(p)[i]
    BY <1>2
  <2> QED
    BY <2>3, <2>4
<1>10. /\ r.magic = p.magic /\ r.version = p.version /\ r.msg_type = p.msg_type
       /\ r.room_id = p.room_id /\ r.player_id = p.player_id /\ r.seq = p.seq
       /\ r.tick = p.tick /\ r.payload_len = Size(p.payload) % LenSpace
       /\ DOMAIN r = {"magic", "version", "msg_type", "room_id", "player_id", "seq", "tick",
                      "payload_len"}
  BY <1>4, <1>7, <1>9, ReadHeader
<1>11. s = rest
  <2>1. n \in 10..Len(encode(p))
    BY <1>2, <1>8
  <2>2. SubSeq(SubSeq(encode(p), 1, n), 11, n) = SubSeq(p.payload, 1, n - 10)
    BY <2>1, CutPayload
  <2>3. s = SubSeq(d, 11, n)
    BY <1>3, <1>5, HeaderLayout
  <2> QED
    BY <1>1, <2>2, <2>3
<1>12. PICK y : y = Prefix(rest, len)
  OBVIOUS
<1>13. q = Together(r, [payload |-> y])
  BY <1>6, <1>10, <1>11, <1>12
<1>14. /\ q["msg_type"] = r["msg_type"] /\ q["room_id"] = r["room_id"]
       /\ q["player_id"] = r["player_id"] /\ q["seq"] = r["seq"] /\ q["tick"] = r["tick"]
       /\ q["version"] = r["version"] /\ q["payload"] = y
  BY <1>10, <1>13 DEF Together
<1>15. len <= Size(rest)
  BY <1>6, <1>10, <1>11 DEF PayloadFits
<1>16. n \in 10..Len(encode(p))
  BY <1>2, <1>8
<1> QED
  BY <1>10, <1>12, <1>14, <1>15, <1>16

\* A packet that UDP carries is refused when it is cut, and else read as it was sent.
LEMMA DecodeSent ==
  ASSUME NEW p, AnyPacket(p), IsWords(p.payload), Size(p.payload) < LenSpace,
         NEW bytes \in Nat, NEW q, q = decode(Prefix(encode(p), bytes)), q # Refused
  PROVE  /\ q.msg_type = p.msg_type /\ q.room_id = p.room_id /\ q.player_id = p.player_id
         /\ q.seq = p.seq /\ q.tick = p.tick /\ q.version = p.version
         /\ q.payload = p.payload
         /\ HeaderBytes + Size(p.payload) <= bytes
<1>1. PICK e : e = encode(p)
  OBVIOUS
<1>2. PICK y : y = p.payload
  OBVIOUS
<1>3. /\ IsWords(e) /\ Len(e) = 10 + Len(y)
      /\ \A k \in 0..Len(y) : Ends(e)[10 + k] = HeaderBytes + Ends(y)[k]
  BY <1>1, <1>2, EncodeParts
<1>4. /\ Len(y) \in Nat /\ y \in Seq(ToSet(y)) /\ \A i \in 1..Len(y) : y[i][1] \in Nat
      /\ Len(e) \in Nat /\ e \in Seq(ToSet(e)) /\ \A i \in 1..Len(e) : e[i][1] \in Nat
  <2>1. y \in Seq(ToSet(y)) /\ \A i \in 1..Len(y) : y[i][1] \in Nat
    BY <1>2 DEF IsWords
  <2>2. e \in Seq(ToSet(e)) /\ \A i \in 1..Len(e) : e[i][1] \in Nat
    BY <1>3 DEF IsWords
  <2>3. Len(y) \in Nat /\ Len(e) \in Nat
    BY <2>1, <2>2, LenProperties
  <2> QED
    BY <2>1, <2>2, <2>3
<1>5. PICK n \in 0..Len(e) : /\ Prefix(e, bytes) = SubSeq(e, 1, n)
                             /\ Ends(e)[n] <= bytes
                             /\ Size(e) <= bytes => n = Len(e)
  BY <1>4, PrefixCuts
<1>6. Size(y) \in Nat /\ HeaderBytes \in Nat
  <2>1. \A k \in 0..Len(y) : Ends(y)[k] \in Nat
    BY <1>4, EndsType
  <2> QED
    BY <1>4, <2>1, HeaderSize DEF Size
<1>7. Size(y) % LenSpace = Size(y)
  BY <1>2, <1>6, CodecAssumption DEF CodecAssumption
<1>8. PICK r : r = SubSeq(y, 1, n - 10)
  OBVIOUS
<1>9. /\ n \in 10..Len(e)
      /\ q.msg_type = p.msg_type /\ q.room_id = p.room_id /\ q.player_id = p.player_id
      /\ q.seq = p.seq /\ q.tick = p.tick /\ q.version = p.version
      /\ Size(y) <= Size(r) /\ q.payload = Prefix(r, Size(y))
  <2>1. n \in 0..Len(encode(p)) /\ q = decode(SubSeq(encode(p), 1, n))
    BY <1>1, <1>5
  <2>2. r = SubSeq(p.payload, 1, n - 10)
    BY <1>2, <1>8
  <2>3. /\ n \in 10..Len(encode(p))
        /\ q.msg_type = p.msg_type /\ q.room_id = p.room_id /\ q.player_id = p.player_id
        /\ q.seq = p.seq /\ q.tick = p.tick /\ q.version = p.version
        /\ Size(p.payload) % LenSpace <= Size(r)
        /\ q.payload = Prefix(r, Size(p.payload) % LenSpace)
    BY <2>1, <2>2, DecodeCut, ZenonT(60)
  <2> QED
    BY <1>1, <1>2, <1>7, <2>3
<1>10. PICK k : k = n - 10
  OBVIOUS
<1>11. k \in 0..Len(y) /\ n = 10 + k /\ r = SubSeq(y, 1, k)
  BY <1>3, <1>4, <1>8, <1>9, <1>10
<1>12. Len(r) = k /\ r \in Seq(ToSet(y)) /\ \A i \in 1..k : r[i] = y[i]
  BY <1>4, <1>11
<1>13. Size(r) = Ends(y)[k]
  <2>1. /\ Len(r) \in Nat /\ k \in 0..Len(y) /\ k <= Len(r)
        /\ \A i \in 1..Len(r) : r[i][1] \in Nat
        /\ \A i \in 1..k : r[i][1] = y[i][1]
    BY <1>4, <1>11, <1>12
  <2>2. Ends(r)[k] = Ends(y)[k]
    BY <1>4, <2>1, EndsSame
  <2> QED
    BY <1>12, <2>2 DEF Size
<1>14. Size(e) = HeaderBytes + Size(y)
  <2>1. Len(y) \in 0..Len(y)
    BY <1>4
  <2> QED
    BY <1>3, <2>1 DEF Size
<1>15. Size(e) <= bytes
  <2>1. Ends(y)[k] \in Nat /\ Ends(e)[n] = HeaderBytes + Ends(y)[k]
    BY <1>3, <1>4, <1>11, EndsType
  <2> QED
    BY <1>5, <1>6, <1>9, <1>13, <1>14, <2>1
<1>16. k = Len(y)
  BY <1>3, <1>4, <1>5, <1>11, <1>15
<1>17. r = y
  BY <1>4, <1>11, <1>16
<1>18. Prefix(r, Size(y)) = y
  BY <1>6, <1>17 DEF Prefix, Size
<1> QED
  BY <1>2, <1>9, <1>14, <1>15, <1>18

-----------------------------------------------------------------------------
(* Messages *)

\* Fields in order, each some bytes wide.
Wide(fields) ==
    /\ DOMAIN fields = 1..Len(fields) /\ Len(fields) \in Nat
    /\ \A i \in DOMAIN fields : fields[i][2] \in Nat

Fields(fields) == Layout(fields) /\ Wide(fields)

LEMMA AppendWords ==
  ASSUME NEW fields, Wide(fields), NEW in
  PROVE  /\ IsWords(Append_(fields, in))
         /\ Len(Append_(fields, in)) = Len(fields)
         /\ \A i \in 1..Len(fields) :
               Append_(fields, in)[i] =
                  <<fields[i][2], IF fields[i][1] = Pad THEN 0 ELSE in[fields[i][1]]>>
<1>1. PICK w : w = Append_(fields, in)
  OBVIOUS
<1>2. DOMAIN fields = 1..Len(fields) /\ Len(fields) \in Nat
  BY DEF Wide
<1>3. w = [i \in 1..Len(fields) |->
              <<fields[i][2], IF fields[i][1] = Pad THEN 0 ELSE in[fields[i][1]]>>]
  BY <1>1, <1>2, Zenon DEF Append_, Word
<1>4. \A i \in 1..Len(fields) :
         /\ w[i] = <<fields[i][2], IF fields[i][1] = Pad THEN 0 ELSE in[fields[i][1]]>>
         /\ w[i][1] = fields[i][2]
  BY <1>3
<1>5. w = [i \in 1..Len(fields) |-> w[i]]
  BY <1>3
<1>6. w \in Seq(ToSet(w)) /\ Len(w) = Len(fields)
  BY <1>2, <1>5, OwnElements
<1>7. \A i \in 1..Len(w) : w[i][1] \in Nat
  BY <1>2, <1>4, <1>6 DEF Wide
<1> QED
  BY <1>1, <1>4, <1>6, <1>7 DEF IsWords

\* Words that begin as an encoder writes the fields.
StartWith(words, fields, in) ==
    /\ Len(words) >= Len(fields)
    /\ \A i \in 1..Len(fields) : words[i] = Append_(fields, in)[i]

\* What a decoder reads of them.
Named(fields, in) == [f \in Names(fields) |-> in[f]]

LEMMA ReadFront ==
  ASSUME NEW fields, Fields(fields), NEW in, NEW words, StartWith(words, fields, in)
  PROVE  Read_(fields, words) = Named(fields, in)
<1>1. DOMAIN fields = 1..Len(fields) /\ Layout(fields)
  BY DEF Fields, Layout
<1>2. /\ Len(words) >= Len(fields)
      /\ \A i \in 1..Len(fields) :
            words[i] = <<fields[i][2], IF fields[i][1] = Pad THEN 0 ELSE in[fields[i][1]]>>
  BY AppendWords DEF Fields, StartWith
<1>3. Readable(fields, words)
  BY <1>1, <1>2 DEF Readable
<1> DEFINE at(f) == CHOOSE i \in DOMAIN fields : fields[i][1] = f
<1>4. Read_(fields, words) = [f \in Names(fields) |-> words[at(f)][2]]
  BY <1>3, Zenon DEF Read_, Names
<1>5. ASSUME NEW f \in Names(fields) PROVE words[at(f)][2] = in[f]
  <2>1. f # Pad /\ \E i \in DOMAIN fields : fields[i][1] = f
    BY DEF Names
  <2>2. at(f) \in DOMAIN fields /\ fields[at(f)][1] = f
    BY <2>1
  <2> QED
    BY <1>1, <1>2, <2>1, <2>2
<1> HIDE DEF at
<1> QED
  BY <1>4, <1>5 DEF Named

\* A message of named fields comes back whole.
LEMMA ReadAppended ==
  ASSUME NEW fields, Fields(fields), NEW in
  PROVE  Read_(fields, Append_(fields, in)) = [f \in Names(fields) |-> in[f]]
<1>1. Len(Append_(fields, in)) = Len(fields) /\ Len(fields) \in Nat
  BY AppendWords DEF Fields, Wide
<1>2. StartWith(Append_(fields, in), fields, in)
  BY <1>1 DEF StartWith
<1> QED
  BY <1>2, ReadFront DEF Named

LEMMA JoinKept ==
  ASSUME NEW in
  PROVE  decode_join(encode_join(in)) = [f \in {"desired_room_id"} |-> in[f]]
<1> DEFINE fields == <<U32("desired_room_id")>>
<1>1. Fields(fields) /\ Names(fields) = {"desired_room_id"}
  BY DEF Fields, Layout, Wide, Names, U32, Pad
<1> HIDE DEF fields
<1>2. Read_(fields, Append_(fields, in)) = [f \in Names(fields) |-> in[f]]
  BY <1>1, ReadAppended
<1> QED
  BY <1>1, <1>2, Zenon DEF fields, decode_join, encode_join

AckNames == {"room_id", "player_id", "server_tick", "tick_interval_ms"}

LEMMA AckKept ==
  ASSUME NEW in
  PROVE  decode_join_ack(encode_join_ack(in)) = [f \in AckNames |-> in[f]]
<1> DEFINE fields == <<U32("room_id"), U32("player_id"), U32("server_tick"), U32("tick_interval_ms")>>
<1>1. Fields(fields) /\ Names(fields) = AckNames
  BY DEF Fields, Layout, Wide, Names, U32, Pad, AckNames
<1> HIDE DEF fields
<1>2. Read_(fields, Append_(fields, in)) = [f \in Names(fields) |-> in[f]]
  BY <1>1, ReadAppended
<1> QED
  BY <1>1, <1>2, Zenon DEF fields, decode_join_ack, encode_join_ack

EventNames == {"event_type", "target_id", "value", "extra"}

LEMMA EventKept ==
  ASSUME NEW in
  PROVE  decode_event(encode_event(in)) = [f \in EventNames |-> in[f]]
<1> DEFINE fields == <<U8("event_type"), Pads, U32("target_id"), U32("value"), U32("extra")>>
<1>1. fields = << <<"event_type", 1>>, <<Pad, 3>>, <<"target_id", 4>>, <<"value", 4>>,
                  <<"extra", 4>> >>
  BY DEF Pads, U8, U32
<1>2. Fields(fields) /\ Names(fields) = EventNames
  BY <1>1 DEF Fields, Layout, Wide, Names, Pad, EventNames
<1> HIDE DEF fields
<1>3. Read_(fields, Append_(fields, in)) = [f \in Names(fields) |-> in[f]]
  BY <1>2, ReadAppended
<1> QED
  BY <1>2, <1>3, Zenon DEF fields, decode_event, encode_event

FireNames == {"client_tick", "weapon_id", "origin_x", "origin_y", "origin_z",
              "dir_x", "dir_y", "dir_z"}

LEMMA FireKept ==
  ASSUME NEW in
  PROVE  decode_fire(encode_fire(in)) = [f \in FireNames |-> in[f]]
<1> DEFINE fields == <<U32("client_tick"), U8("weapon_id"), Pads,
                       U32("origin_x"), U32("origin_y"), U32("origin_z"),
                       U32("dir_x"), U32("dir_y"), U32("dir_z")>>
<1>1. fields = << <<"client_tick", 4>>, <<"weapon_id", 1>>, <<Pad, 3>>,
                  <<"origin_x", 4>>, <<"origin_y", 4>>, <<"origin_z", 4>>,
                  <<"dir_x", 4>>, <<"dir_y", 4>>, <<"dir_z", 4>> >>
  BY DEF Pads, U8, U32
<1>2. Fields(fields) /\ Names(fields) = FireNames
  BY <1>1 DEF Fields, Layout, Wide, Names, Pad, FireNames
<1> HIDE DEF fields
<1>3. Read_(fields, Append_(fields, in)) = [f \in Names(fields) |-> in[f]]
  BY <1>2, ReadAppended
<1> QED
  BY <1>2, <1>3, Zenon DEF fields, decode_fire, encode_fire

LEMMA WeaponKept ==
  ASSUME NEW in
  PROVE  decode_weapon(encode_weapon(in)) = [f \in {"weapon_id"} |-> in[f]]
<1> DEFINE fields == <<U8("weapon_id"), Pads>>
<1>1. fields = << <<"weapon_id", 1>>, <<Pad, 3>> >>
  BY DEF Pads, U8
<1>2. Fields(fields) /\ Names(fields) = {"weapon_id"}
  BY <1>1 DEF Fields, Layout, Wide, Names, Pad
<1> HIDE DEF fields
<1>3. Read_(fields, Append_(fields, in)) = [f \in Names(fields) |-> in[f]]
  BY <1>2, ReadAppended
<1> QED
  BY <1>2, <1>3, Zenon DEF fields, decode_weapon, encode_weapon

LEMMA MatchStateKept ==
  ASSUME NEW in
  PROVE  decode_match_state(encode_match_state(in)) =
            [f \in {"time_left_sec", "match_over"} |-> in[f]]
<1> DEFINE fields == <<U32("time_left_sec"), U8("match_over"), Pads>>
<1>1. fields = << <<"time_left_sec", 4>>, <<"match_over", 1>>, <<Pad, 3>> >>
  BY DEF Pads, U8, U32
<1>2. Fields(fields) /\ Names(fields) = {"time_left_sec", "match_over"}
  BY <1>1 DEF Fields, Layout, Wide, Names, Pad
<1> HIDE DEF fields
<1>3. Read_(fields, Append_(fields, in)) = [f \in Names(fields) |-> in[f]]
  BY <1>2, ReadAppended
<1> QED
  BY <1>2, <1>3, Zenon DEF fields, decode_match_state, encode_match_state

LEMMA PingKept ==
  ASSUME NEW c
  PROVE  decode_ping(encode_ping(c)) = [f \in {"client_send"} |-> c]
<1> DEFINE fields == <<U64("client_send")>>
           in     == [client_send |-> c]
<1>1. fields = << <<"client_send", 8>> >>
  BY DEF U64
<1>2. Fields(fields) /\ Names(fields) = {"client_send"} /\ Len(fields) = 1
  BY <1>1 DEF Fields, Layout, Wide, Names, Pad
<1>3. Len(encode_ping(c)) = 1 /\ encode_ping(c)[1] = <<8, c>>
  BY DEF encode_ping, Word
<1>4. Append_(fields, in)[1] = <<8, c>>
  <2>1. fields[1] = <<"client_send", 8>> /\ "client_send" # Pad /\ in["client_send"] = c
    BY <1>1 DEF Pad
  <2> HIDE DEF fields, in
  <2> QED
    BY <1>2, <2>1, AppendWords DEF Fields
<1> HIDE DEF fields
<1>5. Read_(fields, encode_ping(c)) = [f \in Names(fields) |-> in[f]]
  <2> HIDE DEF in
  <2>1. StartWith(encode_ping(c), fields, in)
    BY <1>2, <1>3, <1>4 DEF StartWith
  <2> QED
    BY <1>2, <2>1, ReadFront DEF Named
<1>6. [f \in {"client_send"} |-> in[f]] = [f \in {"client_send"} |-> c]
  OBVIOUS
<1> QED
  BY <1>2, <1>5, <1>6, Zenon DEF fields, decode_ping

LEMMA PongKept ==
  ASSUME NEW c, NEW r, NEW s, NEW in,
         in = [client_send |-> c, server_recv |-> r, server_send |-> s]
  PROVE  decode_pong(encode_pong(c, r, s)) = in
<1> DEFINE fields == <<U64("client_send"), U64("server_recv"), U64("server_send")>>
<1>1. fields = << <<"client_send", 8>>, <<"server_recv", 8>>, <<"server_send", 8>> >>
  BY DEF U64
<1>2. /\ Fields(fields) /\ Names(fields) = {"client_send", "server_recv", "server_send"}
      /\ Len(fields) = 3
  BY <1>1 DEF Fields, Layout, Wide, Names, Pad
<1>3. PICK w : w = encode_pong(c, r, s)
  OBVIOUS
<1>4. Len(w) = 3 /\ w[1] = <<8, c>> /\ w[2] = <<8, r>> /\ w[3] = <<8, s>>
  BY <1>3 DEF encode_pong, Word
<1>5. PICK x : x = Append_(fields, in)
  OBVIOUS
<1>6. x[1] = <<8, c>> /\ x[2] = <<8, r>> /\ x[3] = <<8, s>>
  <2>1. /\ fields[1] = <<"client_send", 8>> /\ "client_send" # Pad /\ in["client_send"] = c
        /\ fields[2] = <<"server_recv", 8>> /\ "server_recv" # Pad /\ in["server_recv"] = r
        /\ fields[3] = <<"server_send", 8>> /\ "server_send" # Pad /\ in["server_send"] = s
    BY <1>1 DEF Pad
  <2> HIDE DEF fields
  <2>2. \A i \in 1..3 : x[i] = <<fields[i][2], IF fields[i][1] = Pad THEN 0 ELSE in[fields[i][1]]>>
    BY <1>2, <1>5, AppendWords DEF Fields
  <2> QED
    BY <2>1, <2>2
<1> HIDE DEF fields
<1>7. Read_(fields, w) = [f \in Names(fields) |-> in[f]]
  <2>1. Len(w) >= Len(fields) /\ \A i \in 1..Len(fields) : w[i] = x[i]
    BY <1>2, <1>4, <1>6
  <2>2. StartWith(w, fields, in)
    BY <1>5, <2>1 DEF StartWith
  <2> QED
    BY <1>2, <2>2, ReadFront DEF Named
<1>8. [f \in {"client_send", "server_recv", "server_send"} |-> in[f]] = in
  OBVIOUS
<1> QED
  BY <1>2, <1>3, <1>7, <1>8, Zenon DEF fields, decode_pong

InputNames == {"input_seq", "client_tick", "move_x", "move_y", "yaw", "pitch", "buttons"}
PosNames   == {"pos_x", "pos_y", "pos_z", "has_pos"}

LEMMA InputLayout ==
  /\ InputFields = << <<"input_seq", 4>>, <<"client_tick", 4>>, <<"move_x", 1>>, <<"move_y", 1>>,
                      <<"yaw", 2>>, <<"pitch", 2>>, <<"buttons", 2>> >>
  /\ Fields(InputFields) /\ Names(InputFields) = InputNames /\ Len(InputFields) = 7
  /\ InputFields \in Seq(ToSet(InputFields))
<1>1. InputFields = << <<"input_seq", 4>>, <<"client_tick", 4>>, <<"move_x", 1>>, <<"move_y", 1>>,
                       <<"yaw", 2>>, <<"pitch", 2>>, <<"buttons", 2>> >>
  BY DEF InputFields, U8, U16, U32
<1>2. Fields(InputFields) /\ Names(InputFields) = InputNames /\ Len(InputFields) = 7
  BY <1>1 DEF Fields, Layout, Wide, Names, Pad, InputNames
<1>3. InputFields \in Seq(ToSet(InputFields))
  <2>1. InputFields = [i \in 1..7 |-> InputFields[i]]
    BY <1>1
  <2> QED
    BY <2>1, OwnElements
<1> QED
  BY <1>1, <1>2, <1>3

LEMMA PosLayout ==
  /\ PosFields = << <<"pos_x", 4>>, <<"pos_y", 4>>, <<"pos_z", 4>>, <<"has_pos", 1>>, <<Pad, 3>> >>
  /\ Fields(PosFields) /\ Names(PosFields) = PosNames /\ Len(PosFields) = 5
  /\ PosFields \in Seq(ToSet(PosFields))
<1>1. PosFields = << <<"pos_x", 4>>, <<"pos_y", 4>>, <<"pos_z", 4>>, <<"has_pos", 1>>, <<Pad, 3>> >>
  BY DEF PosFields, Pads, U8, U32
<1>2. Fields(PosFields) /\ Names(PosFields) = PosNames /\ Len(PosFields) = 5
  BY <1>1 DEF Fields, Layout, Wide, Names, Pad, PosNames
<1>3. PosFields \in Seq(ToSet(PosFields))
  <2>1. PosFields = [i \in 1..5 |-> PosFields[i]]
    BY <1>1
  <2> QED
    BY <2>1, OwnElements
<1> QED
  BY <1>1, <1>2, <1>3

\* The words of an input: those of its two parts.
LEMMA InputWords ==
  ASSUME NEW in, NEW w, w = encode_input(in)
  PROVE  /\ IsWords(w) /\ Len(w) = 12
         /\ \A i \in 1..7 : w[i] = Append_(InputFields, in)[i]
         /\ \A i \in 1..5 : w[7 + i] = Append_(PosFields, in)[i]
         /\ w[8][1] = 4 /\ w[9][1] = 4 /\ w[10][1] = 4 /\ w[11][1] = 1
         /\ w[12][1] = 3
<1>0. PICK fields : fields = InputFields \o PosFields
  OBVIOUS
<1>1. /\ Len(fields) = 12 /\ fields \in Seq(ToSet(fields))
      /\ \A i \in 1..12 : fields[i] = IF i <= 7 THEN InputFields[i] ELSE PosFields[i - 7]
  <2>1. PICK S : S = ToSet(InputFields) \cup ToSet(PosFields)
    OBVIOUS
  <2>2. InputFields \in Seq(ToSet(InputFields)) /\ PosFields \in Seq(ToSet(PosFields))
    BY InputLayout, PosLayout
  <2>3. InputFields \in Seq(S) /\ PosFields \in Seq(S)
    BY <2>1, <2>2, SeqMonotonic
  <2>4. /\ fields \in Seq(S) /\ Len(fields) = Len(InputFields) + Len(PosFields)
        /\ \A i \in 1..Len(InputFields) + Len(PosFields) :
              fields[i] = IF i <= Len(InputFields) THEN InputFields[i]
                          ELSE PosFields[i - Len(InputFields)]
    BY <1>0, <2>3, ConcatProperties
  <2> QED
    BY <2>4, InputLayout, PosLayout, OwnSequence
<1>2. /\ \A i \in 1..7 : fields[i] = InputFields[i]
      /\ \A i \in 1..5 : fields[7 + i] = PosFields[i]
  BY <1>1
<1>3. \A i \in 1..7 : InputFields[i][2] \in Nat
  BY InputLayout
<1>4. Wide(fields) /\ Len(fields) = 12
  <2>1. \A i \in 1..5 : PosFields[i][2] \in Nat
    BY PosLayout
  <2>2. \A i \in 1..12 : fields[i][2] \in Nat
    <3> SUFFICES ASSUME NEW i \in 1..12 PROVE fields[i][2] \in Nat
      OBVIOUS
    <3>1. CASE i \in 1..7
      BY <1>2, <1>3, <3>1
    <3>2. CASE i - 7 \in 1..5
      <4>1. fields[i] = PosFields[i - 7]
        BY <1>1, <3>2
      <4> QED
        BY <2>1, <3>2, <4>1
    <3> QED
      BY <3>1, <3>2
  <2>3. DOMAIN fields = 1..12
    BY <1>1, LenProperties
  <2> QED
    BY <1>1, <2>2, <2>3 DEF Wide
<1>5. /\ fields[8][2] = 4 /\ fields[9][2] = 4 /\ fields[10][2] = 4 /\ fields[11][2] = 1
      /\ fields[12][2] = 3
  <2>1. /\ fields[8] = PosFields[1] /\ fields[9] = PosFields[2] /\ fields[10] = PosFields[3]
        /\ fields[11] = PosFields[4] /\ fields[12] = PosFields[5]
    BY <1>1
  <2> QED
    BY <2>1, PosLayout
<1>6. w = Append_(fields, in)
  BY <1>0, Zenon DEF encode_input
<1>7. /\ IsWords(w) /\ Len(w) = 12
      /\ \A i \in 1..12 : w[i] = <<fields[i][2], IF fields[i][1] = Pad THEN 0 ELSE in[fields[i][1]]>>
  <2>1. /\ IsWords(Append_(fields, in)) /\ Len(Append_(fields, in)) = Len(fields)
        /\ \A i \in 1..Len(fields) :
              Append_(fields, in)[i] =
                 <<fields[i][2], IF fields[i][1] = Pad THEN 0 ELSE in[fields[i][1]]>>
    BY <1>4, AppendWords, Zenon
  <2> QED
    BY <1>4, <1>6, <2>1
<1>8. \A i \in 1..7 : w[i] = Append_(InputFields, in)[i]
  <2>1. \A i \in 1..7 : Append_(InputFields, in)[i] =
           <<InputFields[i][2], IF InputFields[i][1] = Pad THEN 0 ELSE in[InputFields[i][1]]>>
    BY InputLayout, AppendWords DEF Fields
  <2> TAKE i \in 1..7
  <2>2. w[i] = <<fields[i][2], IF fields[i][1] = Pad THEN 0 ELSE in[fields[i][1]]>>
    BY <1>7
  <2>3. fields[i] = InputFields[i]
    BY <1>2
  <2> QED
    BY <2>1, <2>2, <2>3
<1>9. \A i \in 1..5 : w[7 + i] = Append_(PosFields, in)[i]
  <2>1. \A i \in 1..5 : Append_(PosFields, in)[i] =
           <<PosFields[i][2], IF PosFields[i][1] = Pad THEN 0 ELSE in[PosFields[i][1]]>>
    BY PosLayout, AppendWords DEF Fields
  <2> TAKE i \in 1..5
  <2>2. w[7 + i] = <<fields[7 + i][2], IF fields[7 + i][1] = Pad THEN 0 ELSE in[fields[7 + i][1]]>>
    BY <1>7
  <2>3. fields[7 + i] = PosFields[i]
    BY <1>2
  <2> QED
    BY <2>1, <2>2, <2>3
<1> QED
  BY <1>5, <1>7, <1>8, <1>9

\* The words after the first seven of twelve.
LEMMA LastFive ==
  ASSUME NEW w, w \in Seq(ToSet(w)), Len(w) = 12, NEW r, r = SubSeq(w, 8, Len(w))
  PROVE  Len(r) = 5 /\ \A i \in 1..5 : r[i] = w[7 + i]
  OBVIOUS

LEMMA SixteenBytes ==
  ASSUME NEW r, Len(r) = 5, r[1][1] = 4, r[2][1] = 4, r[3][1] = 4, r[4][1] = 1, r[5][1] = 3
  PROVE  Size(r) = 16
<1>1. /\ Ends(r)[0] = 0
      /\ \A n \in 1..5 : Ends(r)[n] = Ends(r)[n - 1] + r[n][1]
  <2>1. Len(r) \in Nat
    OBVIOUS
  <2>2. /\ Ends(r)[0] = 0
        /\ \A n \in 1..Len(r) : Ends(r)[n] = Ends(r)[n - 1] + r[n][1]
    BY <2>1, EndsSteps
  <2> QED
    BY <2>2
<1>2. Ends(r)[1] = 4 /\ Ends(r)[2] = 8 /\ Ends(r)[3] = 12 /\ Ends(r)[4] = 13
  BY <1>1
<1>3. Ends(r)[5] = 16
  BY <1>1, <1>2
<1> QED
  BY <1>3 DEF Size

LEMMA NotRefused ==
  ASSUME NEW f, "msg_type" \notin DOMAIN f
  PROVE  f # Refused
  BY DEF Refused

LEMMA InputKept ==
  ASSUME NEW in
  PROVE  decode_input(encode_input(in)) = [f \in InputNames \cup PosNames |-> in[f]]
<1>1. PICK w : w = encode_input(in)
  OBVIOUS
<1>2. /\ IsWords(w) /\ Len(w) = 12
      /\ \A i \in 1..7 : w[i] = Append_(InputFields, in)[i]
      /\ \A i \in 1..5 : w[7 + i] = Append_(PosFields, in)[i]
      /\ w[8][1] = 4 /\ w[9][1] = 4 /\ w[10][1] = 4 /\ w[11][1] = 1
      /\ w[12][1] = 3
  BY <1>1, InputWords
<1>3. PICK r : r = SubSeq(w, Len(InputFields) + 1, Len(w))
  OBVIOUS
<1>4. Len(r) = 5 /\ \A i \in 1..5 : r[i] = w[7 + i]
  <2>1. r = SubSeq(w, 8, Len(w))
    BY <1>3, InputLayout
  <2>2. w \in Seq(ToSet(w))
    BY <1>2 DEF IsWords
  <2> QED
    BY <1>2, <2>1, <2>2, LastFive
<1>5. Size(r) = 16
  <2>1. r[1] = w[8] /\ r[2] = w[9] /\ r[3] = w[10] /\ r[4] = w[11] /\ r[5] = w[12]
    BY <1>4
  <2> QED
    BY <1>2, <1>4, <2>1, SixteenBytes
<1>6. Read_(InputFields, w) = [f \in InputNames |-> in[f]]
  <2>1. StartWith(w, InputFields, in)
    BY <1>2, InputLayout DEF StartWith
  <2>2. Read_(InputFields, w) = Named(InputFields, in)
    BY <2>1, InputLayout, ReadFront
  <2> QED
    BY <2>2, InputLayout DEF Named
<1>7. Read_(PosFields, r) = [f \in PosNames |-> in[f]]
  <2>1. StartWith(r, PosFields, in)
    BY <1>2, <1>4, PosLayout DEF StartWith
  <2>2. Read_(PosFields, r) = Named(PosFields, in)
    BY <2>1, PosLayout, ReadFront
  <2> QED
    BY <2>2, PosLayout DEF Named
<1>8. "msg_type" \notin InputNames /\ "msg_type" \notin PosNames
  BY DEF InputNames, PosNames
<1>9. Read_(InputFields, w) # Refused /\ Read_(PosFields, r) # Refused
  BY <1>6, <1>7, <1>8, NotRefused
<1>10. decode_input(w) = Together(Read_(InputFields, w), Read_(PosFields, r))
  <2>1. ~(Size(r) < 16)
    BY <1>5
  <2> QED
    BY <1>3, <1>9, <2>1, Zenon DEF decode_input
<1>11. Together([f \in InputNames |-> in[f]], [f \in PosNames |-> in[f]])
          = [f \in InputNames \cup PosNames |-> in[f]]
  BY DEF Together
<1> QED
  BY <1>1, <1>6, <1>7, <1>10, <1>11

\* The legacy input ends before the position.
LEMMA LegacyKept ==
  ASSUME NEW in
  PROVE  decode_input(SubSeq(encode_input(in), 1, Len(InputFields)))
            = Together([f \in InputNames |-> in[f]], LegacyPos)
<1>1. PICK w : w = encode_input(in)
  OBVIOUS
<1>2. /\ IsWords(w) /\ Len(w) = 12
      /\ \A i \in 1..7 : w[i] = Append_(InputFields, in)[i]
  BY <1>1, InputWords
<1>3. PICK s : s = SubSeq(w, 1, Len(InputFields))
  OBVIOUS
<1>4. Len(s) = 7 /\ s \in Seq(ToSet(w)) /\ \A i \in 1..7 : s[i] = w[i]
  <2>1. w \in Seq(ToSet(w))
    BY <1>2 DEF IsWords
  <2>2. s = SubSeq(w, 1, 7)
    BY <1>3, InputLayout
  <2>3. \A i \in 1..7 : w[i] \in ToSet(w)
    <3> TAKE i \in 1..7
    <3>1. i \in 1..Len(w)
      BY <1>2
    <3> QED
      BY <2>1, <3>1, ElementOfSeq
  <2>4. /\ s \in Seq(ToSet(w)) /\ Len(s) = IF 1 <= 7 THEN 7 - 1 + 1 ELSE 0
        /\ \A i \in 1..7 - 1 + 1 : s[i] = w[1 + i - 1]
    BY <2>2, <2>3, SubSeqProperties
  <2> QED
    BY <2>4
<1>5. PICK r : r = SubSeq(s, Len(InputFields) + 1, Len(s))
  OBVIOUS
<1>6. Len(r) = 0
  <2>1. r = SubSeq(s, 8, 7)
    BY <1>4, <1>5, InputLayout
  <2> QED
    BY <1>4, <2>1
<1>7. Size(r) = 0
  <2>1. Len(r) \in Nat
    BY <1>6
  <2>2. Ends(r)[0] = 0
    BY <2>1, EndsSteps
  <2> QED
    BY <1>6, <2>2 DEF Size
<1>8. Read_(InputFields, s) = [f \in InputNames |-> in[f]]
  <2>1. StartWith(s, InputFields, in)
    BY <1>2, <1>4, InputLayout DEF StartWith
  <2>2. Read_(InputFields, s) = Named(InputFields, in)
    BY <2>1, InputLayout, ReadFront
  <2> QED
    BY <2>2, InputLayout DEF Named
<1>9. Read_(InputFields, s) # Refused
  <2>1. "msg_type" \notin InputNames
    BY DEF InputNames
  <2> QED
    BY <1>8, <2>1, NotRefused
<1>10. LegacyPos # Refused
  BY DEF LegacyPos, Refused
<1>11. decode_input(s) = Together(Read_(InputFields, s), LegacyPos)
  <2>1. Size(r) < 16
    BY <1>7
  <2> QED
    BY <1>5, <1>9, <1>10, <2>1, Zenon DEF decode_input
<1> QED
  BY <1>1, <1>3, <1>8, <1>11

-----------------------------------------------------------------------------
(* Snapshots *)

SnapFields == <<U32("server_tick"), U8("count"), Pads>>

\* What encode_snapshot puts before the records.
SnapHead(in) == [server_tick |-> in.server_tick, count |-> Len(in.players) % CountSpace]

LEMMA SnapLayout ==
  /\ SnapFields = << <<"server_tick", 4>>, <<"count", 1>>, <<Pad, 3>> >>
  /\ Fields(SnapFields) /\ Names(SnapFields) = {"server_tick", "count"} /\ Len(SnapFields) = 3
<1>1. SnapFields = << <<"server_tick", 4>>, <<"count", 1>>, <<Pad, 3>> >>
  BY DEF SnapFields, Pads, U8, U32
<1> QED
  BY <1>1 DEF Fields, Layout, Wide, Names, Pad

\* The fields of a record are 34 bytes.
LEMMA RecordIs34 == RecordSize = 34
<1> DEFINE z == [i \in DOMAIN RecordFields |-> Word(RecordFields[i][2], 0)]
<1>1. RecordFields = << <<"player_id", 4>>, <<"x", 4>>, <<"y", 4>>, <<"z", 4>>, <<"yaw", 2>>,
                        <<"pitch", 2>>, <<"hp", 2>>, <<"state_flags", 2>>, <<"last_input_seq", 4>>,
                        <<"weapon_id", 1>>, <<"pad0", 1>>, <<"kills", 2>>, <<"deaths", 2>> >>
  BY DEF RecordFields, U8, U16, U32
<1>2. DOMAIN z = 1..13
  BY <1>1
<1>3. /\ z[1][1] = 4 /\ z[2][1] = 4 /\ z[3][1] = 4 /\ z[4][1] = 4 /\ z[5][1] = 2
      /\ z[6][1] = 2 /\ z[7][1] = 2 /\ z[8][1] = 2 /\ z[9][1] = 4 /\ z[10][1] = 1
      /\ z[11][1] = 1 /\ z[12][1] = 2 /\ z[13][1] = 2
  BY <1>1 DEF Word
<1>4. RecordSize = Size(z)
  BY DEF RecordSize, Width
<1>5. z = [i \in 1..13 |-> z[i]]
  BY <1>2
<1> HIDE DEF z
<1>6. Len(z) = 13
  BY <1>5, OwnElements
<1>7. /\ Ends(z)[0] = 0
      /\ \A n \in 1..13 : Ends(z)[n] = Ends(z)[n - 1] + z[n][1]
  <2>1. Len(z) \in Nat
    BY <1>6
  <2>2. /\ Ends(z)[0] = 0
        /\ \A n \in 1..Len(z) : Ends(z)[n] = Ends(z)[n - 1] + z[n][1]
    BY <2>1, EndsSteps
  <2> QED
    BY <1>6, <2>2
<1>8. /\ Ends(z)[1] = 4 /\ Ends(z)[2] = 8 /\ Ends(z)[3] = 12 /\ Ends(z)[4] = 16 /\ Ends(z)[5] = 18
  BY <1>3, <1>7
<1>9. /\ Ends(z)[6] = 20 /\ Ends(z)[7] = 22 /\ Ends(z)[8] = 24 /\ Ends(z)[9] = 28
  BY <1>3, <1>7, <1>8
<1>10. /\ Ends(z)[10] = 29 /\ Ends(z)[11] = 30 /\ Ends(z)[12] = 32 /\ Ends(z)[13] = 34
  BY <1>3, <1>7, <1>9
<1> QED
  BY <1>4, <1>6, <1>10 DEF Size

\* A sequence of players, of whatever they are.
IsList(ps) == ps \in Seq(ToSet(ps))

LEMMA SnapshotWords ==
  ASSUME NEW in, IsList(in.players), NEW w, w = encode_snapshot(in)
  PROVE  /\ IsWords(w) /\ Len(w) = 3 + Len(in.players)
         /\ \A i \in 1..3 : w[i] = Append_(SnapFields, SnapHead(in))[i]
         /\ \A i \in 1..Len(in.players) : w[3 + i] = <<RecordSize, in.players[i]>>
<1>1. PICK ps : ps = in.players
  OBVIOUS
<1>2. Len(ps) \in Nat /\ DOMAIN ps = 1..Len(ps)
  BY <1>1 DEF IsList
<1>3. PICK h : h = Append_(SnapFields, SnapHead(in))
  OBVIOUS
<1>4. PICK r : r = [i \in DOMAIN ps |-> Word(RecordSize, ps[i])]
  OBVIOUS
<1>5. w = h \o r
  BY <1>1, <1>3, <1>4, Zenon DEF encode_snapshot, SnapFields, SnapHead
<1>6. IsWords(h) /\ Len(h) = 3
  BY <1>3, SnapLayout, AppendWords DEF Fields
<1>7. h \in Seq(ToSet(h)) /\ \A i \in 1..3 : h[i][1] \in Nat
  BY <1>6 DEF IsWords
<1>8. r \in Seq(ToSet(r)) /\ Len(r) = Len(ps) /\ \A i \in 1..Len(ps) : r[i] = <<RecordSize, ps[i]>>
  <2>1. \A i \in 1..Len(ps) : r[i] = <<RecordSize, ps[i]>>
    BY <1>2, <1>4 DEF Word
  <2>2. r = [i \in 1..Len(ps) |-> r[i]]
    BY <1>2, <1>4
  <2> QED
    BY <1>2, <2>1, <2>2, OwnElements
<1>9. h \in Seq(ToSet(h) \cup ToSet(r)) /\ r \in Seq(ToSet(h) \cup ToSet(r))
  BY <1>7, <1>8, SeqMonotonic
<1>10. /\ w \in Seq(ToSet(h) \cup ToSet(r)) /\ Len(w) = Len(h) + Len(r)
       /\ \A i \in 1..Len(h) + Len(r) : w[i] = IF i <= Len(h) THEN h[i] ELSE r[i - Len(h)]
  BY <1>5, <1>9, ConcatProperties
<1>11. \A i \in 1..3 : w[i] = h[i]
  BY <1>2, <1>6, <1>8, <1>10
<1>12. ASSUME NEW i \in 1..Len(ps) PROVE w[3 + i] = <<RecordSize, ps[i]>>
  <2>1. /\ 3 + i \in 1..Len(h) + Len(r) /\ ~(3 + i <= Len(h)) /\ (3 + i) - Len(h) = i
    BY <1>2, <1>6, <1>8
  <2>2. w[3 + i] = r[(3 + i) - Len(h)]
    BY <1>10, <2>1
  <2> QED
    BY <1>8, <2>1, <2>2
<1>13. Len(w) = 3 + Len(ps) /\ Len(w) \in Nat
  BY <1>2, <1>6, <1>8, <1>10
<1>14. \A i \in 1..Len(w) : w[i][1] \in Nat
  <2> SUFFICES ASSUME NEW i \in 1..Len(w) PROVE w[i][1] \in Nat
    OBVIOUS
  <2>1. CASE i \in 1..3
    BY <1>7, <1>11, <2>1
  <2>2. CASE i > 3
    <3>1. i - 3 \in 1..Len(ps) /\ 3 + (i - 3) = i
      BY <1>2, <1>13, <2>2
    <3>2. w[i] = <<RecordSize, ps[i - 3]>>
      BY <1>12, <3>1
    <3> QED
      BY <3>2, RecordIs34
  <2> QED
    BY <1>13, <2>1, <2>2
<1>15. IsWords(w)
  <2>1. w \in Seq(ToSet(w))
    BY <1>10, OwnSequence
  <2> QED
    BY <1>14, <2>1 DEF IsWords
<1> QED
  BY <1>1, <1>3, <1>11, <1>12, <1>13, <1>15

\* A snapshot is 8 bytes and 34 for each player.
LEMMA SnapshotSize ==
  ASSUME NEW in, IsList(in.players)
  PROVE  Len(in.players) \in Nat /\ Size(encode_snapshot(in)) = 8 + 34 * Len(in.players)
<1>1. PICK n : n = Len(in.players)
  OBVIOUS
<1>2. n \in Nat
  BY <1>1 DEF IsList
<1>3. PICK w : w = encode_snapshot(in)
  OBVIOUS
<1>4. /\ Len(w) = 3 + n
      /\ \A i \in 1..3 : w[i] = Append_(SnapFields, SnapHead(in))[i]
      /\ \A i \in 1..n : w[3 + i] = <<34, in.players[i]>>
  BY <1>1, <1>3, SnapshotWords, RecordIs34
<1>5. w[1][1] = 4 /\ w[2][1] = 1 /\ w[3][1] = 3
  <2>1. \A i \in 1..3 : w[i] = <<SnapFields[i][2], IF SnapFields[i][1] = Pad THEN 0
                                                   ELSE SnapHead(in)[SnapFields[i][1]]>>
    BY <1>4, SnapLayout, AppendWords DEF Fields
  <2>2. \A i \in 1..3 : w[i][1] = SnapFields[i][2]
    BY <2>1
  <2> QED
    BY <2>2, SnapLayout
<1>6. /\ Ends(w)[0] = 0
      /\ \A k \in 1..(3 + n) : Ends(w)[k] = Ends(w)[k - 1] + w[k][1]
  <2>1. Len(w) \in Nat
    BY <1>2, <1>4
  <2>2. /\ Ends(w)[0] = 0
        /\ \A k \in 1..Len(w) : Ends(w)[k] = Ends(w)[k - 1] + w[k][1]
    BY <2>1, EndsSteps
  <2> QED
    BY <1>4, <2>2
<1>7. Ends(w)[3] = 8
  <2>1. Ends(w)[1] = 4 /\ Ends(w)[2] = 5
    BY <1>2, <1>5, <1>6
  <2> QED
    BY <1>2, <1>5, <1>6, <2>1
<1> DEFINE S == {k \in Nat : k <= n => Ends(w)[3 + k] = 8 + 34 * k}
<1>8. 0 \in S
  BY <1>7
<1>9. ASSUME NEW k \in Nat, k \in S PROVE k + 1 \in S
  <2> SUFFICES ASSUME k + 1 <= n PROVE Ends(w)[3 + (k + 1)] = 8 + 34 * (k + 1)
    OBVIOUS
  <2>1. 3 + (k + 1) \in 1..(3 + n) /\ (3 + (k + 1)) - 1 = 3 + k /\ k + 1 \in 1..n
    BY <1>2
  <2>2. Ends(w)[3 + (k + 1)] = Ends(w)[3 + k] + w[3 + (k + 1)][1]
    BY <1>6, <2>1
  <2>3. w[3 + (k + 1)][1] = 34
    BY <1>4, <2>1
  <2>4. Ends(w)[3 + k] = 8 + 34 * k
    BY <1>2, <1>9
  <2> QED
    BY <2>2, <2>3, <2>4
<1>10. Nat \subseteq S
  <2> HIDE DEF S
  <2> QED
    BY <1>8, <1>9, Induction
<1>11. Ends(w)[3 + n] = 8 + 34 * n
  BY <1>2, <1>10
<1> QED
  BY <1>1, <1>2, <1>3, <1>4, <1>11 DEF Size

LEMMA Modulo ==
  ASSUME NEW m \in Nat, NEW n \in Nat \ {0}
  PROVE  m % n \in Nat /\ m % n < n /\ m % n <= m /\ (m < n => m % n = m)
<1>1. m % n \in 0..(n - 1)
  OBVIOUS
<1>2. m < n => m % n = m
  OBVIOUS
<1> QED
  BY <1>1, <1>2

\* A snapshot comes back with its first players, as many as the count says.
LEMMA SnapshotKept ==
  ASSUME NEW in, IsList(in.players)
  PROVE  decode_snapshot(encode_snapshot(in)) =
            [server_tick |-> in.server_tick,
             players |-> [i \in 1..(Len(in.players) % CountSpace) |-> in.players[i]]]
<1>1. PICK w : w = encode_snapshot(in)
  OBVIOUS
<1>2. PICK ps : ps = in.players
  OBVIOUS
<1>3. Len(ps) \in Nat
  BY <1>2 DEF IsList
<1>4. /\ IsWords(w) /\ Len(w) = 3 + Len(ps)
      /\ \A i \in 1..3 : w[i] = Append_(SnapFields, SnapHead(in))[i]
      /\ \A i \in 1..Len(ps) : w[3 + i] = <<RecordSize, ps[i]>>
  BY <1>1, <1>2, SnapshotWords
<1>5. PICK c : c = Len(ps) % CountSpace
  OBVIOUS
<1>6. c \in Nat /\ c <= Len(ps)
  BY <1>3, <1>5, CodecAssumption, Modulo DEF CodecAssumption
<1>7. PICK head : head = Read_(SnapFields, w)
  OBVIOUS
<1>8. head = [f \in {"server_tick", "count"} |-> SnapHead(in)[f]]
  <2>1. StartWith(w, SnapFields, SnapHead(in))
    BY <1>3, <1>4, SnapLayout DEF StartWith
  <2>2. head = Named(SnapFields, SnapHead(in))
    BY <1>7, <2>1, SnapLayout, ReadFront
  <2> QED
    BY <2>2, SnapLayout DEF Named
<1>9. head.count = c /\ head.server_tick = in.server_tick
  BY <1>2, <1>5, <1>8 DEF SnapHead
<1>10. head # Refused
  BY <1>8, NotRefused
<1>11. PICK r : r = SubSeq(w, Len(SnapFields) + 1, Len(w))
  OBVIOUS
<1>12. Len(r) = Len(ps) /\ \A i \in 1..Len(ps) : r[i] = <<RecordSize, ps[i]>>
  <2>1. w \in Seq(ToSet(w))
    BY <1>4 DEF IsWords
  <2>2. r = SubSeq(w, 4, 3 + Len(ps))
    BY <1>4, <1>11, SnapLayout
  <2>3. Len(r) = Len(ps) /\ \A i \in 1..Len(ps) : r[i] = w[3 + i]
    BY <1>3, <1>4, <2>1, <2>2
  <2> QED
    BY <1>4, <2>3
<1>13. ~(Len(r) < head.count) /\ \A i \in 1..head.count : r[i][1] = RecordSize
  BY <1>3, <1>6, <1>9, <1>12
<1>14. decode_snapshot(w) = [server_tick |-> head.server_tick,
                             players |-> [i \in 1..head.count |-> r[i][2]]]
  BY <1>7, <1>10, <1>11, <1>13, Zenon DEF decode_snapshot, SnapFields
<1>15. [i \in 1..c |-> r[i][2]] = [i \in 1..c |-> ps[i]]
  <2>1. \A i \in 1..c : r[i][2] = ps[i]
    BY <1>3, <1>6, <1>12
  <2> QED
    BY <2>1
<1> QED
  BY <1>1, <1>2, <1>5, <1>9, <1>14, <1>15

\* All of them, when the count can say how many.
LEMMA SnapshotWhole ==
  ASSUME NEW in, IsList(in.players), Len(in.players) < CountSpace
  PROVE  decode_snapshot(encode_snapshot(in)) =
            [server_tick |-> in.server_tick, players |-> in.players]
<1>1. PICK ps : ps = in.players
  OBVIOUS
<1>2. Len(ps) \in Nat /\ ps = [i \in 1..Len(ps) |-> ps[i]]
  BY <1>1 DEF IsList
<1>3. Len(ps) % CountSpace = Len(ps)
  BY <1>1, <1>2, CodecAssumption, Modulo DEF CodecAssumption
<1> QED
  BY <1>1, <1>2, <1>3, SnapshotKept

-----------------------------------------------------------------------------
(* Texts *)

LEMMA Smaller ==
  ASSUME NEW m \in Nat, NEW n \in Nat
  PROVE  Min({m, n}) = SmallerOf(m, n) /\ SmallerOf(m, n) \in 0..m
<1>1. \A x \in {m, n} : (\A y \in {m, n} : y >= x) => x = SmallerOf(m, n)
  BY DEF SmallerOf
<1>2. SmallerOf(m, n) \in {m, n} /\ \A y \in {m, n} : y >= SmallerOf(m, n)
  BY DEF SmallerOf
<1>3. Min({m, n}) \in {m, n} /\ \A y \in {m, n} : y >= Min({m, n})
  BY <1>2 DEF Min
<1>4. SmallerOf(m, n) \in 0..m
  BY DEF SmallerOf
<1> QED
  BY <1>1, <1>3, <1>4

\* A text in a datagram: its length, and as much of it as its limit allows.
IsText(w, text, n) ==
    /\ n \in Nat /\ IsWords(w) /\ Len(w) = 2
    /\ w[1] = <<2, n>> /\ w[2] = <<n, SubSeq(text, 1, n)>>

LEMMA TextWords ==
  ASSUME NEW text, Len(text) \in Nat, NEW cap \in Nat,
         NEW n, n = SmallerOf(Len(text), cap), NEW w, w = Text(text, cap)
  PROVE  IsText(w, text, n)
<1>1. Min({Len(text), cap}) = n /\ n \in Nat
  <2>1. PICK m : m = Len(text)
    OBVIOUS
  <2>2. Min({m, cap}) = SmallerOf(m, cap) /\ SmallerOf(m, cap) \in 0..m
    BY <2>1, Smaller
  <2> QED
    BY <2>1, <2>2
<1>2. PICK t : t = SubSeq(text, 1, n)
  OBVIOUS
<1>3. w = << <<2, n>>, <<n, t>> >>
  BY <1>1, <1>2, Zenon DEF Text, Word
<1>4. /\ Len(w) = 2 /\ w[1] = <<2, n>> /\ w[2] = <<n, t>>
      /\ w[1][1] = 2 /\ w[2][1] = n /\ w = [i \in 1..2 |-> w[i]]
  BY <1>3
<1>5. w \in Seq(ToSet(w))
  BY <1>4, OwnElements
<1>6. IsWords(w)
  BY <1>1, <1>4, <1>5 DEF IsWords
<1> QED
  BY <1>1, <1>2, <1>4, <1>6 DEF IsText

LEMMA ChatWords ==
  ASSUME NEW in, Len(in.text) \in Nat,
         NEW n, n = SmallerOf(Len(in.text), kMaxChat), NEW w, w = encode_chat(in)
  PROVE  /\ n \in Nat /\ IsWords(w) /\ Len(w) = 3
         /\ w[1] = <<4, in.sender_id>> /\ w[2] = <<2, n>> /\ w[3] = <<n, SubSeq(in.text, 1, n)>>
         /\ Len(Tail(w)) = 2 /\ Tail(w)[1] = w[2] /\ Tail(w)[2] = w[3]
<1>1. PICK t : t = SubSeq(in.text, 1, n)
  OBVIOUS
<1>2. PICK x : x = Text(in.text, kMaxChat)
  OBVIOUS
<1>3. n \in Nat /\ IsWords(x) /\ Len(x) = 2 /\ x[1] = <<2, n>> /\ x[2] = <<n, t>>
  <2>1. PICK z : z = in.text
    OBVIOUS
  <2>2. Len(z) \in Nat /\ kMaxChat \in Nat
    BY <2>1, CodecAssumption DEF CodecAssumption
  <2>3. n = SmallerOf(Len(z), kMaxChat) /\ x = Text(z, kMaxChat) /\ t = SubSeq(z, 1, n)
    BY <1>1, <1>2, <2>1
  <2>4. IsText(x, z, n)
    BY <2>2, <2>3, TextWords
  <2> QED
    BY <2>3, <2>4 DEF IsText
<1>4. x \in Seq(ToSet(x))
  BY <1>3 DEF IsWords
<1>5. PICK h : h = << <<4, in.sender_id>> >>
  OBVIOUS
<1>6. w = h \o x
  BY <1>2, <1>5, Zenon DEF encode_chat, Word
<1>7. Len(h) = 1 /\ h[1] = <<4, in.sender_id>> /\ h = [i \in 1..1 |-> h[i]]
  BY <1>5
<1>8. PICK S : S = ToSet(h) \cup ToSet(x)
  OBVIOUS
<1>9. h \in Seq(S) /\ x \in Seq(S)
  BY <1>4, <1>7, <1>8, OwnElements, SeqMonotonic
<1>10. /\ w \in Seq(S) /\ Len(w) = Len(h) + Len(x)
       /\ \A i \in 1..Len(h) + Len(x) : w[i] = IF i <= Len(h) THEN h[i] ELSE x[i - Len(h)]
  BY <1>6, <1>9, ConcatProperties
<1>11. /\ Len(w) = 3 /\ w[1] = <<4, in.sender_id>> /\ w[2] = <<2, n>> /\ w[3] = <<n, t>>
       /\ w[1][1] = 4 /\ w[2][1] = 2 /\ w[3][1] = n
  BY <1>3, <1>7, <1>10
<1>12. w \in Seq(ToSet(w))
  BY <1>10, OwnSequence
<1>13. Len(Tail(w)) = 2 /\ Tail(w)[1] = w[2] /\ Tail(w)[2] = w[3]
  <2>1. w # << >>
    <3>1. Len(w) # 0
      BY <1>11
    <3> QED
      BY <1>10, <3>1, EmptySeq
  <2>2. /\ Len(Tail(w)) = Len(w) - 1
        /\ \A i \in 1..Len(Tail(w)) : Tail(w)[i] = w[i + 1]
    BY <1>10, <2>1, HeadTailProperties
  <2>3. Len(Tail(w)) = 2
    BY <1>11, <2>2
  <2>4. Tail(w)[1] = w[1 + 1] /\ Tail(w)[2] = w[2 + 1]
    BY <2>2, <2>3
  <2> QED
    BY <2>3, <2>4
<1>14. IsWords(w)
  <2>1. \A i \in 1..3 : w[i][1] \in Nat
    BY <1>3, <1>11
  <2> QED
    BY <1>11, <1>12, <2>1 DEF IsWords
<1> QED
  BY <1>1, <1>3, <1>11, <1>13, <1>14

LEMMA ChatKept ==
  ASSUME NEW in, Len(in.text) \in Nat, NEW n, n = SmallerOf(Len(in.text), kMaxChat)
  PROVE  decode_chat(encode_chat(in)) = [sender_id |-> in.sender_id, text |-> SubSeq(in.text, 1, n)]
<1>1. PICK w : w = encode_chat(in)
  OBVIOUS
<1>2. PICK t : t = SubSeq(in.text, 1, n)
  OBVIOUS
<1>3. PICK x : x = Tail(w)
  OBVIOUS
<1>4. /\ Len(w) = 3 /\ w[1] = <<4, in.sender_id>>
      /\ Len(x) = 2 /\ x[1] = <<2, n>> /\ x[2] = <<n, t>>
  BY <1>1, <1>2, <1>3, ChatWords
<1>5. Readable(<<U32("sender_id")>>, w)
  BY <1>4 DEF Readable, U32
<1>6. ReadableText(x)
  BY <1>4 DEF ReadableText
<1>7. decode_chat(w) = [sender_id |-> w[1][2], text |-> x[2][2]]
  BY <1>3, <1>5, <1>6, Zenon DEF decode_chat
<1>8. w[1][2] = in.sender_id /\ x[2][2] = t
  BY <1>4
<1> QED
  BY <1>1, <1>2, <1>7, <1>8

LEMMA ProfileKept ==
  ASSUME NEW in, Len(in.name) \in Nat, NEW n, n = SmallerOf(Len(in.name), kMaxName)
  PROVE  decode_profile(encode_profile(in)) = [name |-> SubSeq(in.name, 1, n)]
<1>1. PICK w : w = encode_profile(in)
  OBVIOUS
<1>2. PICK t : t = SubSeq(in.name, 1, n)
  OBVIOUS
<1>3. Len(w) = 2 /\ w[1] = <<2, n>> /\ w[2] = <<n, t>>
  <2>1. PICK z : z = in.name
    OBVIOUS
  <2>2. Len(z) \in Nat /\ kMaxName \in Nat
    BY <2>1, CodecAssumption DEF CodecAssumption
  <2>3. n = SmallerOf(Len(z), kMaxName) /\ w = Text(z, kMaxName) /\ t = SubSeq(z, 1, n)
    BY <1>1, <1>2, <2>1 DEF encode_profile
  <2>4. IsText(w, z, n)
    BY <2>2, <2>3, TextWords
  <2> QED
    BY <2>3, <2>4 DEF IsText
<1>4. ReadableText(w)
  BY <1>3 DEF ReadableText
<1>5. decode_profile(w) = [name |-> w[2][2]]
  BY <1>4, Zenon DEF decode_profile
<1> QED
  BY <1>1, <1>2, <1>3, <1>5

LEMMA PlayersAre ==
  ASSUME NEW n \in Nat
  PROVE  /\ Players(n) \in Seq(1..n) /\ Len(Players(n)) = n
         /\ \A k \in 0..n : SubSeq(Players(n), 1, k) = Players(k)
<1>1. Players(n) \in Seq(1..n) /\ Len(Players(n)) = n
  BY DEF Players
<1>2. ASSUME NEW k \in 0..n PROVE SubSeq(Players(n), 1, k) = Players(k)
  BY DEF Players
<1> QED
  BY <1>1, <1>2

\* Every message of GameCodec is read as it was written: the ack, the join, the input with and
\* without its position, the shot, the event, the ping and the pong, the weapon, the match state;
\* the snapshot for every number of players, and the chat and the profile for every length, up to
\* what the count and the limits cut off.  (game_codec.cpp, encode and decode of each)
THEOREM MessagesAreKept == MessagesKept
<1>1. decode_join(encode_join(Tagged({"desired_room_id"}))) = Tagged({"desired_room_id"})
  BY JoinKept DEF Tagged
<1>2. decode_join_ack(encode_join_ack(Tagged(AckNames))) = Tagged(AckNames)
  BY AckKept DEF Tagged
<1>3. decode_input(encode_input(Tagged(InputNames \cup PosNames))) = Tagged(InputNames \cup PosNames)
  BY InputKept DEF Tagged
<1>4. decode_input(SubSeq(encode_input(Tagged(InputNames \cup PosNames)), 1, Len(InputFields)))
         = Together(Tagged(InputNames), LegacyPos)
  <2>1. [f \in InputNames |-> Tagged(InputNames \cup PosNames)[f]] = Tagged(InputNames)
    BY DEF Tagged
  <2> QED
    BY <2>1, LegacyKept
<1>5. decode_fire(encode_fire(Tagged(FireNames))) = Tagged(FireNames)
  BY FireKept DEF Tagged
<1>6. decode_event(encode_event(Tagged(EventNames))) = Tagged(EventNames)
  BY EventKept DEF Tagged
<1>7. decode_ping(encode_ping("client_send")) = Tagged({"client_send"})
  BY PingKept DEF Tagged
<1>8. decode_pong(encode_pong("client_send", "server_recv", "server_send"))
         = Tagged({"client_send", "server_recv", "server_send"})
  <2>1. Tagged({"client_send", "server_recv", "server_send"})
          = [client_send |-> "client_send", server_recv |-> "server_recv",
             server_send |-> "server_send"]
    BY DEF Tagged
  <2> QED
    BY <2>1, PongKept
<1>9. decode_weapon(encode_weapon(Tagged({"weapon_id"}))) = Tagged({"weapon_id"})
  BY WeaponKept DEF Tagged
<1>10. decode_match_state(encode_match_state(Tagged({"time_left_sec", "match_over"})))
          = Tagged({"time_left_sec", "match_over"})
  BY MatchStateKept DEF Tagged
<1>11. ASSUME NEW n \in Nat
       PROVE  decode_snapshot(encode_snapshot(Snapshot(n))) = Snapshot(n % CountSpace)
  <2>1. /\ Snapshot(n).players = Players(n) /\ Snapshot(n).server_tick = "server_tick"
    BY DEF Snapshot
  <2>2. IsList(Snapshot(n).players) /\ Len(Snapshot(n).players) = n
    BY <2>1, PlayersAre, OwnSequence DEF IsList
  <2>3. PICK c : c = n % CountSpace
    OBVIOUS
  <2>4. c \in Nat /\ c <= n
    BY <2>3, CodecAssumption, Modulo DEF CodecAssumption
  <2>5. decode_snapshot(encode_snapshot(Snapshot(n))) =
           [server_tick |-> "server_tick", players |-> [i \in 1..c |-> Players(n)[i]]]
    BY <2>1, <2>2, <2>3, SnapshotKept
  <2>6. [i \in 1..c |-> Players(n)[i]] = Players(c)
    BY <2>4 DEF Players
  <2> QED
    BY <2>3, <2>5, <2>6 DEF Snapshot
<1>12. ASSUME NEW n \in Nat
       PROVE  decode_chat(encode_chat(Chat(n))) = Chat(SmallerOf(n, kMaxChat))
  <2>1. Chat(n).text = Players(n) /\ Chat(n).sender_id = "sender_id"
    BY DEF Chat
  <2>2. Len(Chat(n).text) = n
    BY <2>1, PlayersAre
  <2>3. PICK k : k = SmallerOf(n, kMaxChat)
    OBVIOUS
  <2>4. k \in 0..n
    BY <2>3, CodecAssumption, Smaller DEF CodecAssumption
  <2>5. decode_chat(encode_chat(Chat(n))) =
           [sender_id |-> "sender_id", text |-> SubSeq(Players(n), 1, k)]
    BY <2>1, <2>2, <2>3, ChatKept
  <2>6. SubSeq(Players(n), 1, k) = Players(k)
    BY <2>4, PlayersAre
  <2> QED
    BY <2>3, <2>5, <2>6 DEF Chat
<1>13. ASSUME NEW n \in Nat
       PROVE  decode_profile(encode_profile(Profile(n))) = Profile(SmallerOf(n, kMaxName))
  <2>1. Profile(n).name = Players(n)
    BY DEF Profile
  <2>2. Len(Profile(n).name) = n
    BY <2>1, PlayersAre
  <2>3. PICK k : k = SmallerOf(n, kMaxName)
    OBVIOUS
  <2>4. k \in 0..n
    BY <2>3, CodecAssumption, Smaller DEF CodecAssumption
  <2>5. decode_profile(encode_profile(Profile(n))) = [name |-> SubSeq(Players(n), 1, k)]
    BY <2>1, <2>2, <2>3, ProfileKept
  <2>6. SubSeq(Players(n), 1, k) = Players(k)
    BY <2>4, PlayersAre
  <2> QED
    BY <2>3, <2>5, <2>6 DEF Profile
<1>14. /\ 0..(2 * CountSpace) \subseteq Nat /\ 0..(kMaxChat + 1) \subseteq Nat
       /\ 0..(kMaxName + 1) \subseteq Nat
  BY CodecAssumption DEF CodecAssumption
<1> SUFFICES ASSUME NEW trip \in RoundTrips PROVE trip[1] = trip[2]
  BY DEF MessagesKept
<1>15. \/ trip = <<Tagged({"desired_room_id"}), decode_join(encode_join(Tagged({"desired_room_id"})))>>
       \/ trip = <<Tagged(AckNames), decode_join_ack(encode_join_ack(Tagged(AckNames)))>>
       \/ trip = <<Tagged(InputNames \cup PosNames),
                   decode_input(encode_input(Tagged(InputNames \cup PosNames)))>>
       \/ trip = <<Together(Tagged(InputNames), LegacyPos),
                   decode_input(SubSeq(encode_input(Tagged(InputNames \cup PosNames)), 1,
                                       Len(InputFields)))>>
       \/ trip = <<Tagged(FireNames), decode_fire(encode_fire(Tagged(FireNames)))>>
       \/ trip = <<Tagged(EventNames), decode_event(encode_event(Tagged(EventNames)))>>
       \/ trip = <<Tagged({"client_send"}), decode_ping(encode_ping("client_send"))>>
       \/ trip = <<Tagged({"client_send", "server_recv", "server_send"}),
                   decode_pong(encode_pong("client_send", "server_recv", "server_send"))>>
       \/ trip = <<Tagged({"weapon_id"}), decode_weapon(encode_weapon(Tagged({"weapon_id"})))>>
       \/ trip = <<Tagged({"time_left_sec", "match_over"}),
                   decode_match_state(encode_match_state(Tagged({"time_left_sec", "match_over"})))>>
       \/ \E n \in 0..(2 * CountSpace) :
             trip = <<Snapshot(n % CountSpace), decode_snapshot(encode_snapshot(Snapshot(n)))>>
       \/ \E n \in 0..(kMaxChat + 1) :
             trip = <<Chat(SmallerOf(n, kMaxChat)), decode_chat(encode_chat(Chat(n)))>>
       \/ \E n \in 0..(kMaxName + 1) :
             trip = <<Profile(SmallerOf(n, kMaxName)), decode_profile(encode_profile(Profile(n)))>>
  BY Zenon DEF RoundTrips, InputNames, PosNames, FireNames, AckNames, EventNames
<1> QED
  BY <1>1, <1>2, <1>3, <1>4, <1>5, <1>6, <1>7, <1>8, <1>9, <1>10, <1>11, <1>12, <1>13, <1>14, <1>15

-----------------------------------------------------------------------------
(* The rooms, as GameRoomsProofs knows them *)

LEMMA NearestProved == ASSUME NEW n, NEW d PROVE Rooms!Nearest(n, d) = Proved!Nearest(n, d)
<1>1. ASSUME NEW v PROVE Rooms!Ulp(v) = Proved!Ulp(v)
  <2>1. Rooms!Powers = Proved!Powers
    BY Zenon DEF Rooms!Powers, Proved!Powers
  <2>2. ASSUME NEW T PROVE Rooms!Max(T) = Proved!Max(T)
    BY Zenon DEF Rooms!Max, Proved!Max
  <2> QED
    BY <2>1, <2>2, Zenon DEF Rooms!Ulp, Proved!Ulp
<1> QED
  BY <1>1, Zenon DEF Rooms!Nearest, Proved!Nearest

LEMMA DtProved == Rooms!dt = Proved!dt
  BY NearestProved, Zenon DEF Rooms!dt, Proved!dt, Rooms!kSecMs, Proved!kSecMs

LEMMA ProvedAssumption == Proved!GameAssumption /\ Proved!ClockAssumption
<1>1. Proved!GameAssumption
  BY RoomsAssumption DEF Rooms!GameAssumption, Proved!GameAssumption, Rooms!kSecMs, Proved!kSecMs
<1>2. Proved!ClockAssumption
  BY DtProved, RoomsAssumption DEF Rooms!ClockAssumption, Proved!ClockAssumption, Rooms!kSecMs,
                                   Proved!kSecMs
<1> QED
  BY <1>1, <1>2

LEMMA JoinProved == ASSUME NEW a PROVE Rooms!Join(a) <=> Proved!Join(a)
  BY DEF Rooms!Join, Proved!Join, Rooms!With, Proved!With, Rooms!NewPlayer, Proved!NewPlayer,
         Rooms!match_vars, Proved!match_vars

LEMMA ReceivedProved ==
  ASSUME NEW a, NEW hid, NEW p
  PROVE  Rooms!Received(a, hid, p) <=> Proved!Received(a, hid, p)
  BY DEF Rooms!Received, Proved!Received, Rooms!Resolved, Proved!Resolved,
         Rooms!RefreshedIndex, Proved!RefreshedIndex, Rooms!With, Proved!With,
         Rooms!Without, Proved!Without, Rooms!match_vars, Proved!match_vars

LEMMA OtherPacketProved ==
  ASSUME NEW a, NEW hid PROVE Rooms!OtherPacket(a, hid) <=> Proved!OtherPacket(a, hid)
  BY ReceivedProved DEF Rooms!OtherPacket, Proved!OtherPacket, Rooms!Ids, Proved!Ids,
         Rooms!RefreshedPlayers, Proved!RefreshedPlayers

LEMMA InputProved ==
  ASSUME NEW a, NEW hid, NEW seq PROVE Rooms!Input(a, hid, seq) <=> Proved!Input(a, hid, seq)
  BY ReceivedProved DEF Rooms!Input, Proved!Input, Rooms!Ids, Proved!Ids,
         Rooms!RefreshedPlayers, Proved!RefreshedPlayers, Rooms!apply_input, Proved!apply_input

LEMMA RespawnProved ==
  ASSUME NEW a, NEW hid PROVE Rooms!Respawn(a, hid) <=> Proved!Respawn(a, hid)
  BY ReceivedProved DEF Rooms!Respawn, Proved!Respawn, Rooms!Ids, Proved!Ids,
         Rooms!RefreshedPlayers, Proved!RefreshedPlayers, Rooms!apply_respawn, Proved!apply_respawn,
         Rooms!CanRespawn, Proved!CanRespawn, Rooms!Event, Proved!Event

LEMMA FireProved ==
  ASSUME NEW a, NEW hid, NEW t PROVE Rooms!Fire(a, hid, t) <=> Proved!Fire(a, hid, t)
  BY ReceivedProved, ZenonT(60) DEF Rooms!Fire, Proved!Fire, Rooms!Ids, Proved!Ids,
         Rooms!RefreshedPlayers, Proved!RefreshedPlayers, Rooms!apply_fire, Proved!apply_fire,
         Rooms!CanHit, Proved!CanHit, Rooms!Kills, Proved!Kills, Rooms!Event, Proved!Event,
         Rooms!Incr, Proved!Incr

LEMMA TickAllProved == Rooms!TickAll <=> Proved!TickAll
<1>1. Rooms!Accumulated = Proved!Accumulated
  BY NearestProved, DtProved, Zenon DEF Rooms!Accumulated, Proved!Accumulated
<1>2. Rooms!SecondsPassed = Proved!SecondsPassed
  BY <1>1 DEF Rooms!SecondsPassed, Proved!SecondsPassed
<1>3. Rooms!ClockTick <=> Proved!ClockTick
  BY <1>1, <1>2 DEF Rooms!ClockTick, Proved!ClockTick
<1> QED
  BY <1>3 DEF Rooms!TickAll, Proved!TickAll, Rooms!Period, Proved!Period, Rooms!kSecMs, Proved!kSecMs,
              Rooms!simulate_respawn, Proved!simulate_respawn, Rooms!MatchState, Proved!MatchState,
              Rooms!Ids, Proved!Ids, Rooms!Capped, Proved!Capped

LEMMA NextProved ==
  (Rooms!Next \/ UNCHANGED rooms) => [Proved!Next]_(Proved!vars)
<1>1. UNCHANGED rooms => UNCHANGED Proved!vars
  BY DEF rooms, Proved!vars, Proved!room_vars, Proved!match_vars
<1>2. Rooms!Next => Proved!Next
  BY JoinProved, OtherPacketProved, InputProved, RespawnProved, FireProved, TickAllProved
     DEF Rooms!Next, Proved!Next, Rooms!Headers, Proved!Headers, Rooms!Seqs, Proved!Seqs,
         Rooms!Ids, Proved!Ids, Rooms!Leave, Proved!Leave, Rooms!Without, Proved!Without,
         Rooms!match_vars, Proved!match_vars
<1> QED
  BY <1>1, <1>2

LEMMA RoomsKeep ==
  ASSUME Proved!IInv, Rooms!Next \/ UNCHANGED rooms
  PROVE  Proved!IInv'
<1>1. [Proved!Next]_(Proved!vars)
  BY NextProved
<1> QED
  BY <1>1, ProvedAssumption, Proved!NextIInv

\* What the proofs below take from the rooms' invariant.
LEMMA RoomsFacts ==
  ASSUME Proved!IInv
  PROVE  /\ DOMAIN players_ \subseteq Rooms!Ids /\ DOMAIN peer_index_ \subseteq Addrs
         /\ acked \subseteq Rooms!Ids
         /\ \A p \in DOMAIN players_ :
               /\ players_[p] \in Rooms!Player
               /\ players_[p].last_input_seq \in Nat
               /\ players_[p].peer \in DOMAIN peer_index_ /\ peer_index_[players_[p].peer] = p
         /\ \A a \in DOMAIN peer_index_ :
               /\ peer_index_[a] \in DOMAIN players_ /\ players_[peer_index_[a]].peer = a
<1>1. Proved!TypeOK /\ Proved!IndexConsistent
  BY DEF Proved!IInv
<1>2. /\ DOMAIN players_ \subseteq Rooms!Ids /\ DOMAIN peer_index_ \subseteq Addrs
      /\ acked \subseteq Rooms!Ids
      /\ players_ \in [DOMAIN players_ -> Rooms!Player]
  BY <1>1 DEF Proved!TypeOK, Proved!IsMap, Proved!Ids, Rooms!Ids, Proved!Player, Rooms!Player
<1>3. MaxSeq \in Nat
  BY RoomsAssumption DEF Rooms!GameAssumption
<1>4. \A p \in DOMAIN players_ :
         players_[p] \in Rooms!Player /\ players_[p].last_input_seq \in Nat
  BY <1>2, <1>3 DEF Rooms!Player
<1>5. /\ \A p \in DOMAIN players_ :
            players_[p].peer \in DOMAIN peer_index_ /\ peer_index_[players_[p].peer] = p
      /\ \A a \in DOMAIN peer_index_ :
            peer_index_[a] \in DOMAIN players_ /\ players_[peer_index_[a]].peer = a
  BY <1>1 DEF Proved!IndexConsistent, Proved!Consistent
<1> QED
  BY <1>2, <1>4, <1>5

-----------------------------------------------------------------------------
(* The player of the client *)

\* The client has its id from the ack or, before, the room has a player at its address.
Known == client.player_id # 0 \/ Me \in DOMAIN peer_index_
MyId  == IF client.player_id # 0 THEN client.player_id ELSE peer_index_[Me]

\* The player is in the room at one of the client's addresses, and has had no more than n inputs.
\* No other player is at an address of the client but that of the join, and there none unless
\* the client has left it.
HeardBy(n) ==
    /\ DOMAIN players_ \subseteq acked
    /\ Known => /\ MyId \in DOMAIN players_
                /\ players_[MyId].peer \in MyAddrs /\ players_[MyId].last_input_seq <= n
    /\ \A a \in MyAddrs \cap DOMAIN peer_index_ :
          a = Me \/ (client.player_id # 0 /\ peer_index_[a] = client.player_id)
    /\ Known /\ moves = 0 => Me \in DOMAIN peer_index_ /\ peer_index_[Me] = MyId

\* The client goes on with its id, or will find the same one in its ack.
SameId == Known => Known' /\ MyId' = MyId

\* Who puts an id into a header, or none: another player, or the client that has its ack.
MayName(a, hid) ==
    \/ a \in Others /\ hid \in OtherIds \cup {0}
    \/ /\ a \in MyAddrs /\ (moves = 0 => a = Me)
       /\ client.player_id # 0 /\ hid = client.player_id

\* The players keep their places and their inputs.
SamePlayers ==
    /\ peer_index_' = peer_index_ /\ acked' = acked /\ DOMAIN players_' = DOMAIN players_
    /\ \A p \in DOMAIN players_ : /\ players_'[p].peer = players_[p].peer
                                  /\ players_'[p].last_input_seq = players_[p].last_input_seq

LEMMA OwnAddrs ==
  /\ Me \in MyAddrs /\ MyAddrs \subseteq Addrs
  /\ Others \subseteq Addrs /\ Others \cap MyAddrs = {}
  BY ClientAssumption DEF ClientAssumption, Others

LEMMA SameKeepsHeard ==
  ASSUME NEW n \in Nat, HeardBy(n), SamePlayers, UNCHANGED <<client, nat>>
  PROVE  SameId /\ HeardBy(n)'
<1>1. /\ peer_index_' = peer_index_ /\ acked' = acked /\ client' = client /\ moves' = moves
      /\ DOMAIN players_' = DOMAIN players_
  BY DEF SamePlayers, nat
<1>2. (Known' <=> Known) /\ MyId' = MyId
  BY <1>1 DEF Known, MyId
<1>3. Known => /\ MyId \in DOMAIN players_' /\ players_'[MyId].peer \in MyAddrs
               /\ players_'[MyId].last_input_seq <= n
  BY DEF HeardBy, SamePlayers
<1>4. HeardBy(n)'
  BY <1>1, <1>2, <1>3 DEF HeardBy
<1> QED
  BY <1>2, <1>4 DEF SameId

\* The client goes on with its id, or finds the one that the server has for it in the ack.
KeepsId ==
    \/ client'.player_id = client.player_id
    \/ client.player_id = 0 /\ Known /\ client'.player_id = MyId

LEMMA RoomsStay ==
  ASSUME UNCHANGED rooms, KeepsId
  PROVE  (Known' <=> Known) /\ MyId' = MyId
  BY DEF rooms, Known, MyId, KeepsId

LEMMA NobodyMoves ==
  ASSUME UNCHANGED rooms, UNCHANGED <<client, nat>>, NEW n \in Nat, HeardBy(n)
  PROVE  SameId /\ HeardBy(n)'
<1>1. SamePlayers
  BY DEF SamePlayers, rooms
<1> QED
  BY <1>1, SameKeepsHeard

\* A datagram finds the player of its source address or else that of its header, which is
\* rebound to the address; the client's finds the client's player only where the address is
\* not that of its join.
LEMMA ReceivedFrom ==
  ASSUME Proved!IInv, NEW n \in Nat, HeardBy(n), NEW a, NEW hid, MayName(a, hid),
         NEW p, Rooms!Received(a, hid, p), NEW ps, ps = Rooms!RefreshedPlayers(a, p)
  PROVE  /\ p \in DOMAIN players_ /\ acked' = acked /\ DOMAIN ps = DOMAIN players_
         /\ \A q \in DOMAIN players_ :
               /\ ps[q] \in Rooms!Player
               /\ ps[q].last_input_seq = players_[q].last_input_seq
               /\ ps[q].peer = IF q = p THEN a ELSE players_[q].peer
         /\ a \in Others => players_[p].peer \in Others
<1>1. 0 \notin DOMAIN players_
  BY RoomsFacts DEF Rooms!Ids
<1>2. acked' = acked /\ p = Rooms!Resolved(a, hid) /\ p # 0
  BY DEF Rooms!Received
<1>3. p \in DOMAIN players_
  BY <1>2, RoomsFacts DEF Rooms!Resolved
<1>4. ps = [players_ EXCEPT ![p].peer = a]
  BY <1>3 DEF Rooms!RefreshedPlayers
<1>5. a \in Addrs
  BY OwnAddrs DEF MayName
<1>6. ASSUME NEW q \in DOMAIN players_
      PROVE  /\ ps[q] \in Rooms!Player
             /\ ps[q].last_input_seq = players_[q].last_input_seq
             /\ ps[q].peer = IF q = p THEN a ELSE players_[q].peer
  <2>1. players_[q] \in Rooms!Player
    BY RoomsFacts
  <2> QED
    BY <1>4, <1>5, <2>1 DEF Rooms!Player
<1>7. ASSUME a \in Others PROVE players_[p].peer \in Others
  <2>1. CASE a \in DOMAIN peer_index_
    <3>1. p = peer_index_[a]
      BY <1>2, <2>1 DEF Rooms!Resolved
    <3> QED
      BY <1>7, <2>1, <3>1, RoomsFacts
  <2>2. CASE a \notin DOMAIN peer_index_
    <3>1. p = hid
      BY <1>2, <2>2 DEF Rooms!Resolved
    <3>2. hid \in OtherIds
      BY <1>2, <1>7, <3>1, OwnAddrs DEF MayName
    <3> QED
      BY <3>1, <3>2 DEF OtherIds
  <2> QED
    BY <2>1, <2>2
<1> QED
  BY <1>2, <1>3, <1>4, <1>6, <1>7

\* Whatever else a datagram does to the players: it leaves the client its player.
LEMMA ReceivedKeepsHeard ==
  ASSUME Proved!IInv, NEW n \in Nat, HeardBy(n), UNCHANGED <<client, nat>>,
         NEW a, NEW hid, MayName(a, hid), NEW p, Rooms!Received(a, hid, p),
         NEW ps, ps = Rooms!RefreshedPlayers(a, p), DOMAIN players_' = DOMAIN ps,
         \A q \in DOMAIN ps :
            /\ players_'[q].peer = ps[q].peer
            /\ \/ players_'[q].last_input_seq = ps[q].last_input_seq
               \/ q = p /\ (a \in MyAddrs => players_'[q].last_input_seq <= n)
  PROVE  SameId /\ HeardBy(n)'
<1>1. /\ p \in DOMAIN players_ /\ acked' = acked /\ DOMAIN players_' = DOMAIN players_
      /\ \A q \in DOMAIN players_ :
            /\ ps[q].last_input_seq = players_[q].last_input_seq
            /\ players_'[q].peer = IF q = p THEN a ELSE players_[q].peer
      /\ a \in Others => players_[p].peer \in Others
  BY ReceivedFrom
<1>2. client' = client /\ moves' = moves
  BY DEF nat
<1>3. DOMAIN players_' \subseteq acked'
  BY <1>1 DEF HeardBy
<1>4. a \in Others \/ a \in MyAddrs
  BY DEF MayName
<1>5. ASSUME NEW id, id \in DOMAIN players_, players_[id].peer \in MyAddrs,
             players_[id].last_input_seq <= n
      PROVE  /\ id \in DOMAIN players_' /\ players_'[id].peer \in MyAddrs
             /\ players_'[id].last_input_seq <= n
             /\ a \in Others => id # p
  BY <1>1, <1>4, <1>5, OwnAddrs
<1>6. CASE a \in DOMAIN peer_index_
  <2>1. peer_index_' = peer_index_
    BY <1>6 DEF Rooms!Received, Rooms!RefreshedIndex
  <2>2. (Known' <=> Known) /\ MyId' = MyId
    BY <1>2, <2>1 DEF Known, MyId
  <2>3. Known => /\ MyId \in DOMAIN players_' /\ players_'[MyId].peer \in MyAddrs
                 /\ players_'[MyId].last_input_seq <= n
    <3>1. PICK id : id = MyId
      OBVIOUS
    <3> QED
      BY <1>5, <3>1 DEF HeardBy
  <2>4. HeardBy(n)'
    BY <1>2, <1>3, <2>1, <2>2, <2>3 DEF HeardBy
  <2> QED
    BY <2>2, <2>4 DEF SameId
<1>7. CASE a \notin DOMAIN peer_index_
  <2>1. p = hid
    BY <1>7 DEF Rooms!Received, Rooms!Resolved
  <2>2. PICK b : b = players_[p].peer
    OBVIOUS
  <2>3. b \in DOMAIN peer_index_ /\ peer_index_[b] = p
    BY <1>1, <2>2, RoomsFacts
  <2>4. peer_index_' = Rooms!With(Rooms!Without(peer_index_, b), a, p)
    BY <1>7, <2>2 DEF Rooms!Received, Rooms!RefreshedIndex
  <2>5. /\ DOMAIN peer_index_' = (DOMAIN peer_index_ \ {b}) \cup {a} /\ peer_index_'[a] = p
        /\ \A c \in DOMAIN peer_index_ \ {b} : peer_index_'[c] = peer_index_[c]
    BY <1>7, <2>4 DEF Rooms!With, Rooms!Without
  <2>6. CASE a \in Others
    <3>1. b \in Others
      BY <1>1, <2>2, <2>6
    <3>2. \A c \in MyAddrs : /\ c \in DOMAIN peer_index_' <=> c \in DOMAIN peer_index_
                             /\ c \in DOMAIN peer_index_ => peer_index_'[c] = peer_index_[c]
      BY <2>5, <2>6, <3>1, OwnAddrs
    <3>3. (Known' <=> Known) /\ (Known => MyId' = MyId)
      BY <1>2, <3>2, OwnAddrs DEF Known, MyId
    <3>4. Known => /\ MyId \in DOMAIN players_' /\ players_'[MyId].peer \in MyAddrs
                   /\ players_'[MyId].last_input_seq <= n
      <4>1. PICK id : id = MyId
        OBVIOUS
      <4> QED
        BY <1>5, <4>1 DEF HeardBy
    <3>5. HeardBy(n)'
      BY <1>2, <1>3, <3>2, <3>3, <3>4, OwnAddrs DEF HeardBy
    <3> QED
      BY <3>3, <3>5 DEF SameId
  <2>7. CASE a \in MyAddrs
    <3>1. (moves = 0 => a = Me) /\ client.player_id # 0 /\ p = client.player_id
      BY <2>1, <2>7, OwnAddrs DEF MayName
    <3>2. Known /\ MyId = p /\ Known' /\ MyId' = p
      BY <1>2, <3>1 DEF Known, MyId
    <3>3. moves # 0
      BY <1>7, <3>1, <3>2 DEF HeardBy
    <3>4. /\ p \in DOMAIN players_' /\ players_'[p].peer \in MyAddrs
          /\ players_'[p].last_input_seq <= n
      BY <1>5, <3>2 DEF HeardBy
    <3>5. \A c \in MyAddrs \cap DOMAIN peer_index_' : c = Me \/ peer_index_'[c] = client.player_id
      BY <2>5, <3>1 DEF HeardBy
    <3>6. HeardBy(n)'
      BY <1>2, <1>3, <3>1, <3>2, <3>3, <3>4, <3>5 DEF HeardBy
    <3> QED
      BY <3>2, <3>6 DEF SameId
  <2> QED
    BY <1>4, <2>6, <2>7
<1> QED
  BY <1>6, <1>7

LEMMA OtherPacketHeard ==
  ASSUME Proved!IInv, NEW n \in Nat, HeardBy(n), UNCHANGED <<client, nat>>,
         NEW a, NEW hid, MayName(a, hid), Rooms!OtherPacket(a, hid)
  PROVE  SameId /\ HeardBy(n)' /\ sent' = {}
<1>1. PICK p \in Rooms!Ids : /\ Rooms!Received(a, hid, p) /\ sent' = {}
                             /\ players_' = Rooms!RefreshedPlayers(a, p)
  BY DEF Rooms!OtherPacket
<1>2. PICK ps : ps = Rooms!RefreshedPlayers(a, p)
  OBVIOUS
<1> QED
  BY <1>1, <1>2, ReceivedKeepsHeard

LEMMA RespawnHeard ==
  ASSUME Proved!IInv, NEW n \in Nat, HeardBy(n), UNCHANGED <<client, nat>>,
         NEW a, NEW hid, MayName(a, hid), Rooms!Respawn(a, hid)
  PROVE  SameId /\ HeardBy(n)' /\ IsFiniteSet(sent')
<1>1. PICK p \in Rooms!Ids :
         /\ Rooms!Received(a, hid, p) /\ sent' = {Rooms!Event("Respawn", p, 0)}
         /\ players_' = Rooms!apply_respawn(Rooms!RefreshedPlayers(a, p), p)
  BY DEF Rooms!Respawn
<1>2. PICK ps : ps = Rooms!RefreshedPlayers(a, p)
  OBVIOUS
<1>3. DOMAIN ps = DOMAIN players_ /\ \A q \in DOMAIN players_ : ps[q] \in Rooms!Player
  BY <1>1, <1>2, ReceivedFrom
<1>4. players_' = ps \/ players_' = [ps EXCEPT ![p].alive = TRUE, ![p].hp = kFullHp]
  BY <1>1, <1>2 DEF Rooms!apply_respawn
<1>5. DOMAIN players_' = DOMAIN ps
  BY <1>4
<1>6. ASSUME NEW q \in DOMAIN ps
      PROVE  players_'[q].peer = ps[q].peer /\ players_'[q].last_input_seq = ps[q].last_input_seq
  <2>1. ps[q] \in Rooms!Player
    BY <1>3
  <2> QED
    BY <1>4, <2>1 DEF Rooms!Player
<1>7. IsFiniteSet(sent')
  BY <1>1, FS_Singleton
<1> QED
  BY <1>1, <1>2, <1>5, <1>6, <1>7, ReceivedKeepsHeard

LEMMA FireHeard ==
  ASSUME Proved!IInv, NEW n \in Nat, HeardBy(n), UNCHANGED <<client, nat>>,
         NEW a, NEW hid, MayName(a, hid), NEW t, Rooms!Fire(a, hid, t)
  PROVE  SameId /\ HeardBy(n)' /\ IsFiniteSet(sent')
<1>1. PICK p \in Rooms!Ids :
         /\ Rooms!Received(a, hid, p)
         /\ Rooms!CanHit(Rooms!RefreshedPlayers(a, p), p, t)
         /\ players_' = Rooms!apply_fire(Rooms!RefreshedPlayers(a, p), p, t)
         /\ sent' = {Rooms!Event("Hit", t, p)} \cup
                    (IF Rooms!Kills(Rooms!RefreshedPlayers(a, p), t)
                     THEN {Rooms!Event("Kill", t, p)} ELSE {})
  BY DEF Rooms!Fire
<1>2. PICK ps : ps = Rooms!RefreshedPlayers(a, p)
  OBVIOUS
<1>3. DOMAIN ps = DOMAIN players_ /\ \A q \in DOMAIN players_ : ps[q] \in Rooms!Player
  BY <1>1, <1>2, ReceivedFrom
<1>4. t \in DOMAIN ps /\ p \in DOMAIN ps /\ t # p
  BY <1>1, <1>2 DEF Rooms!CanHit
<1>5. \/ players_' = [ps EXCEPT ![t].hp = 0, ![t].alive = FALSE, ![t].respawn_timer = kRespawnMs,
                                ![t].deaths = Rooms!Incr(@), ![p].kills = Rooms!Incr(@)]
      \/ players_' = [ps EXCEPT ![t].hp = @ - kFireDamage]
  BY <1>1, <1>2, Zenon DEF Rooms!apply_fire
<1>6. DOMAIN players_' = DOMAIN ps
  BY <1>5
<1>7. ASSUME NEW q \in DOMAIN ps
      PROVE  players_'[q].peer = ps[q].peer /\ players_'[q].last_input_seq = ps[q].last_input_seq
  <2>1. ps[q] \in Rooms!Player /\ ps[t] \in Rooms!Player /\ ps[p] \in Rooms!Player
    BY <1>3, <1>4
  <2>2. CASE players_' = [ps EXCEPT ![t].hp = @ - kFireDamage]
    BY <1>3, <2>1, <2>2 DEF Rooms!Player
  <2>3. CASE players_' = [ps EXCEPT ![t].hp = 0, ![t].alive = FALSE,
                                    ![t].respawn_timer = kRespawnMs,
                                    ![t].deaths = Rooms!Incr(@), ![p].kills = Rooms!Incr(@)]
    BY <1>3, <1>4, <2>1, <2>3 DEF Rooms!Player
  <2> QED
    BY <1>5, <2>2, <2>3
<1>8. IsFiniteSet(sent')
  <2>1. IsFiniteSet({Rooms!Event("Hit", t, p)}) /\ IsFiniteSet({Rooms!Event("Kill", t, p)})
        /\ IsFiniteSet({})
    BY FS_Singleton, FS_EmptySet
  <2> QED
    BY <1>1, <2>1, FS_Union
<1> QED
  BY <1>1, <1>2, <1>6, <1>7, <1>8, ReceivedKeepsHeard

LEMMA TickHeard ==
  ASSUME Proved!IInv, NEW n \in Nat, HeardBy(n), UNCHANGED <<client, nat>>, Rooms!TickAll
  PROVE  SameId /\ HeardBy(n)' /\ IsFiniteSet(sent')
<1>1. peer_index_' = peer_index_ /\ acked' = acked
  BY DEF Rooms!TickAll
<1>2. players_' = players_ \/ players_' = Rooms!simulate_respawn(players_)
  BY DEF Rooms!TickAll
<1>3. DOMAIN players_' = DOMAIN players_
  BY <1>2 DEF Rooms!simulate_respawn
<1>4. ASSUME NEW q \in DOMAIN players_
      PROVE  /\ players_'[q].peer = players_[q].peer
             /\ players_'[q].last_input_seq = players_[q].last_input_seq
  <2>1. players_[q] \in Rooms!Player
    BY RoomsFacts
  <2> QED
    BY <1>2, <2>1 DEF Rooms!simulate_respawn, Rooms!Player
<1>5. \/ sent' = {} \/ \E over : sent' = {Rooms!MatchState(over)}
  BY DEF Rooms!TickAll
<1>6. IsFiniteSet(sent')
  BY <1>5, FS_Singleton, FS_EmptySet, ZenonT(60)
<1>7. SamePlayers
  BY <1>1, <1>3, <1>4 DEF SamePlayers
<1> QED
  BY <1>6, <1>7, SameKeepsHeard

\* An input of the client raises its player's input to its own number at most.
LEMMA InputHeard ==
  ASSUME Proved!IInv, NEW n \in Nat, HeardBy(n), UNCHANGED <<client, nat>>,
         NEW a, NEW hid, MayName(a, hid), NEW seq, a \in MyAddrs => seq \in 1..n,
         Rooms!Input(a, hid, seq)
  PROVE  SameId /\ HeardBy(n)' /\ sent' = {}
<1>1. PICK p \in Rooms!Ids :
         /\ Rooms!Received(a, hid, p) /\ sent' = {}
         /\ players_' = Rooms!apply_input(Rooms!RefreshedPlayers(a, p), p, seq)
  BY DEF Rooms!Input
<1>2. PICK ps : ps = Rooms!RefreshedPlayers(a, p)
  OBVIOUS
<1>3. /\ DOMAIN ps = DOMAIN players_ /\ p \in DOMAIN ps
      /\ \A q \in DOMAIN players_ : ps[q] \in Rooms!Player
  BY <1>1, <1>2, ReceivedFrom
<1>4. players_' = ps \/ players_' = [ps EXCEPT ![p].last_input_seq = seq]
  BY <1>1, <1>2 DEF Rooms!apply_input
<1>5. DOMAIN players_' = DOMAIN ps
  BY <1>4
<1>6. ASSUME NEW q \in DOMAIN ps
      PROVE  /\ players_'[q].peer = ps[q].peer
             /\ \/ players_'[q].last_input_seq = ps[q].last_input_seq
                \/ q = p /\ (a \in MyAddrs => players_'[q].last_input_seq <= n)
  <2>1. ps[q] \in Rooms!Player
    BY <1>3, <1>6
  <2> QED
    BY <1>3, <1>4, <2>1 DEF Rooms!Player
<1> QED
  BY <1>1, <1>2, <1>5, <1>6, ReceivedKeepsHeard

\* A join binds an address that is not bound, to an id that is not taken.
LEMMA JoinHeard ==
  ASSUME Proved!IInv, NEW n \in Nat, HeardBy(n), UNCHANGED <<client, nat>>,
         NEW a, a \in Others \/ a = Me, Rooms!Join(a)
  PROVE  SameId /\ HeardBy(n)' /\ sent' = {}
<1>1. sent' = {} /\ client' = client /\ moves' = moves
  BY DEF Rooms!Join, nat
<1>2. Known => /\ MyId \in DOMAIN players_ /\ players_[MyId].peer \in MyAddrs
               /\ players_[MyId].last_input_seq <= n
  BY DEF HeardBy
<1>3. CASE a \in DOMAIN peer_index_
  <2>1. /\ acked' = acked \cup {peer_index_[a]} /\ peer_index_' = peer_index_
        /\ players_' = [players_ EXCEPT ![peer_index_[a]].peer = a]
    BY <1>3, RoomsFacts DEF Rooms!Join
  <2>2. ASSUME NEW q \in DOMAIN players_
        PROVE  /\ players_'[q].peer = players_[q].peer
               /\ players_'[q].last_input_seq = players_[q].last_input_seq
    <3>1. players_[q] \in Rooms!Player /\ players_[peer_index_[a]].peer = a
      BY <1>3, RoomsFacts
    <3> QED
      BY <2>1, <3>1 DEF Rooms!Player
  <2>3. acked' = acked
    BY <1>3, <2>1, RoomsFacts DEF HeardBy
  <2>4. SamePlayers
    BY <2>1, <2>2, <2>3 DEF SamePlayers
  <2> QED
    BY <1>1, <2>4, SameKeepsHeard
<1>4. CASE a \notin DOMAIN peer_index_ /\ UNCHANGED <<players_, peer_index_, acked>>
  <2>1. SamePlayers
    BY <1>4 DEF SamePlayers
  <2> QED
    BY <1>1, <2>1, SameKeepsHeard
<1>5. CASE /\ a \notin DOMAIN peer_index_ /\ next_player_id_ \notin DOMAIN players_
           /\ players_' = Rooms!With(players_, next_player_id_, Rooms!NewPlayer(a))
           /\ peer_index_' = Rooms!With(peer_index_, a, next_player_id_)
           /\ acked' = acked \cup {next_player_id_}
  <2>1. /\ DOMAIN players_' = DOMAIN players_ \cup {next_player_id_}
        /\ \A q \in DOMAIN players_ : players_'[q] = players_[q]
        /\ players_'[next_player_id_] = Rooms!NewPlayer(a)
    BY <1>5 DEF Rooms!With
  <2>2. /\ DOMAIN peer_index_' = DOMAIN peer_index_ \cup {a}
        /\ \A c \in DOMAIN peer_index_ : peer_index_'[c] = peer_index_[c]
        /\ peer_index_'[a] = next_player_id_
    BY <1>5 DEF Rooms!With
  <2>3. DOMAIN players_' \subseteq acked'
    BY <1>5, <2>1 DEF HeardBy
  <2>4. \A c \in MyAddrs \cap DOMAIN peer_index_' :
           c = Me \/ (client.player_id # 0 /\ peer_index_'[c] = client.player_id)
    BY <2>2, OwnAddrs DEF HeardBy
  <2>5. CASE Known
    <3>1. Known' /\ MyId' = MyId
      BY <1>1, <2>2, <2>5 DEF Known, MyId
    <3>2. moves = 0 => Me \in DOMAIN peer_index_' /\ peer_index_'[Me] = MyId
      BY <2>2, <2>5 DEF HeardBy
    <3>3. /\ MyId \in DOMAIN players_' /\ players_'[MyId].peer \in MyAddrs
          /\ players_'[MyId].last_input_seq <= n
      BY <1>2, <2>1, <2>5
    <3>4. HeardBy(n)'
      BY <1>1, <2>3, <2>4, <3>1, <3>2, <3>3 DEF HeardBy
    <3> QED
      BY <1>1, <3>1, <3>4 DEF SameId
  <2>6. CASE ~Known /\ a = Me
    <3>1. Known' /\ MyId' = next_player_id_ /\ peer_index_'[Me] = next_player_id_
      BY <1>1, <2>2, <2>6 DEF Known, MyId
    <3>2. players_'[next_player_id_].peer = Me /\ players_'[next_player_id_].last_input_seq = 0
      BY <2>1, <2>6 DEF Rooms!NewPlayer
    <3>3. next_player_id_ \in DOMAIN players_' /\ Me \in DOMAIN peer_index_'
      BY <2>1, <2>2, <2>6
    <3>4. HeardBy(n)'
      BY <1>1, <2>3, <2>4, <3>1, <3>2, <3>3, OwnAddrs DEF HeardBy
    <3> QED
      BY <1>1, <2>6, <3>4 DEF SameId
  <2>7. CASE ~Known /\ a # Me
    <3>1. ~Known'
      BY <1>1, <2>2, <2>7 DEF Known
    <3>2. HeardBy(n)'
      BY <1>1, <2>3, <2>4, <3>1 DEF HeardBy
    <3> QED
      BY <1>1, <2>7, <3>2 DEF SameId
  <2> QED
    BY <2>5, <2>6, <2>7
<1> QED
  BY <1>3, <1>4, <1>5 DEF Rooms!Join

-----------------------------------------------------------------------------
(* The network *)

\* A packet that the code builds and UDP carries.
IsPacket(p) ==
    /\ p = build_packet(p.msg_type, p.room_id, p.player_id, p.seq, p.tick, p.payload)
    /\ IsWords(p.payload)
    /\ Length(p) <= kMaxDatagramSize

\* One of the players is id, with no input after the n-th.
Shows(ps, id, n) ==
    \E i \in DOMAIN ps : ps[i].player_id = id /\ ps[i].last_input_seq \in 0..n

AckOf(id) ==
    [room_id |-> kRoom, player_id |-> id, server_tick |-> Stamp, tick_interval_ms |-> TickMs]

\* What the client sends: a join without an id; a ping or one of its first n inputs with its id.
FromClient(p, id, n) ==
    \/ p.msg_type = "C2SJoin" /\ p.room_id = 0
    \/ /\ id # 0 /\ p.room_id = kRoom /\ p.player_id = id
       /\ \/ p.msg_type = "C2SPing"
          \/ p.msg_type = "C2SInput" /\ decode_input(p.payload).input_seq \in 1..n

\* What the server sends to the client: an ack with its id, as long as it waits for one, and
\* snapshots that show its player, as far as the client's buffer can hold them.
ForClient(p, id, n) ==
    /\ client.player_id = 0 /\ p.msg_type = "S2CJoinAck" => decode_join_ack(p.payload) = AckOf(id)
    /\ p.msg_type = "S2CSnapshot" /\ Length(p) <= kClientBuf =>
          Shows(decode_snapshot(p.payload).players, id, n)

\* The address that a datagram of the client comes from.
FromOwn(d) ==
    /\ d.from \in MyAddrs
    /\ moves = 0 \/ d.packet.msg_type = "C2SJoin" => d.from = Me

\* Datagrams to the client.
GoodReplies(ds, id, n) ==
    /\ IsFiniteSet(ds)
    /\ \A d \in ds : /\ d.to = "client"
                     /\ Length(d.packet) <= kMaxDatagramSize => IsPacket(d.packet)
                     /\ ForClient(d.packet, id, n)

LEMMA MoreInputsFromClient ==
  ASSUME NEW p, NEW id, NEW m \in Nat, NEW n \in Nat, m <= n, FromClient(p, id, m)
  PROVE  FromClient(p, id, n)
<1>1. 1..m \subseteq 1..n
  OBVIOUS
<1> QED
  BY <1>1 DEF FromClient

LEMMA Built ==
  ASSUME NEW t, NEW room, NEW id, NEW seq, NEW tick, NEW y, NEW p,
         p = build_packet(t, room, id, seq, tick, y)
  PROVE  /\ p = build_packet(p.msg_type, p.room_id, p.player_id, p.seq, p.tick, p.payload)
         /\ p.msg_type = t /\ p.room_id = room /\ p.player_id = id /\ p.payload = y
         /\ p.version = kVersion /\ AnyPacket(p)
  BY DEF build_packet, AnyPacket

LEMMA SizeType ==
  ASSUME NEW w, IsWords(w)
  PROVE  Size(w) \in Nat
<1>1. Len(w) \in Nat /\ \A i \in 1..Len(w) : w[i][1] \in Nat
  BY DEF IsWords
<1>2. \A n \in 0..Len(w) : Ends(w)[n] \in Nat
  BY <1>1, EndsType
<1> QED
  BY <1>1, <1>2 DEF Size

\* The length of a payload that UDP carries does not wrap.
LEMMA PacketFits ==
  ASSUME NEW p, IsPacket(p)
  PROVE  /\ AnyPacket(p) /\ IsWords(p.payload) /\ Size(p.payload) < LenSpace
         /\ Length(p) = HeaderBytes + Size(p.payload) /\ Length(p) \in Nat
<1>1. AnyPacket(p) /\ IsWords(p.payload)
  BY Built DEF IsPacket
<1>2. Size(p.payload) \in Nat
  BY <1>1, SizeType
<1>3. /\ HeaderBytes + Size(p.payload) <= kMaxDatagramSize /\ HeaderBytes \in Nat
      /\ kMaxDatagramSize < LenSpace /\ kMaxDatagramSize \in Nat /\ LenSpace \in Nat
      /\ HeaderBytes >= 0
  BY HeaderSize, ClientAssumption, CodecAssumption
     DEF IsPacket, Length, ClientAssumption, CodecAssumption
<1>4. Size(p.payload) < LenSpace
  BY <1>2, <1>3
<1> QED
  BY <1>1, <1>2, <1>3, <1>4 DEF Length

\* A decoder of the whole datagram.
LEMMA DecodeWhole ==
  ASSUME NEW p, AnyPacket(p), IsWords(p.payload), Size(p.payload) < LenSpace,
         NEW q, q = decode(encode(p)), q # Refused
  PROVE  /\ q.msg_type = p.msg_type /\ q.room_id = p.room_id /\ q.player_id = p.player_id
         /\ q.payload = p.payload
<1>1. IsWords(encode(p))
  BY EncodeParts
<1>2. PICK bytes \in Nat : bytes = Size(encode(p))
  BY <1>1, SizeType
<1>3. Prefix(encode(p), bytes) = encode(p)
  BY <1>2 DEF Prefix, Size
<1>4. q = decode(Prefix(encode(p), bytes))
  BY <1>3
<1> QED
  BY <1>4, DecodeSent

\* What sending adds to the network.
LEMMA SentAdds ==
  ASSUME NEW u, IsFiniteSet(u), Cardinality(u) <= MaxNet, NEW ds, IsFiniteSet(ds),
         NEW v, v = Sent(ds, u)
  PROVE  /\ IsFiniteSet(v) /\ Cardinality(v) <= MaxNet
         /\ v \subseteq u \cup {d \in ds : Length(d.packet) <= kMaxDatagramSize}
<1> DEFINE new == {d \in ds : Length(d.packet) <= kMaxDatagramSize}
<1>1. v = IF Cardinality(u \cup new) <= MaxNet THEN u \cup new ELSE u
  BY Zenon DEF Sent
<1>2. IsFiniteSet(new)
  BY FS_Subset
<1> HIDE DEF new
<1>3. IsFiniteSet(u \cup new)
  BY <1>2, FS_Union
<1>4. v \subseteq u \cup new
  BY <1>1
<1>5. IsFiniteSet(v) /\ Cardinality(v) <= MaxNet
  BY <1>1, <1>3
<1> QED
  BY <1>4, <1>5 DEF new

\* Sending nothing leaves the network as it is.
LEMMA NothingSent ==
  ASSUME NEW u
  PROVE  u = Sent({}, u)
<1>1. {d \in {} : Length(d.packet) <= kMaxDatagramSize} = {}
  OBVIOUS
<1>2. u \cup {} = u
  OBVIOUS
<1> QED
  BY <1>1, <1>2, Zenon DEF Sent

LEMMA NoReplies ==
  ASSUME NEW id, NEW n
  PROVE  GoodReplies({}, id, n)
  BY FS_EmptySet DEF GoodReplies

LEMMA AnotherType ==
  ASSUME NEW t, NEW room, NEW p, NEW seq, NEW tick, NEW y, IsWords(y), NEW id, NEW n,
         t # "S2CJoinAck", t # "S2CSnapshot"
  PROVE  GoodReplies({Datagram(build_packet(t, room, p, seq, tick, y))}, id, n)
<1>1. PICK d : d = Datagram(build_packet(t, room, p, seq, tick, y))
  OBVIOUS
<1>2. d.to = "client" /\ d.packet = build_packet(t, room, p, seq, tick, y)
  BY <1>1 DEF Datagram
<1>3. /\ d.packet = build_packet(d.packet.msg_type, d.packet.room_id, d.packet.player_id,
                                 d.packet.seq, d.packet.tick, d.packet.payload)
      /\ d.packet.msg_type = t /\ d.packet.payload = y
  BY <1>2, Built
<1>4. ForClient(d.packet, id, n)
  BY <1>3 DEF ForClient
<1>5. Length(d.packet) <= kMaxDatagramSize => IsPacket(d.packet)
  BY <1>3 DEF IsPacket
<1>6. IsFiniteSet({d})
  BY FS_Singleton
<1> QED
  BY <1>1, <1>2, <1>4, <1>5, <1>6 DEF GoodReplies

-----------------------------------------------------------------------------
(* The server's replies *)

\* What the encoders write is words.
LEMMA AreWords ==
  ASSUME NEW in
  PROVE  /\ IsWords(encode_join(in)) /\ IsWords(encode_join_ack(in)) /\ IsWords(encode_event(in))
         /\ IsWords(encode_match_state(in)) /\ IsWords(encode_input(in)) /\ IsWords(encode_fire(in))
         /\ IsWords(encode_weapon(in))
<1>1. Wide(<<U32("desired_room_id")>>)
  BY DEF Wide, U32
<1>2. Wide(<<U32("room_id"), U32("player_id"), U32("server_tick"), U32("tick_interval_ms")>>)
  BY DEF Wide, U32
<1>3. Wide(<<U8("event_type"), Pads, U32("target_id"), U32("value"), U32("extra")>>)
  BY DEF Wide, U8, U32, Pads
<1>4. Wide(<<U32("time_left_sec"), U8("match_over"), Pads>>)
  BY DEF Wide, U8, U32, Pads
<1>5. Wide(<<U32("client_tick"), U8("weapon_id"), Pads,
             U32("origin_x"), U32("origin_y"), U32("origin_z"),
             U32("dir_x"), U32("dir_y"), U32("dir_z")>>)
  BY DEF Wide, U8, U32, Pads
<1>6. Wide(<<U8("weapon_id"), Pads>>)
  BY DEF Wide, U8, Pads
<1>7. IsWords(encode_join(in)) /\ IsWords(encode_join_ack(in)) /\ IsWords(encode_event(in))
  BY <1>1, <1>2, <1>3, AppendWords, Zenon DEF encode_join, encode_join_ack, encode_event
<1>8. IsWords(encode_match_state(in)) /\ IsWords(encode_fire(in)) /\ IsWords(encode_weapon(in))
  BY <1>4, <1>5, <1>6, AppendWords, Zenon DEF encode_match_state, encode_fire, encode_weapon
<1>9. IsWords(encode_input(in))
  BY InputWords
<1> QED
  BY <1>7, <1>8, <1>9

LEMMA PongWords ==
  ASSUME NEW c, NEW r, NEW s
  PROVE  IsWords(encode_ping(c)) /\ IsWords(encode_pong(c, r, s))
<1>1. PICK w : w = encode_pong(c, r, s)
  OBVIOUS
<1>2. /\ Len(w) = 3 /\ w[1][1] = 8 /\ w[2][1] = 8 /\ w[3][1] = 8 /\ w = [i \in 1..3 |-> w[i]]
  BY <1>1 DEF encode_pong, Word
<1>3. w \in Seq(ToSet(w))
  BY <1>2, OwnElements
<1>4. PICK v : v = encode_ping(c)
  OBVIOUS
<1>5. Len(v) = 1 /\ v[1][1] = 8 /\ v = [i \in 1..1 |-> v[i]]
  BY <1>4 DEF encode_ping, Word
<1>6. v \in Seq(ToSet(v))
  BY <1>5, OwnElements
<1> QED
  BY <1>1, <1>2, <1>3, <1>4, <1>5, <1>6 DEF IsWords

\* Datagrams to the client, and none before it is known.
Replies(ds, n) ==
    GoodReplies(ds, MyId', n) /\ (ds # {} => Known')

LEMMA FiniteImage ==
  ASSUME NEW S, IsFiniteSet(S), NEW f, f = [x \in S |-> f[x]]
  PROVE  IsFiniteSet({f[x] : x \in S})
<1> DEFINE T == {f[x] : x \in S}
<1>1. f \in Surjection(S, T)
  BY DEF Surjection
<1> HIDE DEF T
<1>2. IsFiniteSet(T)
  BY <1>1, FS_Surjection
<1> QED
  BY <1>2 DEF T

\* The room's packets to the client, for each player that it has at one of its addresses.
LEMMA RoomReplies ==
  ASSUME Proved!IInv', NEW n, HeardBy(n)', NEW t, NEW seq, NEW y, IsWords(y), t # "S2CJoinAck",
         NEW m, Known' /\ t = "S2CSnapshot" /\ HeaderBytes + Size(y) <= kClientBuf =>
                   Shows(decode_snapshot(y).players, MyId', m)
  PROVE  Replies(ToClient(t, seq, y), m)
<1> DEFINE mine == {q \in DOMAIN players_' : players_'[q].peer \in MyAddrs}
           of   == [p \in mine |-> Datagram(build_packet(t, kRoom, p, seq, Stamp, y))]
<1>1. ToClient(t, seq, y) = {of[p] : p \in mine}
  BY Zenon DEF ToClient
<1>2. IsFiniteSet(mine)
  <2>1. mine \subseteq Proved!Ids
    BY DEF Proved!IInv, Proved!TypeOK, Proved!IsMap
  <2>2. 1 \in Int /\ IdSpace - 1 \in Int
    BY RoomsAssumption DEF Rooms!GameAssumption
  <2>3. IsFiniteSet(1..(IdSpace - 1))
    BY <2>2, FS_Interval
  <2> HIDE DEF mine
  <2> QED
    BY <2>1, <2>3, FS_Subset DEF Proved!Ids
<1>3. mine # {} => Known'
  <2>1. \A p \in DOMAIN players_' :
           players_'[p].peer \in DOMAIN peer_index_' /\ peer_index_'[players_'[p].peer] = p
    BY DEF Proved!IInv, Proved!IndexConsistent, Proved!Consistent
  <2> SUFFICES ASSUME NEW p \in mine PROVE Known'
    OBVIOUS
  <2>2. players_'[p].peer \in MyAddrs \cap DOMAIN peer_index_'
    BY <2>1
  <2> QED
    BY <2>2 DEF HeardBy, Known
<1>4. ASSUME NEW p \in mine
      PROVE  /\ of[p].to = "client"
             /\ Length(of[p].packet) <= kMaxDatagramSize => IsPacket(of[p].packet)
             /\ ForClient(of[p].packet, MyId', m)
  <2>1. PICK k : k = kRoom
    OBVIOUS
  <2>2. PICK s : s = Stamp
    OBVIOUS
  <2>3. PICK q : q = build_packet(t, k, p, seq, s, y)
    OBVIOUS
  <2>4. of[p].to = "client" /\ of[p].packet = q
    BY <2>1, <2>2, <2>3 DEF Datagram
  <2>5. /\ q = build_packet(q.msg_type, q.room_id, q.player_id, q.seq, q.tick, q.payload)
        /\ q.msg_type = t /\ q.payload = y
    BY <2>3, Built
  <2>6. Length(q) <= kMaxDatagramSize => IsPacket(q)
    BY <2>5 DEF IsPacket
  <2>7. ForClient(q, MyId', m)
    BY <1>3, <2>5 DEF ForClient, Length
  <2> QED
    BY <2>4, <2>6, <2>7
<1> HIDE DEF mine
<1>5. of = [p \in mine |-> of[p]] /\ DOMAIN of = mine
  OBVIOUS
<1> HIDE DEF of
<1>6. IsFiniteSet({of[p] : p \in mine})
  <2>1. PICK S : S = mine
    OBVIOUS
  <2>2. PICK f : f = of
    OBVIOUS
  <2>3. IsFiniteSet({f[x] : x \in S})
    BY <1>2, <1>5, <2>1, <2>2, FiniteImage
  <2> QED
    BY <2>1, <2>2, <2>3
<1>7. ToClient(t, seq, y) # {} => Known'
  BY <1>1, <1>3
<1>8. GoodReplies(ToClient(t, seq, y), MyId', m)
  BY <1>1, <1>4, <1>6 DEF GoodReplies
<1> QED
  BY <1>7, <1>8 DEF Replies

LEMMA OtherReply ==
  ASSUME Proved!IInv', NEW m, HeardBy(m)', NEW t, NEW seq, NEW y, IsWords(y), NEW n,
         t # "S2CJoinAck", t # "S2CSnapshot"
  PROVE  Replies(ToClient(t, seq, y), n)
  BY RoomReplies

LEMMA FiniteUnion ==
  ASSUME NEW S, IsFiniteSet(S), NEW f, f = [x \in S |-> f[x]],
         \A x \in S : IsFiniteSet(f[x])
  PROVE  IsFiniteSet(UNION {f[x] : x \in S})
<1> DEFINE T == {f[x] : x \in S}
<1>2. IsFiniteSet(T)
  BY FiniteImage
<1>3. \A t \in T : IsFiniteSet(t)
  OBVIOUS
<1> HIDE DEF T
<1>4. IsFiniteSet(UNION T)
  BY <1>2, <1>3, FS_UNION
<1> QED
  BY <1>4 DEF T

LEMMA BroadcastReplies ==
  ASSUME Proved!IInv', IsFiniteSet(sent'), NEW n, HeardBy(n)'
  PROVE  Replies(Broadcast, n)
<1> DEFINE r(e) == IF e.type = "MatchState" THEN send_match_state(e.over) ELSE send_event(e)
           f    == [e \in sent' |-> r(e)]
<1>1. ASSUME NEW e PROVE Replies(r(e), n)
  <2>1. ASSUME NEW over PROVE Replies(send_match_state(over), n)
    <3>1. PICK y : y = encode_match_state([time_left_sec |-> time_left_sec_', match_over |-> over])
      OBVIOUS
    <3>2. IsWords(y)
      BY <3>1, AreWords
    <3>3. Replies(ToClient("S2CMatchState", 0, y), n)
      BY <3>2, OtherReply
    <3> QED
      BY <3>1, <3>3, Zenon DEF send_match_state
  <2>2. Replies(send_event(e), n)
    <3>1. PICK y : y = encode_event([event_type |-> EventType[e.type], target_id |-> e.target,
                                     value |-> EventValue[e.type], extra |-> e.by])
      OBVIOUS
    <3>2. IsWords(y)
      BY <3>1, AreWords
    <3>3. Replies(ToClient("S2CEvent", 0, y), n)
      BY <3>2, OtherReply
    <3> QED
      BY <3>1, <3>3, Zenon DEF send_event
  <2> QED
    BY <2>1, <2>2
<1>2. Broadcast = UNION {r(e) : e \in sent'}
  BY Zenon DEF Broadcast
<1> HIDE DEF r
<1>3. f = [e \in sent' |-> f[e]] /\ \A e \in sent' : f[e] = r(e)
  OBVIOUS
<1>4. Broadcast = UNION {f[e] : e \in sent'}
  BY <1>2, <1>3
<1> HIDE DEF f
<1>5. IsFiniteSet(Broadcast)
  <2>1. \A e \in sent' : IsFiniteSet(f[e])
    BY <1>1, <1>3 DEF Replies, GoodReplies
  <2>2. IsFiniteSet(UNION {f[e] : e \in sent'})
    <3>1. PICK S : S = sent'
      OBVIOUS
    <3>2. PICK g : g = f
      OBVIOUS
    <3>3. IsFiniteSet(UNION {g[e] : e \in S})
      <4>1. IsFiniteSet(S) /\ g = [x \in S |-> g[x]] /\ \A x \in S : IsFiniteSet(g[x])
        BY <1>3, <2>1, <3>1, <3>2
      <4> QED
        BY <4>1, FiniteUnion
    <3> QED
      BY <3>1, <3>2, <3>3
  <2> QED
    BY <1>4, <2>2
<1>6. \A d \in Broadcast : \E e : d \in r(e)
  BY <1>2
<1> QED
  BY <1>1, <1>5, <1>6 DEF Replies, GoodReplies

LEMMA AckReplies ==
  ASSUME NEW a, NEW n, a \in MyAddrs => a = Me, UNCHANGED client
  PROVE  Replies(send_join_ack(a), n)
<1>1. CASE a \notin MyAddrs \/ a \notin DOMAIN peer_index_'
  BY <1>1, NoReplies DEF send_join_ack, Replies
<1>2. CASE a \in MyAddrs /\ a \in DOMAIN peer_index_'
  <2>1. PICK id : id = peer_index_'[Me]
    OBVIOUS
  <2>2. /\ Known' /\ send_join_ack(a) = {JoinAck(id)}
        /\ client.player_id = 0 => id = MyId'
    BY <1>2, <2>1 DEF send_join_ack, Known, MyId
  <2>3. PICK y : y = encode_join_ack(AckOf(id))
    OBVIOUS
  <2>4. JoinAck(id) = Datagram(build_packet("S2CJoinAck", kRoom, id, 0, Stamp, y))
    BY <2>3, Zenon DEF JoinAck, AckOf
  <2>5. PICK d : d = JoinAck(id)
    OBVIOUS
  <2>6. d.to = "client" /\ d.packet = build_packet("S2CJoinAck", kRoom, id, 0, Stamp, y)
    BY <2>4, <2>5 DEF Datagram
  <2>7. /\ d.packet = build_packet(d.packet.msg_type, d.packet.room_id, d.packet.player_id,
                                   d.packet.seq, d.packet.tick, d.packet.payload)
        /\ d.packet.msg_type = "S2CJoinAck" /\ d.packet.payload = y
    BY <2>6, Built
  <2>8. decode_join_ack(y) = AckOf(id)
    <3>1. decode_join_ack(y) = [f \in AckNames |-> AckOf(id)[f]]
      BY <2>3, AckKept
    <3>2. [f \in AckNames |-> AckOf(id)[f]] = AckOf(id)
      BY DEF AckNames, AckOf
    <3> QED
      BY <3>1, <3>2
  <2>9. IsWords(y)
    BY <2>3, AreWords
  <2>10. ForClient(d.packet, MyId', n)
    BY <2>2, <2>7, <2>8 DEF ForClient
  <2>11. Length(d.packet) <= kMaxDatagramSize => IsPacket(d.packet)
    BY <2>7, <2>9 DEF IsPacket
  <2>12. IsFiniteSet({d})
    BY FS_Singleton
  <2>13. GoodReplies({d}, MyId', n)
    BY <2>6, <2>10, <2>11, <2>12 DEF GoodReplies
  <2> QED
    BY <2>1, <2>2, <2>5, <2>13 DEF Replies
<1> QED
  BY <1>1, <1>2

LEMMA PongReplies ==
  ASSUME NEW a, NEW ping, NEW n, a \in MyAddrs => Known'
  PROVE  Replies(send_pong(a, ping), n)
<1>1. CASE a \notin MyAddrs \/ decode_ping(ping.payload) = Refused
  BY <1>1, NoReplies DEF send_pong, Replies
<1>2. CASE a \in MyAddrs /\ decode_ping(ping.payload) # Refused
  <2>1. PICK p : p = IF a \in DOMAIN peer_index_' THEN peer_index_'[a] ELSE ping.player_id
    OBVIOUS
  <2>2. PICK y : y = encode_pong(decode_ping(ping.payload).client_send, Stamp, Stamp)
    OBVIOUS
  <2>3. IsWords(y)
    BY <2>2, PongWords
  <2>4. PICK k : k = IF a \in DOMAIN peer_index_' THEN kRoom ELSE ping.room_id
    OBVIOUS
  <2>5. send_pong(a, ping) =
           {Datagram(build_packet("S2CPong", k, p, ping.seq, ping.tick, y))}
    BY <1>2, <2>1, <2>2, <2>4, Zenon DEF send_pong
  <2>6. PICK s : s = ping.seq
    OBVIOUS
  <2>7. PICK u : u = ping.tick
    OBVIOUS
  <2>8. PICK id : id = MyId'
    OBVIOUS
  <2>9. GoodReplies({Datagram(build_packet("S2CPong", k, p, s, u, y))}, id, n)
    BY <2>3, AnotherType
  <2> QED
    BY <1>2, <2>5, <2>6, <2>7, <2>8, <2>9 DEF Replies
<1> QED
  BY <1>1, <1>2

LEMMA Enumeration ==
  ASSUME NEW S, IsFiniteSet(S), NEW ids, ids = SetToSeq(S)
  PROVE  \E n \in Nat : /\ ids \in [1..n -> S]
                        /\ \A x \in S : \E i \in 1..n : ids[i] = x
<1>1. PICK n : n = Cardinality(S)
  OBVIOUS
<1>2. n \in Nat /\ ExistsBijection(1..n, S)
  BY <1>1, FS_CardinalityType
<1>3. PICK g : g \in Bijection(1..n, S)
  BY <1>2 DEF ExistsBijection
<1>4. g \in [1..n -> S] /\ IsInjective(g)
  BY <1>3 DEF Bijection, Injection
<1>5. ids = CHOOSE f \in [1..n -> S] : IsInjective(f)
  BY <1>1, Zenon DEF SetToSeq
<1>6. ids \in [1..n -> S] /\ IsInjective(ids)
  BY <1>4, <1>5
<1>7. ids \in Injection(1..n, S)
  BY <1>6 DEF Injection
<1>8. Cardinality(1..n) = n
  <2>1. 1 \in Int /\ n \in Int
    BY <1>2
  <2>2. Cardinality(1..n) = IF 1 > n THEN 0 ELSE n - 1 + 1
    BY <2>1, FS_Interval
  <2> QED
    BY <1>2, <2>2
<1>9. ids \in Surjection(1..n, S)
  BY <1>1, <1>7, <1>8, FS_Injection
<1> QED
  BY <1>2, <1>6, <1>9 DEF Surjection

\* The records of a snapshot that the server sends.
RecordOf(p) == [player_id |-> p, last_input_seq |-> players_'[p].last_input_seq]

LEMMA SnapshotReplies ==
  ASSUME Proved!IInv', NEW n \in Nat, HeardBy(n)'
  PROVE  Replies(send_snapshot, n)
<1>1. PICK ids : ids = SetToSeq(DOMAIN players_')
  OBVIOUS
<1>2. PICK ps : ps = [i \in DOMAIN ids |-> RecordOf(ids[i])]
  OBVIOUS
<1>3. PICK y : y = encode_snapshot([server_tick |-> Stamp, players |-> ps])
  OBVIOUS
<1>4. send_snapshot = ToClient("S2CSnapshot", Stamp, y)
  BY <1>1, <1>2, <1>3, Zenon DEF send_snapshot, RecordOf
<1>5. DOMAIN players_' \subseteq Proved!Ids
  BY DEF Proved!IInv, Proved!TypeOK, Proved!IsMap
<1>6. IsFiniteSet(DOMAIN players_')
  <2>1. 1 \in Int /\ IdSpace - 1 \in Int
    BY RoomsAssumption DEF Rooms!GameAssumption
  <2>2. IsFiniteSet(1..(IdSpace - 1))
    BY <2>1, FS_Interval
  <2> QED
    BY <1>5, <2>2, FS_Subset DEF Proved!Ids
<1>7. PICK m \in Nat : /\ ids \in [1..m -> DOMAIN players_']
                       /\ \A x \in DOMAIN players_' : \E i \in 1..m : ids[i] = x
  <2>1. PICK S : S = DOMAIN players_'
    OBVIOUS
  <2>2. \E k \in Nat : ids \in [1..k -> S] /\ \A x \in S : \E i \in 1..k : ids[i] = x
    BY <1>1, <1>6, <2>1, Enumeration, SMTT(30)
  <2> QED
    BY <2>1, <2>2
<1>8. ps = [i \in 1..m |-> RecordOf(ids[i])]
  BY <1>2, <1>7
<1>9. IsList(ps) /\ Len(ps) = m /\ DOMAIN ps = 1..m
  <2>1. ps = [i \in 1..m |-> ps[i]]
    BY <1>8
  <2> QED
    BY <1>7, <2>1, OwnElements DEF IsList
<1>10. PICK in : in = [server_tick |-> Stamp, players |-> ps]
  OBVIOUS
<1>11. in.players = ps /\ IsList(in.players) /\ y = encode_snapshot(in)
  BY <1>3, <1>9, <1>10
<1>12. IsWords(y)
  BY <1>11, SnapshotWords
<1>13. ASSUME Known' PROVE Shows(ps, MyId', n)
  <2>1. PICK id : id = MyId'
    OBVIOUS
  <2>2. id \in DOMAIN players_' /\ players_'[id].last_input_seq <= n
    BY <1>13, <2>1 DEF HeardBy
  <2>3. PICK i \in 1..m : ids[i] = id
    BY <1>7, <2>2
  <2>4. ps[i] = RecordOf(id)
    BY <1>8, <2>3
  <2>5. ps[i].player_id = id /\ ps[i].last_input_seq = players_'[id].last_input_seq
    BY <2>4 DEF RecordOf
  <2>6. players_'[id] \in Proved!Player
    BY <2>2 DEF Proved!IInv, Proved!TypeOK, Proved!IsMap
  <2>7. players_'[id].last_input_seq \in 0..n
    BY <2>2, <2>6, RoomsAssumption DEF Proved!Player, Rooms!GameAssumption
  <2> QED
    BY <1>9, <2>1, <2>3, <2>5, <2>7 DEF Shows
<1>14. ASSUME HeaderBytes + Size(y) <= kClientBuf
       PROVE  decode_snapshot(y).players = ps
  <2>1. Size(y) = 8 + 34 * m
    BY <1>9, <1>11, SnapshotSize
  <2>2. /\ kClientBuf \in Nat /\ kClientBuf < kHeaderSize + CountSpace * 34
        /\ CountSpace \in Nat /\ HeaderBytes \in Nat /\ HeaderBytes >= kHeaderSize
    BY ClientAssumption, CodecAssumption, HeaderSize, RecordIs34
       DEF ClientAssumption, CodecAssumption
  <2>3. m < CountSpace
    BY <1>14, <2>1, <2>2 DEF kHeaderSize
  <2>4. Len(in.players) < CountSpace
    BY <1>9, <1>11, <2>3
  <2>5. decode_snapshot(y) = [server_tick |-> in.server_tick, players |-> in.players]
    BY <1>11, <2>4, SnapshotWhole
  <2> QED
    BY <1>11, <2>5
<1>15. Known' /\ HeaderBytes + Size(y) <= kClientBuf =>
          Shows(decode_snapshot(y).players, MyId', n)
  BY <1>13, <1>14
<1>16. PICK s : s = Stamp
  OBVIOUS
<1>17. Replies(ToClient("S2CSnapshot", s, y), n)
  BY <1>12, <1>15, RoomReplies
<1> QED
  BY <1>4, <1>16, <1>17

\* Replies of two kinds.
LEMMA BothReplies ==
  ASSUME NEW c, NEW d, NEW n, Replies(c, n), Replies(d, n)
  PROVE  Replies(c \cup d, n)
<1>1. IsFiniteSet(c \cup d)
  BY FS_Union DEF Replies, GoodReplies
<1> QED
  BY <1>1 DEF Replies, GoodReplies

-----------------------------------------------------------------------------
(* A datagram at the server *)

\* Whatever the network does, what the server decodes is a packet of another player, with the
\* id of its ack or none; or the client's: a join from its address, or a ping or one of n inputs
\* with its id.
Arrives(a, q, n) ==
    \/ q = Refused
    \/ /\ a \in Others
       /\ q.room_id = 0 \/ (q.room_id = kRoom /\ q.player_id \in OtherIds)
       /\ q.msg_type = "C2SInput" => decode_input(q.payload).input_seq \in Rooms!Seqs
       /\ q.msg_type = "C2SChat" =>
             decode_chat(q.payload) = Refused \/ Len(decode_chat(q.payload).text) \in Nat
    \/ a = Me /\ q.msg_type = "C2SJoin"
    \/ /\ a \in MyAddrs /\ (moves = 0 => a = Me)
       /\ client.player_id # 0 /\ q.room_id = kRoom /\ q.player_id = client.player_id
       /\ \/ q.msg_type = "C2SPing"
          \/ q.msg_type = "C2SInput" /\ decode_input(q.payload).input_seq \in 1..n

\* The id in the header is 0, another player's, or the client's own.
LEMMA HeaderNames ==
  ASSUME NEW n, HeardBy(n), NEW a, NEW q, q # Refused, q.msg_type # "C2SJoin",
         Arrives(a, q, n)
  PROVE  MayName(a, HeaderId(q)) /\ HeaderId(q) \in Rooms!Headers
<1>1. OtherIds \subseteq acked
  BY DEF OtherIds, HeardBy
<1>2. client.player_id # 0 => client.player_id \in acked
  BY DEF HeardBy, Known, MyId
<1>3. CASE a \in Others /\ (q.room_id = 0 \/ (q.room_id = kRoom /\ q.player_id \in OtherIds))
  <2>1. HeaderId(q) \in OtherIds \cup {0}
    BY <1>3 DEF HeaderId, kRoom
  <2> QED
    BY <1>1, <1>3, <2>1 DEF MayName, Rooms!Headers
<1>4. CASE /\ a \in MyAddrs /\ (moves = 0 => a = Me)
           /\ client.player_id # 0 /\ q.room_id = kRoom /\ q.player_id = client.player_id
  BY <1>2, <1>4 DEF HeaderId, MayName, Rooms!Headers
<1> QED
  BY <1>3, <1>4 DEF Arrives

LEMMA PacketHandled ==
  ASSUME NEW a, NEW q, NEW rest, HandlePacket(a, q, rest), NEW hid, hid = HeaderId(q)
  PROVE  \/ /\ q.msg_type = "C2SJoin"
            /\ Rooms!Join(a) /\ net' = Sent(send_join_ack(a), rest)
         \/ /\ q.msg_type = "C2SInput" /\ net' = rest
            /\ Rooms!Input(a, hid, decode_input(q.payload).input_seq)
         \/ /\ q.msg_type \in {"C2SFire", "C2SRespawn"} /\ net' = Sent(Broadcast, rest)
            /\ \/ Rooms!OtherPacket(a, hid) \/ Rooms!Respawn(a, hid)
               \/ \E t \in Rooms!Ids : Rooms!Fire(a, hid, t)
         \/ /\ q.msg_type = "C2SChat" /\ decode_chat(q.payload) # Refused
            /\ Rooms!OtherPacket(a, hid)
            /\ net' = Sent(send_chat(Rooms!Resolved(a, hid), decode_chat(q.payload).text), rest)
         \/ /\ q.msg_type = "C2SPing" /\ net' = Sent(send_pong(a, q), rest)
            /\ Rooms!OtherPacket(a, hid) \/ UNCHANGED rooms
         \/ /\ q.msg_type \in {"C2SInput", "C2SFire", "C2SChat", "C2SWeapon", "C2SProfile"}
            /\ Rooms!OtherPacket(a, hid) /\ net' = rest
         \/ UNCHANGED rooms /\ net' = rest
<1> DEFINE in == CASE q.msg_type = "C2SJoin"    -> decode_join(q.payload)
                   [] q.msg_type = "C2SInput"   -> decode_input(q.payload)
                   [] q.msg_type = "C2SFire"    -> decode_fire(q.payload)
                   [] q.msg_type = "C2SChat"    -> decode_chat(q.payload)
                   [] q.msg_type = "C2SWeapon"  -> decode_weapon(q.payload)
                   [] q.msg_type = "C2SProfile" -> decode_profile(q.payload)
                   [] OTHER                     -> Refused
<1>1. /\ q.msg_type = "C2SInput" => in = decode_input(q.payload)
      /\ q.msg_type = "C2SChat" => in = decode_chat(q.payload)
  OBVIOUS
<1>2. \/ /\ q.msg_type = "C2SJoin"
         /\ Rooms!Join(a) /\ net' = Sent(send_join_ack(a), rest)
      \/ /\ q.msg_type = "C2SInput" /\ net' = rest
         /\ Rooms!Input(a, hid, in.input_seq)
      \/ /\ q.msg_type = "C2SFire" /\ net' = Sent(Broadcast, rest)
         /\ Rooms!OtherPacket(a, hid) \/ \E t \in Rooms!Ids : Rooms!Fire(a, hid, t)
      \/ /\ q.msg_type = "C2SChat" /\ in # Refused
         /\ Rooms!OtherPacket(a, hid)
         /\ net' = Sent(send_chat(Rooms!Resolved(a, hid), in.text), rest)
      \/ /\ q.msg_type = "C2SRespawn" /\ net' = Sent(Broadcast, rest)
         /\ Rooms!Respawn(a, hid)
      \/ /\ q.msg_type = "C2SPing" /\ net' = Sent(send_pong(a, q), rest)
         /\ Rooms!OtherPacket(a, hid) \/ UNCHANGED rooms
      \/ /\ \/ q.msg_type = "C2SWeapon" \/ q.msg_type = "C2SProfile"
            \/ q.msg_type \in {"C2SInput", "C2SFire", "C2SChat"}
         /\ Rooms!OtherPacket(a, hid) /\ net' = rest
      \/ UNCHANGED rooms /\ net' = rest
  BY Zenon DEF HandlePacket
<1> HIDE DEF in
<1> QED
  BY <1>1, <1>2

\* The rooms take a step of theirs, the client keeps its id, and the replies are good.
LEMMA HandledWell ==
  ASSUME Proved!IInv, NEW n \in Nat, n <= MaxSeq, HeardBy(n), NEW a \in Addrs, NEW q,
         UNCHANGED <<client, nat>>, Arrives(a, q, n), NEW rest, HandlePacket(a, q, rest)
  PROVE  /\ Rooms!Next \/ UNCHANGED rooms
         /\ SameId /\ HeardBy(n)'
         /\ \E ds : Replies(ds, n) /\ net' = Sent(ds, rest)
<1> DEFINE kept == SameId /\ HeardBy(n)'
<1>1. PICK hid : hid = HeaderId(q)
  OBVIOUS
<1>2. q # Refused /\ q.msg_type # "C2SJoin" => MayName(a, hid) /\ hid \in Rooms!Headers
  BY <1>1, HeaderNames
<1>3. Refused.msg_type = "refused"
  BY DEF Refused
<1>4. ASSUME q # Refused, q.msg_type # "C2SJoin", Rooms!OtherPacket(a, hid)
      PROVE  Rooms!Next /\ kept /\ sent' = {}
  <2>1. Rooms!Next
    BY <1>2, <1>4 DEF Rooms!Next
  <2>2. kept /\ sent' = {}
    BY <1>2, <1>4, OtherPacketHeard
  <2> QED
    BY <2>1, <2>2
<1>5. UNCHANGED rooms => kept
  BY NobodyMoves
<1>6. Replies({}, n) /\ rest = Sent({}, rest)
  BY NoReplies, NothingSent DEF Replies
<1>7. CASE /\ q.msg_type = "C2SJoin"
           /\ Rooms!Join(a) /\ net' = Sent(send_join_ack(a), rest)
  <2>1. Rooms!Next
    BY <1>7 DEF Rooms!Next
  <2>2. a \in Others \/ a = Me
    BY <1>3, <1>7 DEF Arrives
  <2>3. kept
    BY <1>7, <2>2, JoinHeard
  <2>4. Replies(send_join_ack(a), n)
    BY <2>2, OwnAddrs, AckReplies
  <2> HIDE DEF kept
  <2> QED
    BY <1>7, <2>1, <2>3, <2>4 DEF kept
<1>8. CASE /\ q.msg_type = "C2SInput" /\ net' = rest
           /\ Rooms!Input(a, hid, decode_input(q.payload).input_seq)
  <2>1. PICK seq : seq = decode_input(q.payload).input_seq
    OBVIOUS
  <2>2. q # Refused
    BY <1>3, <1>8
  <2>3. seq \in Rooms!Seqs /\ (a \in MyAddrs => seq \in 1..n)
    <3>1. 1..n \subseteq Rooms!Seqs
      BY RoomsAssumption DEF Rooms!Seqs, Rooms!GameAssumption
    <3> QED
      BY <1>8, <2>1, <2>2, <3>1, OwnAddrs DEF Arrives
  <2>5. Rooms!Next
    BY <1>2, <1>8, <2>1, <2>2, <2>3 DEF Rooms!Next
  <2>6. kept
    BY <1>2, <1>8, <2>1, <2>2, <2>3, InputHeard
  <2> HIDE DEF kept
  <2> QED
    BY <1>6, <1>8, <2>5, <2>6 DEF kept
<1>9. CASE /\ q.msg_type \in {"C2SFire", "C2SRespawn"} /\ net' = Sent(Broadcast, rest)
           /\ \/ Rooms!OtherPacket(a, hid) \/ Rooms!Respawn(a, hid)
              \/ \E t \in Rooms!Ids : Rooms!Fire(a, hid, t)
  <2>1. q # Refused
    BY <1>3, <1>9
  <2>2. Rooms!Next
    BY <1>2, <1>9, <2>1 DEF Rooms!Next
  <2>3. kept /\ IsFiniteSet(sent')
    <3>1. Rooms!OtherPacket(a, hid) => kept /\ IsFiniteSet(sent')
      BY <1>4, <1>9, <2>1, FS_EmptySet
    <3>2. Rooms!Respawn(a, hid) => kept /\ IsFiniteSet(sent')
      BY <1>2, <1>9, <2>1, RespawnHeard
    <3>3. ASSUME NEW t \in Rooms!Ids, Rooms!Fire(a, hid, t) PROVE kept /\ IsFiniteSet(sent')
      BY <1>2, <1>9, <2>1, <3>3, FireHeard
    <3> HIDE DEF kept
    <3> QED
      BY <1>9, <3>1, <3>2, <3>3
  <2>5. Proved!IInv'
    BY <2>2, RoomsKeep
  <2>6. Replies(Broadcast, n)
    BY <2>3, <2>5, BroadcastReplies
  <2> HIDE DEF kept
  <2> QED
    BY <1>9, <2>2, <2>3, <2>6 DEF kept
<1>10. CASE /\ q.msg_type = "C2SChat" /\ decode_chat(q.payload) # Refused
            /\ Rooms!OtherPacket(a, hid)
            /\ net' = Sent(send_chat(Rooms!Resolved(a, hid), decode_chat(q.payload).text), rest)
  <2>1. q # Refused
    BY <1>3, <1>10
  <2>2. PICK text : text = decode_chat(q.payload).text
    OBVIOUS
  <2>3. Len(text) \in Nat
    BY <1>10, <2>1, <2>2 DEF Arrives
  <2>4. Rooms!Next /\ kept
    BY <1>4, <1>10, <2>1
  <2>5. Proved!IInv'
    BY <2>4, RoomsKeep
  <2>6. PICK p : p = Rooms!Resolved(a, hid)
    OBVIOUS
  <2>7. PICK in : in = [sender_id |-> p, text |-> text]
    OBVIOUS
  <2>8. PICK y : y = encode_chat(in)
    OBVIOUS
  <2>9. IsWords(y)
    BY <2>3, <2>7, <2>8, ChatWords
  <2>10. Replies(ToClient("S2CChat", 0, y), n)
    BY <2>4, <2>5, <2>9, OtherReply
  <2>11. send_chat(p, text) = ToClient("S2CChat", 0, y)
    BY <2>7, <2>8, Zenon DEF send_chat
  <2> HIDE DEF kept
  <2> QED
    BY <1>10, <2>2, <2>4, <2>6, <2>10, <2>11 DEF kept
<1>11. CASE /\ q.msg_type = "C2SPing" /\ net' = Sent(send_pong(a, q), rest)
            /\ Rooms!OtherPacket(a, hid) \/ UNCHANGED rooms
  <2>1. q # Refused
    BY <1>3, <1>11
  <2>2. (Rooms!Next \/ UNCHANGED rooms) /\ kept
    BY <1>4, <1>5, <1>11, <2>1
  <2>3. a \in MyAddrs => Known
    BY <1>11, <2>1, OwnAddrs DEF Arrives, Known
  <2>4. Replies(send_pong(a, q), n)
    BY <2>2, <2>3, PongReplies DEF SameId
  <2> HIDE DEF kept
  <2> QED
    BY <1>11, <2>2, <2>4 DEF kept
<1>12. CASE /\ q.msg_type \in {"C2SInput", "C2SFire", "C2SChat", "C2SWeapon", "C2SProfile"}
            /\ Rooms!OtherPacket(a, hid) /\ net' = rest
  <2>1. q # Refused
    BY <1>3, <1>12
  <2>2. Rooms!Next /\ kept
    BY <1>4, <1>12, <2>1
  <2> HIDE DEF kept
  <2> QED
    BY <1>6, <1>12, <2>2 DEF kept
<1>13. CASE UNCHANGED rooms /\ net' = rest
  <2>1. kept
    BY <1>5, <1>13
  <2> HIDE DEF kept
  <2> QED
    BY <1>6, <1>13, <2>1 DEF kept
<1>14. \/ /\ q.msg_type = "C2SJoin"
          /\ Rooms!Join(a) /\ net' = Sent(send_join_ack(a), rest)
       \/ /\ q.msg_type = "C2SInput" /\ net' = rest
          /\ Rooms!Input(a, hid, decode_input(q.payload).input_seq)
       \/ /\ q.msg_type \in {"C2SFire", "C2SRespawn"} /\ net' = Sent(Broadcast, rest)
          /\ \/ Rooms!OtherPacket(a, hid) \/ Rooms!Respawn(a, hid)
             \/ \E t \in Rooms!Ids : Rooms!Fire(a, hid, t)
       \/ /\ q.msg_type = "C2SChat" /\ decode_chat(q.payload) # Refused
          /\ Rooms!OtherPacket(a, hid)
          /\ net' = Sent(send_chat(Rooms!Resolved(a, hid), decode_chat(q.payload).text), rest)
       \/ /\ q.msg_type = "C2SPing" /\ net' = Sent(send_pong(a, q), rest)
          /\ Rooms!OtherPacket(a, hid) \/ UNCHANGED rooms
       \/ /\ q.msg_type \in {"C2SInput", "C2SFire", "C2SChat", "C2SWeapon", "C2SProfile"}
          /\ Rooms!OtherPacket(a, hid) /\ net' = rest
       \/ UNCHANGED rooms /\ net' = rest
  BY <1>1, PacketHandled, Zenon
<1> HIDE DEF kept
<1> QED
  BY <1>7, <1>8, <1>9, <1>10, <1>11, <1>12, <1>13, <1>14, Zenon

\* The twelve words of an input are 32 bytes.
LEMMA InputSize ==
  ASSUME NEW in, NEW w, w = encode_input(in)
  PROVE  Size(w) = 32
<1>1. /\ IsWords(w) /\ Len(w) = 12
      /\ \A i \in 1..7 : w[i] = Append_(InputFields, in)[i]
      /\ w[8][1] = 4 /\ w[9][1] = 4 /\ w[10][1] = 4 /\ w[11][1] = 1
      /\ w[12][1] = 3
  BY InputWords
<1>2. \A i \in 1..7 : w[i][1] = InputFields[i][2]
  <2>1. \A i \in 1..7 : Append_(InputFields, in)[i] =
           <<InputFields[i][2], IF InputFields[i][1] = Pad THEN 0 ELSE in[InputFields[i][1]]>>
    BY InputLayout, AppendWords DEF Fields
  <2> QED
    BY <1>1, <2>1
<1>3. /\ w[1][1] = 4 /\ w[2][1] = 4 /\ w[3][1] = 1 /\ w[4][1] = 1 /\ w[5][1] = 2 /\ w[6][1] = 2
      /\ w[7][1] = 2
  BY <1>2, InputLayout
<1>4. PICK ends : ends = Ends(w)
  OBVIOUS
<1>5. ends[0] = 0 /\ \A i \in 1..12 : ends[i] = ends[i - 1] + w[i][1]
  <2>1. /\ Ends(w)[0] = 0
        /\ \A i \in 1..Len(w) : Ends(w)[i] = Ends(w)[i - 1] + w[i][1]
    <3>1. Len(w) \in Nat
      BY <1>1
    <3> QED
      BY <3>1, EndsSteps, Zenon
  <2> QED
    BY <1>1, <1>4, <2>1
<1>6. /\ ends[1] = ends[0] + 4 /\ ends[2] = ends[1] + 4 /\ ends[3] = ends[2] + 1
      /\ ends[4] = ends[3] + 1 /\ ends[5] = ends[4] + 2 /\ ends[6] = ends[5] + 2
  BY <1>3, <1>5
<1>7. /\ ends[7] = ends[6] + 2 /\ ends[8] = ends[7] + 4 /\ ends[9] = ends[8] + 4
      /\ ends[10] = ends[9] + 4 /\ ends[11] = ends[10] + 1 /\ ends[12] = ends[11] + 3
  BY <1>1, <1>3, <1>5
<1>8. ends[0] = 0
  BY <1>5
<1>9. ends[12] = 32
  BY <1>6, <1>7, <1>8
<1> QED
  BY <1>1, <1>4, <1>9 DEF Size

\* A chat of two characters and more that UDP carries.
LEMMA ChatSize ==
  ASSUME NEW in, Len(in.text) = 1, NEW y, y = encode_chat(in)
  PROVE  IsWords(y) /\ Size(y) < LenSpace
<1>1. PICK m : m = SmallerOf(Len(in.text), kMaxChat)
  OBVIOUS
<1>2. /\ m \in Nat /\ IsWords(y) /\ Len(y) = 3
      /\ y[1] = <<4, in.sender_id>> /\ y[2] = <<2, m>>
      /\ y[3] = <<m, SubSeq(in.text, 1, m)>>
  <2>1. Len(in.text) \in Nat
    OBVIOUS
  <2> QED
    BY <1>1, <2>1, ChatWords, ZenonT(60)
<1>3. m <= 1
  BY <1>1, CodecAssumption DEF SmallerOf, CodecAssumption
<1>4. PICK ends : ends = Ends(y)
  OBVIOUS
<1>5. ends[0] = 0 /\ \A i \in 1..3 : ends[i] = ends[i - 1] + y[i][1]
  <2>1. /\ Ends(y)[0] = 0
        /\ \A i \in 1..Len(y) : Ends(y)[i] = Ends(y)[i - 1] + y[i][1]
    <3>1. Len(y) \in Nat
      BY <1>2
    <3> QED
      BY <3>1, EndsSteps, Zenon
  <2> QED
    BY <1>2, <1>4, <2>1
<1>6. y[1][1] = 4 /\ y[2][1] = 2 /\ y[3][1] = m
  BY <1>2
<1>7. ends[1] = ends[0] + y[1][1] /\ ends[2] = ends[1] + y[2][1] /\ ends[3] = ends[2] + y[3][1]
  BY <1>5
<1>8. ends[3] = 6 + m
  BY <1>2, <1>5, <1>6, <1>7
<1>9. Size(y) = 6 + m
  BY <1>2, <1>4, <1>8 DEF Size
<1> QED
  BY <1>2, <1>3, <1>9, ClientAssumption, CodecAssumption, RecordIs34, SMTT(30)
     DEF ClientAssumption, CodecAssumption, kHeaderSize

\* The text of a chat that is not cut is no longer than the server keeps.
LEMMA ChatRead ==
  ASSUME NEW in, in.text = <<"hi">>, NEW y, y = encode_chat(in)
  PROVE  Len(decode_chat(y).text) \in Nat
<1>1. Len(in.text) = 1
  OBVIOUS
<1>2. PICK m : m = SmallerOf(Len(in.text), kMaxChat)
  OBVIOUS
<1>3. m \in Nat /\ m <= 1
  BY <1>1, <1>2, CodecAssumption DEF SmallerOf, CodecAssumption
<1>4. PICK t : t = SubSeq(in.text, 1, m)
  OBVIOUS
<1>5. decode_chat(y) = [sender_id |-> in.sender_id, text |-> t]
  BY <1>1, <1>2, <1>4, ChatKept
<1>6. Len(t) \in Nat
  <2>1. PICK x : x = in.text
    OBVIOUS
  <2>2. x \in Seq({"hi"}) /\ Len(x) = 1
    BY <2>1
  <2>3. m <= Len(x) /\ 1 \in Int /\ m \in Int
    BY <1>3, <2>2
  <2>4. SubSeq(x, 1, m) \in Seq({"hi"})
    BY <1>3, <2>2, SubSeqProperties
  <2> QED
    BY <1>4, <2>1, <2>4, LenProperties
<1> QED
  BY <1>5, <1>6

\* A packet of another player, decoded: refused, or with its own id or none.
LEMMA OthersArrive ==
  ASSUME NEW a \in Others, NEW id \in OtherIds \cup {0}, id \in 0..(IdSpace - 1),
         NEW q \in OtherPackets[id], NEW n
  PROVE  Arrives(a, q, n)
<1> DEFINE chat == [sender_id |-> id, text |-> <<"hi">>]
           room == IF id = 0 THEN 0 ELSE kRoom
           built(p) ==
             /\ AnyPacket(p) /\ p.room_id = room /\ p.player_id = id /\ IsWords(p.payload)
             /\ p.msg_type = "C2SChat" => p.payload = encode_chat(chat)
             /\ p.msg_type = "C2SInput" =>
                   \E i \in 0..(MaxSeq - 1) : p.payload = encode_input(InputOf(i))
<1>1. ASSUME NEW t, t # "C2SInput", t # "C2SChat", NEW y, IsWords(y), NEW p,
             p = build_packet(t, room, id, 1, 0, y)
      PROVE  built(p)
  <2>1. PICK k : k = room
    OBVIOUS
  <2> HIDE DEF room, chat
  <2> QED
    BY <1>1, <2>1, Built
<1>2. IsWords(<< >>)
  BY EmptySeq DEF IsWords
<1>3. ASSUME NEW p, NEW y, y = encode_chat(chat), p = build_packet("C2SChat", room, id, 1, 0, y)
      PROVE  built(p)
  <2>1. PICK in : in = chat
    OBVIOUS
  <2>2. Len(in.text) = 1 /\ y = encode_chat(in)
    BY <1>3, <2>1
  <2>3. IsWords(y)
    BY <2>2, ChatSize
  <2>4. PICK k : k = room
    OBVIOUS
  <2> HIDE DEF room, chat
  <2> QED
    BY <1>3, <2>3, <2>4, Built
<1>4. ASSUME NEW p, NEW i \in 0..(MaxSeq - 1), NEW y, y = encode_input(InputOf(i)),
             p = build_packet("C2SInput", room, id, 1, 0, y)
      PROVE  built(p)
  <2>1. IsWords(y)
    BY <1>4, AreWords
  <2>2. PICK k : k = room
    OBVIOUS
  <2> HIDE DEF room, chat
  <2> QED
    BY <1>4, <2>1, <2>2, Built
<1>5. ASSUME NEW p, p = [build_packet("C2SJoin", room, id, 1, 0, << >>) EXCEPT !.version = 2]
      PROVE  built(p)
  <2> HIDE DEF room, chat
  <2> QED
    BY <1>2, <1>5 DEF build_packet, AnyPacket
<1>6. PICK fire : fire = Tagged({"client_tick", "weapon_id", "origin_x", "origin_y", "origin_z",
                                 "dir_x", "dir_y", "dir_z"})
  OBVIOUS
<1>7. /\ IsWords(encode_join([desired_room_id |-> 0])) /\ IsWords(encode_fire(fire))
      /\ IsWords(encode_weapon([weapon_id |-> 1]))
  BY AreWords
<1>8. IsWords(encode_profile([name |-> <<"me">>]))
  <2>1. PICK in : in = [name |-> <<"me">>]
    OBVIOUS
  <2>2. in.name = <<"me">>
    BY <2>1
  <2>3. PICK x : x = in.name
    OBVIOUS
  <2>4. Len(x) \in Nat
    BY <2>2, <2>3
  <2>5. kMaxName \in Nat
    BY CodecAssumption DEF CodecAssumption
  <2>6. PICK w : w = Text(x, kMaxName)
    OBVIOUS
  <2>7. IsText(w, x, SmallerOf(Len(x), kMaxName))
    BY <2>4, <2>5, <2>6, TextWords
  <2>8. IsWords(w)
    BY <2>7 DEF IsText
  <2> QED
    BY <2>1, <2>3, <2>6, <2>8, Zenon DEF encode_profile
<1>9. IsWords(encode_ping(Stamp))
  BY PongWords
<1> HIDE DEF built, chat, room
<1>10. PICK p : built(p) /\ q = decode(encode(p))
  <2>1. \/ q = decode(encode(build_packet("C2SJoin", room, id, 1, 0,
                                          encode_join([desired_room_id |-> 0]))))
        \/ q = decode(encode(build_packet("C2SFire", room, id, 1, 0, encode_fire(fire))))
        \/ q = decode(encode(build_packet("C2SChat", room, id, 1, 0, encode_chat(chat))))
        \/ q = decode(encode(build_packet("C2SWeapon", room, id, 1, 0,
                                          encode_weapon([weapon_id |-> 1]))))
        \/ q = decode(encode(build_packet("C2SProfile", room, id, 1, 0,
                                          encode_profile([name |-> <<"me">>]))))
        \/ q = decode(encode(build_packet("C2SRespawn", room, id, 1, 0, << >>)))
        \/ q = decode(encode(build_packet("C2SPing", room, id, 1, 0, encode_ping(Stamp))))
        \/ q = decode(encode(build_packet("C2SFire", room, id, 1, 0, << >>)))
        \/ q = decode(encode(build_packet("C2SJoin", room, id, 1, 0, << >>)))
        \/ q = decode(encode([build_packet("C2SJoin", room, id, 1, 0, << >>) EXCEPT !.version = 2]))
        \/ \E i \in 0..(MaxSeq - 1) :
              q = decode(encode(build_packet("C2SInput", room, id, 1, 0, encode_input(InputOf(i)))))
    <3> DEFINE ten ==
          { build_packet("C2SJoin", room, id, 1, 0, encode_join([desired_room_id |-> 0])),
            build_packet("C2SFire", room, id, 1, 0, encode_fire(fire)),
            build_packet("C2SChat", room, id, 1, 0, encode_chat(chat)),
            build_packet("C2SWeapon", room, id, 1, 0, encode_weapon([weapon_id |-> 1])),
            build_packet("C2SProfile", room, id, 1, 0, encode_profile([name |-> <<"me">>])),
            build_packet("C2SRespawn", room, id, 1, 0, << >>),
            build_packet("C2SPing", room, id, 1, 0, encode_ping(Stamp)),
            build_packet("C2SFire", room, id, 1, 0, << >>),
            build_packet("C2SJoin", room, id, 1, 0, << >>),
            [build_packet("C2SJoin", room, id, 1, 0, << >>) EXCEPT !.version = 2] }
          inputs == {build_packet("C2SInput", room, id, 1, 0, encode_input(InputOf(i))) :
                        i \in 0..(MaxSeq - 1)}
    <3>1. OtherPackets[id] = {decode(encode(packet)) : packet \in ten \cup inputs}
      BY <1>6, Zenon DEF OtherPackets, chat, room
    <3>2. PICK packet \in ten \cup inputs : q = decode(encode(packet))
      BY <3>1
    <3> QED
      BY <3>2, Zenon
  <2> QED
    BY <1>1, <1>2, <1>3, <1>4, <1>5, <1>7, <1>8, <1>9, <2>1
<1>11. CASE q = Refused
  BY <1>11 DEF Arrives
<1>12. CASE q # Refused
  <2>1. AnyPacket(p) /\ IsWords(p.payload) /\ p.room_id = room /\ p.player_id = id
    BY <1>10 DEF built
  <2>2. PICK e : e = encode(p)
    OBVIOUS
  <2>3. e \in Seq(ToSet(e))
    BY <2>1, <2>2, EncodeParts DEF IsWords
  <2>4. Len(e) \in Nat /\ SubSeq(e, 1, Len(e)) = e
    BY <2>3, SubSeqProperties, SeqEqual, LenProperties
  <2>5. PICK k : k = Len(e)
    OBVIOUS
  <2>6. k \in 0..Len(encode(p)) /\ q = decode(SubSeq(encode(p), 1, k))
    <3>1. SubSeq(e, 1, k) = e
      BY <2>4, <2>5
    <3>2. q = decode(SubSeq(encode(p), 1, k))
      BY <1>10, <2>2, <3>1, Zenon
    <3>3. k \in 0..Len(encode(p))
      BY <2>2, <2>4, <2>5
    <3> QED
      BY <3>2, <3>3
  <2>7. PICK rest : rest = SubSeq(p.payload, 1, k - 10)
    OBVIOUS
  <2>8. q.msg_type = p.msg_type /\ q.room_id = room /\ q.player_id = id
    BY <1>12, <2>1, <2>6, <2>7, DecodeCut
  <2>9. ASSUME q.msg_type = "C2SChat"
        PROVE  Len(decode_chat(q.payload).text) \in Nat
    <3>1. PICK in : in = chat
      OBVIOUS
    <3>2. PICK y : y = encode_chat(in)
      OBVIOUS
    <3>3. in.text = <<"hi">> /\ Len(in.text) = 1
      BY <3>1 DEF chat
    <3>4. p.payload = y
      BY <1>10, <2>8, <2>9, <3>1, <3>2 DEF built
    <3>5. Size(y) < LenSpace
      BY <3>2, <3>3, ChatSize
    <3>6. q.payload = y
      BY <1>10, <1>12, <2>1, <3>4, <3>5, DecodeWhole
    <3> QED
      BY <3>2, <3>3, <3>6, ChatRead
  <2>10. ASSUME q.msg_type = "C2SInput"
         PROVE  decode_input(q.payload).input_seq \in Rooms!Seqs
    <3>1. PICK i \in 0..(MaxSeq - 1) : p.payload = encode_input(InputOf(i))
      BY <1>10, <2>8, <2>10 DEF built
    <3>2. PICK in : in = InputOf(i)
      OBVIOUS
    <3>3. PICK y : y = encode_input(in)
      OBVIOUS
    <3>4. p.payload = y
      BY <3>1, <3>2, <3>3
    <3>5. Size(y) < LenSpace
      <4>1. Size(y) = 32
        BY <3>3, InputSize
      <4> QED
        BY <4>1, ClientAssumption, CodecAssumption, RecordIs34
           DEF ClientAssumption, CodecAssumption, kHeaderSize
    <3>6. q.payload = y
      BY <1>10, <1>12, <2>1, <3>4, <3>5, DecodeWhole
    <3>7. decode_input(y).input_seq = in.input_seq
      BY <3>3, InputKept DEF InputNames
    <3>8. in.input_seq = i + 1
      BY <3>2 DEF InputOf
    <3>9. i + 1 \in 1..MaxSeq
      BY RoomsAssumption DEF Rooms!GameAssumption
    <3> QED
      BY <3>6, <3>7, <3>8, <3>9 DEF Rooms!Seqs
  <2>11. q.room_id = 0 \/ (q.room_id = kRoom /\ q.player_id \in OtherIds)
    BY <2>8 DEF room
  <2> QED
    BY <2>9, <2>10, <2>11 DEF Arrives
<1> QED
  BY <1>11, <1>12

-----------------------------------------------------------------------------
(* The invariant of the whole *)

\* Every datagram under way is a packet that the code has built: of the client, from one of its
\* addresses and with its id; or to the client, whose id is settled then.
NetOK ==
    \A d \in net :
       /\ IsPacket(d.packet)
       /\ d.to = "server" =>
             FromOwn(d) /\ FromClient(d.packet, client.player_id, client.inputs)
       /\ d.to = "client" => Known /\ ForClient(d.packet, MyId, client.inputs)

IsClient(c) ==
    /\ c = [pc |-> c.pc, wait |-> c.wait, room_id |-> c.room_id, player_id |-> c.player_id,
            inputs |-> c.inputs, snapshots |-> c.snapshots, code |-> c.code]
    /\ c.inputs \in Nat

\* How far the client is tells whether it has its id, and whether the NAT may have moved it.
ClientOK ==
    /\ IsClient(client)
    /\ client.pc \in {"start", "joining"} => client.player_id = 0 /\ client.inputs = 0
    /\ client.pc \notin {"start", "joining", "done"} => client.player_id # 0
    /\ client.pc = "sending" => client.inputs < MaxInputs
    /\ client.player_id # 0 => client.room_id = kRoom
    /\ client.snapshots => client.player_id # 0 /\ Shows(shown, MyId, client.inputs)
    /\ moves = 0 \/ client.pc = "start" => addr = Me

\* An address is bound only in a room that exists.
RoomOpen == DOMAIN peer_index_ = {} \/ room_open

IInv ==
    /\ Proved!IInv /\ RoomOpen
    /\ TypeOK /\ IsFiniteSet(net)
    /\ NetOK /\ ClientOK /\ HeardBy(client.inputs)

LEMMA ClientBounds ==
  /\ MaxInputs \in Nat /\ MaxInputs > 0 /\ MaxSeq \in Nat /\ MaxInputs <= MaxSeq
  /\ TickUnits \in Nat /\ MaxNet \in Nat /\ MaxExtra \in Nat /\ MaxMoves \in Nat
<1>1. MaxSeq \in Nat /\ TickMs \in Nat
  BY RoomsAssumption DEF Rooms!GameAssumption, Rooms!kSecMs
<1>2. /\ UnitMs \in Nat /\ UnitMs > 0 /\ MaxNet \in Nat /\ MaxExtra \in Nat /\ MaxMoves \in Nat
      /\ MaxInputs \in 1..MaxSeq
  BY ClientAssumption DEF ClientAssumption
<1> QED
  BY <1>1, <1>2 DEF TickUnits

LEMMA RoomStaysOpen ==
  ASSUME Proved!IInv, Proved!IInv', RoomOpen, Rooms!Next \/ UNCHANGED rooms
  PROVE  RoomOpen'
<1>1. room_open \in BOOLEAN /\ room_open' \in BOOLEAN
  BY DEF Proved!IInv, Proved!TypeOK
<1>2. ASSUME NEW a, Rooms!Join(a) PROVE RoomOpen'
  <2>1. /\ room_open' = (room_open \/ a \notin DOMAIN peer_index_)
        /\ a \in DOMAIN peer_index_ => peer_index_' = peer_index_
    BY <1>2 DEF Rooms!Join
  <2> QED
    BY <1>1, <2>1 DEF RoomOpen
<1>3. ASSUME NEW a, Rooms!Leave(a) PROVE RoomOpen'
  BY <1>3 DEF Rooms!Leave, RoomOpen
<1>4. ASSUME NEW a, NEW hid, NEW p, Rooms!Received(a, hid, p) PROVE RoomOpen'
  <2>1. room_open' = room_open /\ peer_index_' = Rooms!RefreshedIndex(a, p)
    BY <1>4 DEF Rooms!Received
  <2>2. a \in DOMAIN peer_index_ \/ room_open
    BY <1>4 DEF Rooms!Received, Rooms!Resolved
  <2> QED
    BY <2>1, <2>2 DEF Rooms!RefreshedIndex, RoomOpen
<1>5. Rooms!TickAll => RoomOpen'
  BY DEF Rooms!TickAll, RoomOpen
<1>6. UNCHANGED rooms => RoomOpen'
  BY DEF rooms, RoomOpen
<1> QED
  BY <1>2, <1>3, <1>4, <1>5, <1>6, Zenon
     DEF Rooms!Next, Rooms!OtherPacket, Rooms!Respawn, Rooms!Input, Rooms!Fire

LEMMA InitIInv == Init => IInv
<1> SUFFICES ASSUME Init PROVE IInv
  OBVIOUS
<1>1. Proved!IInv
  <2>1. Proved!Init
    BY DEF Init, Rooms!Init, Proved!Init, Rooms!Ids, Proved!Ids
  <2> QED
    BY <2>1, ProvedAssumption, Proved!InitIInv
<1>2. TypeOK
  BY FS_EmptySet, ClientBounds, OwnAddrs DEF Init, TypeOK, Waits
<1>3. /\ ~Known /\ RoomOpen /\ IsFiniteSet(net) /\ NetOK /\ ClientOK
      /\ HeardBy(client.inputs)
  <2>1. /\ client.player_id = 0 /\ DOMAIN peer_index_ = {} /\ DOMAIN players_ = {}
        /\ addr = Me /\ net = {} /\ client.inputs = 0
    BY DEF Init, Rooms!Init
  <2>2. ClientOK
    BY DEF Init, ClientOK, IsClient
  <2> QED
    BY <2>1, <2>2, FS_EmptySet DEF Known, RoomOpen, NetOK, HeardBy
<1> QED
  BY <1>1, <1>2, <1>3, Zenon DEF IInv

\* What is under way stays right when more inputs are sent or the client is moved, and the new
\* datagrams are right.
LEMMA NetStaysOK ==
  ASSUME IInv, SameId, moves' = 0 => moves = 0,
         client.player_id # 0 => client'.player_id = client.player_id,
         client'.inputs \in Nat, client.inputs <= client'.inputs,
         \A d \in net' :
            \/ d \in net
            \/ /\ IsPacket(d.packet)
               /\ \/ /\ d.to = "client" /\ Known'
                     /\ ForClient(d.packet, MyId, client.inputs)'
                  \/ /\ d.to = "server" /\ FromOwn(d)'
                     /\ FromClient(d.packet, client'.player_id, client'.inputs)
  PROVE  NetOK'
<1>1. PICK m : m = client.inputs
  OBVIOUS
<1>2. PICK n : n = client'.inputs
  OBVIOUS
<1>3. PICK id : id = client.player_id
  OBVIOUS
<1>4. m \in Nat /\ n \in Nat /\ m <= n /\ NetOK
  BY <1>1, <1>2 DEF IInv, ClientOK, IsClient
<1>5. ASSUME NEW d \in net'
      PROVE  /\ IsPacket(d.packet)
             /\ d.to = "server" => FromOwn(d)' /\ FromClient(d.packet, client'.player_id, n)
             /\ d.to = "client" => Known' /\ ForClient(d.packet, MyId, client.inputs)'
  <2>1. CASE d \in net
    <3>1. /\ IsPacket(d.packet)
          /\ d.to = "server" => FromOwn(d) /\ FromClient(d.packet, id, m)
          /\ d.to = "client" => Known /\ ForClient(d.packet, MyId, m)
      BY <1>1, <1>3, <1>4, <2>1 DEF NetOK
    <3>2. ASSUME FromOwn(d), FromClient(d.packet, id, m)
          PROVE  FromOwn(d)' /\ FromClient(d.packet, client'.player_id, n)
      <4>1. FromClient(d.packet, id, n)
        BY <1>4, <3>2, MoreInputsFromClient
      <4>2. FromOwn(d)'
        BY <3>2 DEF FromOwn
      <4> QED
        BY <1>3, <4>1, <4>2 DEF FromClient
    <3>3. ASSUME Known, ForClient(d.packet, MyId, m)
          PROVE  Known' /\ ForClient(d.packet, MyId, client.inputs)'
      <4>1. Known' /\ MyId' = MyId
        BY <3>3 DEF SameId
      <4>2. 0..m \subseteq 0..n
        BY <1>4
      <4>3. client'.player_id = 0 => client.player_id = 0
        OBVIOUS
      <4> QED
        BY <1>2, <3>3, <4>1, <4>2, <4>3 DEF ForClient, Shows
    <3> QED
      BY <3>1, <3>2, <3>3
  <2>2. CASE d \notin net
    BY <1>2, <2>2
  <2> QED
    BY <2>1, <2>2
<1> QED
  BY <1>2, <1>5 DEF NetOK

LEMMA ClientStaysOK ==
  ASSUME IInv, SameId, UNCHANGED <<client, nat, shown>>
  PROVE  ClientOK'
<1>1. client' = client /\ shown' = shown /\ addr' = addr /\ moves' = moves /\ ClientOK
  BY DEF IInv, nat
<1>2. client.player_id # 0 => MyId' = MyId
  BY DEF SameId, Known
<1> QED
  BY <1>1, <1>2 DEF ClientOK, Shows

-----------------------------------------------------------------------------
(* The server's steps *)

\* A step of the server: one of the rooms, or none, and replies to the client.
LEMMA ServerKeeps ==
  ASSUME IInv, Rooms!Next \/ UNCHANGED rooms, SameId,
         NEW n, n = client.inputs, HeardBy(n)',
         NEW u, u \subseteq net, NEW ds, Replies(ds, n), net' = Sent(ds, u),
         UNCHANGED <<client, nat, shown>>,
         server' \in {"down", "up", "stopped"}, due' \in 0..TickUnits, extra' \in 0..MaxExtra
  PROVE  IInv'
<1>1. Proved!IInv' /\ RoomOpen'
  BY RoomsKeep, RoomStaysOpen DEF IInv
<1>2. /\ IsFiniteSet(u) /\ Cardinality(u) <= MaxNet
  <2>1. IsFiniteSet(net) /\ Cardinality(net) <= MaxNet
    BY DEF IInv, TypeOK
  <2>2. IsFiniteSet(u) /\ Cardinality(u) <= Cardinality(net)
    BY <2>1, FS_Subset
  <2>3. Cardinality(u) \in Nat /\ Cardinality(net) \in Nat
    BY <2>1, <2>2, FS_CardinalityType
  <2> QED
    BY <2>1, <2>2, <2>3, ClientBounds
<1>3. PICK v : v = net'
  OBVIOUS
<1>4. IsFiniteSet(ds)
  BY DEF Replies, GoodReplies
<1>5. /\ IsFiniteSet(v) /\ Cardinality(v) <= MaxNet
      /\ v \subseteq u \cup {d \in ds : Length(d.packet) <= kMaxDatagramSize}
  <2>1. v = Sent(ds, u)
    BY <1>3
  <2> QED
    BY <1>2, <1>4, <2>1, SentAdds
<1>6. client.inputs \in Nat
  BY DEF IInv, ClientOK, IsClient
<1>7. client' = client /\ addr' = addr /\ moves' = moves
  BY DEF nat
<1>8. ASSUME NEW d \in net'
      PROVE  \/ d \in net
             \/ /\ IsPacket(d.packet) /\ d.to = "client" /\ Known'
                /\ ForClient(d.packet, MyId, client.inputs)'
  <2>1. d \in net \/ (d \in ds /\ Length(d.packet) <= kMaxDatagramSize)
    BY <1>3, <1>5
  <2> QED
    BY <1>7, <2>1 DEF Replies, GoodReplies, ForClient
<1>9. NetOK'
  BY <1>6, <1>7, <1>8, NetStaysOK
<1>10. ClientOK'
  BY ClientStaysOK
<1>11. HeardBy(client.inputs)'
  BY <1>7 DEF HeardBy
<1>12. TypeOK'
  <2>1. \A d \in net' : d.to \in {"server", "client"}
    BY <1>8 DEF IInv, TypeOK
  <2> QED
    BY <1>3, <1>5, <1>7, <2>1 DEF IInv, TypeOK
<1> QED
  BY <1>1, <1>3, <1>5, <1>9, <1>10, <1>11, <1>12, Zenon DEF IInv

LEMMA StartOrStopKeeps ==
  ASSUME IInv, Start \/ Stop
  PROVE  IInv'
<1>1. PICK n : n = client.inputs
  OBVIOUS
<1>2. UNCHANGED rooms /\ net' = net /\ UNCHANGED <<client, nat, shown>> /\ extra' = extra
  BY DEF Start, Stop
<1>3. server' \in {"down", "up", "stopped"} /\ due' \in 0..TickUnits /\ extra' \in 0..MaxExtra
  BY <1>2, ClientBounds DEF Start, Stop, IInv, TypeOK
<1>4. HeardBy(n) /\ n \in Nat
  BY <1>1 DEF IInv, ClientOK, IsClient
<1>5. SameId /\ HeardBy(n)'
  BY <1>2, <1>4, NobodyMoves
<1>6. PICK u : u = net
  OBVIOUS
<1>7. PICK ds : ds = {}
  OBVIOUS
<1>8. Replies(ds, n) /\ net' = Sent(ds, u)
  BY <1>2, <1>6, <1>7, NoReplies, NothingSent DEF Replies
<1> QED
  BY <1>1, <1>2, <1>3, <1>5, <1>6, <1>8, ServerKeeps

LEMMA OnTickKeeps ==
  ASSUME IInv, OnTick
  PROVE  IInv'
<1>1. PICK n : n = client.inputs
  OBVIOUS
<1>2. HeardBy(n) /\ Proved!IInv /\ n \in Nat
  BY <1>1 DEF IInv, ClientOK, IsClient
<1>3. /\ server' = server /\ due' = TickUnits /\ extra' = extra
      /\ UNCHANGED <<client, nat, shown>> /\ Rooms!TickAll
      /\ net' = Sent(IF room_open THEN send_snapshot \cup Broadcast ELSE {}, net)
  BY DEF OnTick
<1>4. server' \in {"down", "up", "stopped"} /\ due' \in 0..TickUnits /\ extra' \in 0..MaxExtra
  BY <1>3, ClientBounds DEF IInv, TypeOK
<1>5. Rooms!Next
  BY <1>3 DEF Rooms!Next
<1>6. SameId /\ HeardBy(n)' /\ IsFiniteSet(sent')
  BY <1>2, <1>3, TickHeard
<1>7. Proved!IInv'
  BY <1>2, <1>5, RoomsKeep
<1>8. PICK ds : ds = IF room_open THEN send_snapshot \cup Broadcast ELSE {}
  OBVIOUS
<1>9. Replies(ds, n)
  <2>1. Replies(send_snapshot, n)
    BY <1>2, <1>6, <1>7, SnapshotReplies
  <2>2. Replies(Broadcast, n)
    BY <1>6, <1>7, BroadcastReplies
  <2>3. Replies(send_snapshot \cup Broadcast, n)
    BY <2>1, <2>2, BothReplies
  <2>4. Replies({}, n)
    BY NoReplies DEF Replies
  <2> QED
    BY <1>8, <2>3, <2>4
<1>10. PICK u : u = net
  OBVIOUS
<1>11. net' = Sent(ds, u)
  BY <1>3, <1>8, <1>10
<1> QED
  BY <1>1, <1>3, <1>4, <1>5, <1>6, <1>9, <1>10, <1>11, ServerKeeps

\* A datagram at the server, whoever has sent it.
LEMMA HandledKeeps ==
  ASSUME IInv, NEW n, n = client.inputs, NEW a \in Addrs, NEW q, Arrives(a, q, n),
         NEW u, u \subseteq net, HandlePacket(a, q, u),
         UNCHANGED <<server, due, client, nat, shown>>,
         extra' \in 0..MaxExtra
  PROVE  IInv'
<1>1. HeardBy(n) /\ Proved!IInv /\ n \in Nat /\ n <= MaxSeq
  BY ClientBounds DEF IInv, ClientOK, IsClient, TypeOK
<1>2. server' \in {"down", "up", "stopped"} /\ due' \in 0..TickUnits
  BY DEF IInv, TypeOK
<1>3. /\ Rooms!Next \/ UNCHANGED rooms
      /\ SameId /\ HeardBy(n)'
      /\ \E ds : Replies(ds, n) /\ net' = Sent(ds, u)
  BY <1>1, HandledWell, Zenon
<1>4. PICK ds : Replies(ds, n) /\ net' = Sent(ds, u)
  BY <1>3
<1> QED
  BY <1>2, <1>3, <1>4, ServerKeeps

\* What the server decodes of a datagram of the client.
LEMMA ClientArrives ==
  ASSUME IInv, NEW d \in net, d.to = "server", NEW q, q = decode(encode(d.packet)),
         NEW n, n = client.inputs
  PROVE  Arrives(d.from, q, n) /\ d.from \in Addrs
<1>1. PICK p : p = d.packet
  OBVIOUS
<1>2. IsPacket(p) /\ FromClient(p, client.player_id, n) /\ FromOwn(d)
  BY <1>1 DEF IInv, NetOK
<1>3. CASE q = Refused
  BY <1>2, <1>3, OwnAddrs DEF Arrives, FromOwn
<1>4. CASE q # Refused
  <2>1. AnyPacket(p) /\ IsWords(p.payload) /\ Size(p.payload) < LenSpace
    BY <1>2, PacketFits
  <2>2. /\ q.msg_type = p.msg_type /\ q.room_id = p.room_id /\ q.player_id = p.player_id
        /\ q.payload = p.payload
    BY <1>1, <1>4, <2>1, DecodeWhole
  <2>3. d.from \in MyAddrs /\ (moves = 0 \/ p.msg_type = "C2SJoin" => d.from = Me)
    BY <1>1, <1>2 DEF FromOwn
  <2> QED
    BY <1>2, <2>2, <2>3, OwnAddrs DEF FromClient, Arrives
<1> QED
  BY <1>3, <1>4

LEMMA ServerReceivesKeeps ==
  ASSUME IInv, NEW d \in net, NEW again \in {0, 1}, extra + again <= MaxExtra,
         ServerReceives(d, again)
  PROVE  IInv'
<1>1. PICK n : n = client.inputs
  OBVIOUS
<1>2. PICK q : q = decode(encode(d.packet))
  OBVIOUS
<1>3. PICK u : u = Rest(d, again)
  OBVIOUS
<1>4. /\ d.to = "server" /\ HandlePacket(d.from, q, u) /\ extra' = extra + again
      /\ UNCHANGED <<server, due, client, nat, shown>>
  BY <1>2, <1>3, Zenon DEF ServerReceives
<1>5. u \subseteq net
  BY <1>3 DEF Rest
<1>6. extra' \in 0..MaxExtra
  BY <1>4, ClientBounds DEF IInv, TypeOK
<1>7. Arrives(d.from, q, n) /\ d.from \in Addrs
  BY <1>1, <1>2, <1>4, ClientArrives
<1> QED
  BY <1>1, <1>4, <1>5, <1>6, <1>7, HandledKeeps

LEMMA OtherIdsAre ==
  ASSUME IInv
  PROVE  \A id \in OtherIds \cup {0} : id \in 0..(IdSpace - 1)
<1>1. OtherIds \subseteq Rooms!Ids
  BY RoomsFacts DEF IInv, OtherIds
<1>2. IdSpace \in Nat /\ IdSpace > 0
  BY RoomsAssumption DEF Rooms!GameAssumption
<1> QED
  BY <1>1, <1>2 DEF Rooms!Ids

LEMMA OtherPlayerKeeps ==
  ASSUME IInv, NEW a \in Others, NEW id \in OtherIds \cup {0}, NEW q \in OtherPackets[id],
         OtherPlayer(a, q)
  PROVE  IInv'
<1>1. PICK n : n = client.inputs
  OBVIOUS
<1>2. PICK u : u = net
  OBVIOUS
<1>3. /\ HandlePacket(a, q, u) /\ extra' = extra + 1 /\ extra < MaxExtra
      /\ UNCHANGED <<server, due, client, nat, shown>>
  BY <1>2 DEF OtherPlayer
<1>4. extra' \in 0..MaxExtra
  BY <1>3, ClientBounds DEF IInv, TypeOK
<1>5. a \in Addrs
  BY OwnAddrs
<1>6. Arrives(a, q, n)
  BY OtherIdsAre, OthersArrive
<1> QED
  BY <1>1, <1>2, <1>3, <1>4, <1>5, <1>6, HandledKeeps

LEMMA LoseKeeps ==
  ASSUME IInv, NEW d \in net, Lose(d)
  PROVE  IInv'
<1>1. PICK n : n = client.inputs
  OBVIOUS
<1>2. PICK u : u = net \ {d}
  OBVIOUS
<1>3. /\ UNCHANGED rooms /\ net' = u /\ UNCHANGED <<client, nat, shown>>
      /\ server' = server /\ due' = due /\ extra' = extra
  BY <1>2 DEF Lose
<1>4. server' \in {"down", "up", "stopped"} /\ due' \in 0..TickUnits /\ extra' \in 0..MaxExtra
  BY <1>3 DEF IInv, TypeOK
<1>5. HeardBy(n) /\ n \in Nat
  BY <1>1 DEF IInv, ClientOK, IsClient
<1>6. SameId /\ HeardBy(n)'
  BY <1>3, <1>5, NobodyMoves
<1>7. PICK ds : ds = {}
  OBVIOUS
<1>8. Replies(ds, n) /\ net' = Sent(ds, u) /\ u \subseteq net
  BY <1>2, <1>3, <1>7, NoReplies, NothingSent DEF Replies
<1> QED
  BY <1>1, <1>3, <1>4, <1>6, <1>8, ServerKeeps

-----------------------------------------------------------------------------
(* The client's steps *)

LEMMA GoesTo ==
  ASSUME IsClient(client), NEW pc, NEW wait, NEW c, c = Goes(pc, wait)
  PROVE  /\ IsClient(c) /\ c.pc = pc /\ c.wait = wait /\ c.room_id = client.room_id
         /\ c.player_id = client.player_id /\ c.inputs = client.inputs
         /\ c.snapshots = client.snapshots /\ c.code = client.code
  BY DEF IsClient, Goes

LEMMA ExitsWith ==
  ASSUME IsClient(client), NEW code, NEW c, c = Exits(code)
  PROVE  /\ IsClient(c) /\ c.pc = "done" /\ c.wait = 0 /\ c.room_id = client.room_id
         /\ c.player_id = client.player_id /\ c.inputs = client.inputs
         /\ c.snapshots = client.snapshots /\ c.code = code
  BY DEF IsClient, Exits

\* What TypeOK says of the client.
ClientTypeOK ==
    /\ client.pc \in {"start", "sending", "sleeping", "pinging", "done"} \/ Waits(client.pc)
    /\ client.wait > 0 => Waits(client.pc) \/ client.pc = "sleeping"
    /\ client.inputs \in 0..MaxInputs
    /\ client.code \in {-1, 0, 1, 2}
    /\ client.code # -1 <=> client.pc = "done"

\* A step of the client, or of time.
LEMMA ClientKeeps ==
  ASSUME IInv, UNCHANGED rooms, UNCHANGED nat, server' = server,
         due' \in 0..TickUnits, extra' \in 0..MaxExtra,
         IsFiniteSet(net'), Cardinality(net') <= MaxNet,
         \A d \in net' : \/ d \in net
                         \/ /\ d.to = "server" /\ IsPacket(d.packet) /\ FromOwn(d)'
                            /\ FromClient(d.packet, client'.player_id, client'.inputs),
         KeepsId, client.inputs <= client'.inputs, ClientOK', ClientTypeOK'
  PROVE  IInv'
<1>1. Proved!IInv' /\ Proved!IInv /\ RoomOpen'
  BY RoomsKeep, RoomStaysOpen DEF IInv
<1>2. (Known' <=> Known) /\ MyId' = MyId /\ addr' = addr /\ moves' = moves
  BY RoomsStay DEF nat
<1>3. client'.inputs \in Nat /\ client.inputs \in Nat
  BY DEF ClientOK, IsClient, IInv
<1>4. client.player_id # 0 => client'.player_id = client.player_id
  BY DEF KeepsId
<1>5. NetOK'
  BY <1>2, <1>3, <1>4, NetStaysOK DEF SameId
<1>6. HeardBy(client.inputs)'
  <2>1. players_' = players_ /\ acked' = acked /\ peer_index_' = peer_index_
    BY DEF rooms
  <2>2. HeardBy(client.inputs)
    BY DEF IInv
  <2>3. Known => players_[MyId].last_input_seq \in Nat
    BY <1>1, <2>2, RoomsFacts DEF HeardBy
  <2>4. Known => players_'[MyId'].last_input_seq <= client'.inputs
    BY <1>2, <1>3, <2>1, <2>2, <2>3 DEF HeardBy
  <2> QED
    BY <1>2, <1>4, <2>1, <2>2, <2>4 DEF HeardBy
<1>7. TypeOK'
  <2>1. \A d \in net' : d.to \in {"server", "client"}
    BY DEF IInv, TypeOK
  <2> QED
    BY <1>2, <2>1 DEF IInv, TypeOK, ClientTypeOK
<1> QED
  BY <1>1, <1>5, <1>6, <1>7, Zenon DEF IInv

LEMMA NowType == ASSUME IInv PROVE ClientTypeOK /\ ClientOK /\ IsClient(client)
  BY DEF IInv, TypeOK, ClientTypeOK, ClientOK

\* What the client sends.
LEMMA SentToServer ==
  ASSUME IInv, NEW t, NEW room, NEW id, NEW seq, NEW tick, NEW y, IsWords(y),
         NEW p, p = build_packet(t, room, id, seq, tick, y), ClientSends(p), UNCHANGED nat,
         p.msg_type = "C2SJoin" => client.pc = "start",
         FromClient(p, client'.player_id, client'.inputs)
  PROVE  /\ IsFiniteSet(net') /\ Cardinality(net') <= MaxNet
         /\ \A d \in net' : \/ d \in net
                            \/ /\ d.to = "server" /\ IsPacket(d.packet) /\ FromOwn(d)'
                               /\ FromClient(d.packet, client'.player_id, client'.inputs)
<1>1. PICK u : u = net
  OBVIOUS
<1>2. PICK v : v = net'
  OBVIOUS
<1>3. PICK e : e = ToServer(p)
  OBVIOUS
<1>4. e.to = "server" /\ e.from = addr /\ e.packet = p
  BY <1>3 DEF ToServer
<1>5. v = Sent({e}, u)
  BY <1>1, <1>2, <1>3 DEF ClientSends
<1>6. IsFiniteSet({e}) /\ IsFiniteSet(u) /\ Cardinality(u) <= MaxNet
  BY <1>1, FS_Singleton DEF IInv, TypeOK
<1>7. /\ IsFiniteSet(v) /\ Cardinality(v) <= MaxNet
      /\ v \subseteq u \cup {d \in {e} : Length(d.packet) <= kMaxDatagramSize}
  BY <1>5, <1>6, SentAdds
<1>8. /\ p = build_packet(p.msg_type, p.room_id, p.player_id, p.seq, p.tick, p.payload)
      /\ p.payload = y
  BY Built
<1>9. Length(p) <= kMaxDatagramSize => IsPacket(p)
  BY <1>8 DEF IsPacket
<1>10. FromOwn(e)'
  <2>1. addr \in MyAddrs /\ (moves = 0 \/ client.pc = "start" => addr = Me) /\ moves' = moves
    BY DEF IInv, TypeOK, ClientOK, nat
  <2> QED
    BY <1>4, <2>1 DEF FromOwn
<1>11. ASSUME NEW d \in net', d \notin net
       PROVE  /\ d.to = "server" /\ IsPacket(d.packet) /\ FromOwn(d)'
              /\ FromClient(d.packet, client'.player_id, client'.inputs)
  <2>1. d = e /\ Length(d.packet) <= kMaxDatagramSize
    BY <1>1, <1>2, <1>7, <1>11
  <2> QED
    BY <1>4, <1>9, <1>10, <2>1
<1> QED
  BY <1>2, <1>7, <1>11

LEMMA SendJoinKeeps ==
  ASSUME IInv, SendJoin
  PROVE  IInv'
<1>1. ClientTypeOK /\ ClientOK /\ IsClient(client)
  BY NowType
<1>2. /\ client.pc = "start" /\ ClientSends(JoinPacket) /\ shown' = shown
      /\ UNCHANGED rooms /\ UNCHANGED nat
      /\ server' = server /\ due' = due /\ extra' = extra
  BY DEF SendJoin
<1>3. PICK c : c = client'
  OBVIOUS
<1>4. /\ IsClient(c) /\ c.pc = "joining" /\ c.wait = kJoinWait /\ c.room_id = client.room_id
      /\ c.player_id = client.player_id /\ c.inputs = client.inputs
      /\ c.snapshots = client.snapshots /\ c.code = client.code
  <2>1. c = Goes("joining", kJoinWait)
    BY <1>3 DEF SendJoin
  <2> QED
    BY <1>1, <2>1, GoesTo
<1>5. client.player_id = 0 /\ client.inputs = 0 /\ ~client.snapshots
  BY <1>1, <1>2 DEF ClientOK
<1>6. ClientOK' /\ KeepsId
  BY <1>1, <1>2, <1>3, <1>4, <1>5 DEF ClientOK, KeepsId, nat
<1>7. ClientTypeOK'
  BY <1>1, <1>2, <1>3, <1>4 DEF ClientTypeOK, Waits
<1>8. PICK y : y = encode_join([desired_room_id |-> 0])
  OBVIOUS
<1>9. PICK p : p = build_packet("C2SJoin", 0, 0, 1, 0, y)
  OBVIOUS
<1>10. IsWords(y) /\ ClientSends(p)
  BY <1>2, <1>8, <1>9, AreWords DEF JoinPacket
<1>11. FromClient(p, client'.player_id, client'.inputs)
  BY <1>9, Built DEF FromClient
<1>12. /\ IsFiniteSet(net') /\ Cardinality(net') <= MaxNet
       /\ \A d \in net' : \/ d \in net
                          \/ /\ d.to = "server" /\ IsPacket(d.packet) /\ FromOwn(d)'
                             /\ FromClient(d.packet, client'.player_id, client'.inputs)
  BY <1>2, <1>9, <1>10, <1>11, SentToServer
<1>13. due' \in 0..TickUnits /\ extra' \in 0..MaxExtra /\ client.inputs <= client'.inputs
  BY <1>2, <1>3, <1>4, <1>5 DEF IInv, TypeOK
<1> QED
  BY <1>2, <1>3, <1>4, <1>6, <1>7, <1>12, <1>13, ClientKeeps

LEMMA SendInputKeeps ==
  ASSUME IInv, SendInput
  PROVE  IInv'
<1>1. ClientTypeOK /\ ClientOK /\ IsClient(client)
  BY NowType
<1>2. /\ client.pc = "sending" /\ ClientSends(InputPacket(client.inputs)) /\ shown' = shown
      /\ UNCHANGED rooms /\ UNCHANGED nat
      /\ server' = server /\ due' = due /\ extra' = extra
  BY DEF SendInput
<1>3. PICK c : c = client'
  OBVIOUS
<1>4. /\ IsClient(c) /\ c.pc = "draining" /\ c.wait = kDrainWait /\ c.room_id = client.room_id
      /\ c.player_id = client.player_id /\ c.inputs = client.inputs + 1
      /\ c.snapshots = client.snapshots /\ c.code = client.code
  <2>1. PICK b : b = Goes("draining", kDrainWait)
    OBVIOUS
  <2>2. c = [b EXCEPT !.inputs = @ + 1]
    BY <1>3, <2>1 DEF SendInput
  <2>3. /\ IsClient(b) /\ b.pc = "draining" /\ b.wait = kDrainWait /\ b.room_id = client.room_id
        /\ b.player_id = client.player_id /\ b.inputs = client.inputs
        /\ b.snapshots = client.snapshots /\ b.code = client.code
    BY <1>1, <2>1, GoesTo
  <2> QED
    BY <2>2, <2>3 DEF IsClient
<1>5. client.inputs \in Nat /\ client.inputs < MaxInputs /\ client.player_id # 0
  BY <1>1, <1>2 DEF ClientOK, IsClient
<1>6. /\ client.room_id = kRoom
      /\ client.snapshots => Shows(shown, MyId, client.inputs)
      /\ moves = 0 => addr = Me
      /\ KeepsId
  BY <1>1, <1>2, <1>3, <1>4, <1>5 DEF ClientOK, KeepsId
<1>7. MyId' = MyId /\ addr' = addr /\ moves' = moves
  BY <1>2, <1>6, RoomsStay DEF nat
<1>8. ClientOK'
  <2>1. ASSUME client.snapshots PROVE Shows(shown', MyId', c.inputs)
    <3>1. 0..client.inputs \subseteq 0..c.inputs
      BY <1>4, <1>5
    <3> QED
      BY <1>2, <1>6, <1>7, <2>1, <3>1 DEF Shows
  <2> QED
    BY <1>3, <1>4, <1>5, <1>6, <1>7, <2>1 DEF ClientOK
<1>9. ClientTypeOK'
  BY <1>1, <1>2, <1>3, <1>4, <1>5, ClientBounds DEF ClientTypeOK, Waits
<1>10. PICK i : i = client.inputs
  OBVIOUS
<1>11. PICK in : in = InputOf(i)
  OBVIOUS
<1>12. PICK y : y = encode_input(in)
  OBVIOUS
<1>13. PICK room : room = client.room_id
  OBVIOUS
<1>14. PICK id : id = client.player_id
  OBVIOUS
<1>15. PICK p : p = build_packet("C2SInput", room, id, i + 2, i, y)
  OBVIOUS
<1>16. ClientSends(p)
  <2>1. InputPacket(i) = p
    BY <1>11, <1>12, <1>13, <1>14, <1>15, Zenon DEF InputPacket
  <2> QED
    BY <1>2, <1>10, <2>1
<1>17. IsWords(y)
  BY <1>12, InputWords
<1>18. FromClient(p, client'.player_id, client'.inputs)
  <2>1. /\ p.msg_type = "C2SInput" /\ p.room_id = room /\ p.player_id = id
        /\ p.payload = y
    BY <1>15, Built
  <2>2. decode_input(y) = [f \in InputNames \cup PosNames |-> in[f]]
    BY <1>12, InputKept
  <2>3. decode_input(y).input_seq = in.input_seq
    BY <2>2 DEF InputNames
  <2>4. in.input_seq = i + 1
    BY <1>11 DEF InputOf
  <2>5. decode_input(y).input_seq \in 1..client'.inputs
    BY <1>3, <1>4, <1>5, <1>10, <2>3, <2>4
  <2> QED
    BY <1>3, <1>4, <1>5, <1>6, <1>13, <1>14, <2>1, <2>5 DEF FromClient
<1>19. /\ IsFiniteSet(net') /\ Cardinality(net') <= MaxNet
       /\ \A d \in net' : \/ d \in net
                          \/ /\ d.to = "server" /\ IsPacket(d.packet) /\ FromOwn(d)'
                             /\ FromClient(d.packet, client'.player_id, client'.inputs)
  <2>1. p.msg_type # "C2SJoin"
    BY <1>15, Built
  <2> QED
    BY <1>2, <1>15, <1>16, <1>17, <1>18, <2>1, SentToServer
<1>20. due' \in 0..TickUnits /\ extra' \in 0..MaxExtra /\ client.inputs <= client'.inputs
  BY <1>2, <1>3, <1>4, <1>5 DEF IInv, TypeOK
<1> QED
  BY <1>2, <1>3, <1>4, <1>6, <1>8, <1>9, <1>19, <1>20, ClientKeeps

LEMMA SendPingKeeps ==
  ASSUME IInv, SendPing
  PROVE  IInv'
<1>1. ClientTypeOK /\ ClientOK /\ IsClient(client)
  BY NowType
<1>2. /\ client.pc = "pinging" /\ ClientSends(PingPacket(client.inputs + 2)) /\ shown' = shown
      /\ UNCHANGED rooms /\ UNCHANGED nat
      /\ server' = server /\ due' = due /\ extra' = extra
  BY DEF SendPing
<1>3. PICK c : c = client'
  OBVIOUS
<1>4. /\ IsClient(c) /\ c.pc = "ponging" /\ c.wait = kPingWait /\ c.room_id = client.room_id
      /\ c.player_id = client.player_id /\ c.inputs = client.inputs
      /\ c.snapshots = client.snapshots /\ c.code = client.code
  <2>1. c = Goes("ponging", kPingWait)
    BY <1>3 DEF SendPing
  <2> QED
    BY <1>1, <2>1, GoesTo
<1>5. client.inputs \in Nat /\ client.player_id # 0
  BY <1>1, <1>2 DEF ClientOK, IsClient
<1>6. /\ client.room_id = kRoom
      /\ client.snapshots => Shows(shown, MyId, client.inputs)
      /\ moves = 0 => addr = Me
      /\ KeepsId
  BY <1>1, <1>2, <1>3, <1>4, <1>5 DEF ClientOK, KeepsId
<1>7. MyId' = MyId /\ addr' = addr /\ moves' = moves
  BY <1>2, <1>6, RoomsStay DEF nat
<1>8. ClientOK'
  BY <1>2, <1>3, <1>4, <1>5, <1>6, <1>7 DEF ClientOK, Shows
<1>9. ClientTypeOK'
  BY <1>1, <1>2, <1>3, <1>4 DEF ClientTypeOK, Waits
<1>10. PICK y : y = encode_ping(Stamp)
  OBVIOUS
<1>11. PICK room : room = client.room_id
  OBVIOUS
<1>12. PICK id : id = client.player_id
  OBVIOUS
<1>13. PICK seq : seq = client.inputs + 2
  OBVIOUS
<1>14. PICK p : p = build_packet("C2SPing", room, id, seq, 0, y)
  OBVIOUS
<1>15. ClientSends(p)
  <2>1. PingPacket(seq) = p
    BY <1>10, <1>11, <1>12, <1>14, Zenon DEF PingPacket
  <2> QED
    BY <1>2, <1>13, <2>1
<1>16. IsWords(y)
  BY <1>10, PongWords
<1>17. FromClient(p, client'.player_id, client'.inputs)
  BY <1>3, <1>4, <1>5, <1>6, <1>11, <1>12, <1>14, Built DEF FromClient
<1>18. /\ IsFiniteSet(net') /\ Cardinality(net') <= MaxNet
       /\ \A d \in net' : \/ d \in net
                          \/ /\ d.to = "server" /\ IsPacket(d.packet) /\ FromOwn(d)'
                             /\ FromClient(d.packet, client'.player_id, client'.inputs)
  <2>1. p.msg_type # "C2SJoin"
    BY <1>14, Built
  <2> QED
    BY <1>2, <1>14, <1>15, <1>16, <1>17, <2>1, SentToServer
<1>19. due' \in 0..TickUnits /\ extra' \in 0..MaxExtra /\ client.inputs <= client'.inputs
  BY <1>2, <1>3, <1>4, <1>5 DEF IInv, TypeOK
<1> QED
  BY <1>2, <1>3, <1>4, <1>6, <1>8, <1>9, <1>18, <1>19, ClientKeeps

\* What the client reads of a datagram: nothing, or what was sent.
LEMMA ReadAsSent ==
  ASSUME NEW d, IsPacket(d.packet), NEW q, q = recv_packet(d), q # Refused
  PROVE  /\ q.msg_type = d.packet.msg_type /\ q.payload = d.packet.payload
         /\ Length(d.packet) <= kClientBuf
<1>1. PICK p : p = d.packet
  OBVIOUS
<1>2. AnyPacket(p) /\ IsWords(p.payload) /\ Size(p.payload) < LenSpace
  BY <1>1, PacketFits
<1>3. PICK bytes \in Nat : bytes = kClientBuf
  BY ClientAssumption DEF ClientAssumption
<1>4. q = decode(Prefix(encode(p), bytes))
  BY <1>1, <1>3, Zenon DEF recv_packet
<1>5. /\ q.msg_type = p.msg_type /\ q.payload = p.payload
      /\ HeaderBytes + Size(p.payload) <= bytes
  BY <1>2, <1>4, DecodeSent
<1> QED
  BY <1>1, <1>3, <1>5 DEF Length

\* A step of the client that sends nothing.
LEMMA QuietKeeps ==
  ASSUME IInv, UNCHANGED rooms, UNCHANGED nat, server' = server,
         due' \in 0..TickUnits, extra' \in 0..MaxExtra, net' \subseteq net,
         KeepsId, client.inputs <= client'.inputs, ClientOK', ClientTypeOK'
  PROVE  IInv'
<1>1. IsFiniteSet(net) /\ Cardinality(net) <= MaxNet
  BY DEF IInv, TypeOK
<1>2. IsFiniteSet(net') /\ Cardinality(net') <= Cardinality(net)
  <2>1. PICK u : u = net
    OBVIOUS
  <2>2. PICK v : v = net'
    OBVIOUS
  <2>3. IsFiniteSet(v) /\ Cardinality(v) <= Cardinality(u)
    BY <1>1, <2>1, <2>2, FS_Subset
  <2> QED
    BY <2>1, <2>2, <2>3
<1>3. Cardinality(net') <= MaxNet
  <2>1. PICK v : v = net'
    OBVIOUS
  <2>2. Cardinality(v) \in Nat /\ Cardinality(net) \in Nat
    BY <1>1, <1>2, <2>1, FS_CardinalityType
  <2> QED
    BY <1>1, <1>2, <2>1, <2>2, ClientBounds
<1> QED
  BY <1>2, <1>3, ClientKeeps

LEMMA JoinedKeeps ==
  ASSUME IInv, client.pc = "joining", UNCHANGED rooms, UNCHANGED nat, NEW q, Joined(q),
         Known, client.player_id = 0 /\ q # Refused /\ q.msg_type = "S2CJoinAck" =>
                   decode_join_ack(q.payload) = AckOf(MyId)
  PROVE  KeepsId /\ client.inputs <= client'.inputs /\ ClientOK' /\ ClientTypeOK'
<1>1. ClientTypeOK /\ ClientOK /\ IsClient(client)
  BY NowType
<1>2. /\ client.player_id = 0 /\ client.inputs = 0 /\ ~client.snapshots
      /\ moves' = 0 => addr' = Me
  BY <1>1 DEF ClientOK, nat
<1>3. PICK c : c = client'
  OBVIOUS
<1>4. PICK id : id = MyId
  OBVIOUS
<1>5. id # 0
  <2>1. MyId \in DOMAIN players_
    BY DEF IInv, HeardBy
  <2> QED
    BY <1>4, <2>1, RoomsFacts DEF IInv, Rooms!Ids
<1>6. MaxInputs \in Nat /\ MaxInputs > 0
  BY ClientBounds
<1>7. CASE c = Exits(1)
  <2>1. /\ IsClient(c) /\ c.pc = "done" /\ c.wait = 0 /\ c.player_id = client.player_id
        /\ c.inputs = client.inputs /\ c.snapshots = client.snapshots /\ c.code = 1
    BY <1>1, <1>7, ExitsWith
  <2>2. ClientOK'
    BY <1>2, <1>3, <2>1 DEF ClientOK
  <2>3. ClientTypeOK'
    BY <1>1, <1>3, <2>1 DEF ClientTypeOK, Waits
  <2> QED
    BY <1>2, <1>3, <2>1, <2>2, <2>3 DEF KeepsId
<1>8. CASE /\ q.msg_type = "S2CJoinAck"
           /\ c = [Goes("sending", 0) EXCEPT !.room_id = decode_join_ack(q.payload).room_id,
                                             !.player_id = decode_join_ack(q.payload).player_id]
  <2>1. q # Refused
    BY <1>8 DEF Refused
  <2>2. decode_join_ack(q.payload).room_id = kRoom /\ decode_join_ack(q.payload).player_id = id
    BY <1>2, <1>4, <1>8, <2>1 DEF AckOf
  <2>3. PICK b : b = Goes("sending", 0)
    OBVIOUS
  <2>4. /\ IsClient(b) /\ b.pc = "sending" /\ b.wait = 0 /\ b.inputs = client.inputs
        /\ b.snapshots = client.snapshots /\ b.code = client.code
    BY <1>1, <2>3, GoesTo
  <2>5. c = [b EXCEPT !.room_id = kRoom, !.player_id = id]
    BY <1>8, <2>2, <2>3
  <2>6. /\ IsClient(c) /\ c.pc = "sending" /\ c.wait = 0 /\ c.room_id = kRoom /\ c.player_id = id
        /\ c.inputs = client.inputs /\ c.snapshots = client.snapshots /\ c.code = client.code
    BY <2>4, <2>5 DEF IsClient
  <2>7. ClientOK'
    BY <1>2, <1>3, <1>5, <1>6, <2>6 DEF ClientOK
  <2>8. ClientTypeOK'
    BY <1>1, <1>3, <2>6 DEF ClientTypeOK, Waits
  <2> QED
    BY <1>2, <1>3, <1>4, <2>6, <2>7, <2>8 DEF KeepsId
<1> QED
  BY <1>3, <1>7, <1>8 DEF Joined

LEMMA DrainedKeeps ==
  ASSUME IInv, client.pc = "draining", UNCHANGED rooms, UNCHANGED nat, NEW q, Drained(q),
         q # Refused /\ q.msg_type = "S2CSnapshot" =>
            Shows(decode_snapshot(q.payload).players, MyId, client.inputs)
  PROVE  KeepsId /\ client.inputs <= client'.inputs /\ ClientOK' /\ ClientTypeOK'
<1>1. ClientTypeOK /\ ClientOK /\ IsClient(client)
  BY NowType
<1>2. /\ client.player_id # 0 /\ client.room_id = kRoom
      /\ client.snapshots => Shows(shown, MyId, client.inputs)
      /\ client.inputs \in Nat /\ (moves' = 0 => addr' = Me)
  BY <1>1 DEF ClientOK, IsClient, nat
<1>3. PICK c : c = client'
  OBVIOUS
<1>4. client'.player_id = client.player_id => KeepsId /\ MyId' = MyId
  BY RoomsStay DEF KeepsId
<1>5. \/ shown' = shown /\ \E pc, wait : c = Goes(pc, wait) /\ pc \in {"sleeping", "draining"}
      \/ /\ q # Refused /\ q.msg_type = "S2CSnapshot"
         /\ c = [Goes("draining", kDrainWait) EXCEPT !.snapshots = TRUE]
         /\ shown' = decode_snapshot(q.payload).players
  BY <1>3 DEF Drained, DrainEnds
<1>6. CASE shown' = shown /\ \E pc, wait : c = Goes(pc, wait) /\ pc \in {"sleeping", "draining"}
  <2>1. PICK pc, wait : c = Goes(pc, wait) /\ pc \in {"sleeping", "draining"}
    BY <1>6
  <2>2. /\ IsClient(c) /\ c.pc = pc /\ c.room_id = client.room_id
        /\ c.player_id = client.player_id /\ c.inputs = client.inputs
        /\ c.snapshots = client.snapshots /\ c.code = client.code
    BY <1>1, <2>1, GoesTo
  <2>3. ClientOK'
    BY <1>2, <1>3, <1>4, <1>6, <2>1, <2>2 DEF ClientOK
  <2>4. ClientTypeOK'
    BY <1>1, <1>3, <2>1, <2>2 DEF ClientTypeOK, Waits
  <2> QED
    BY <1>2, <1>3, <1>4, <2>2, <2>3, <2>4
<1>7. CASE /\ q # Refused /\ q.msg_type = "S2CSnapshot"
           /\ c = [Goes("draining", kDrainWait) EXCEPT !.snapshots = TRUE]
           /\ shown' = decode_snapshot(q.payload).players
  <2>1. PICK b : b = Goes("draining", kDrainWait)
    OBVIOUS
  <2>2. /\ IsClient(b) /\ b.pc = "draining" /\ b.room_id = client.room_id
        /\ b.player_id = client.player_id /\ b.inputs = client.inputs /\ b.code = client.code
    BY <1>1, <2>1, GoesTo
  <2>3. /\ IsClient(c) /\ c.pc = "draining" /\ c.room_id = client.room_id
        /\ c.player_id = client.player_id /\ c.inputs = client.inputs /\ c.code = client.code
    BY <1>7, <2>1, <2>2 DEF IsClient
  <2>4. Shows(shown', MyId, client.inputs)
    BY <1>7
  <2>5. ClientOK'
    BY <1>2, <1>3, <1>4, <2>3, <2>4 DEF ClientOK
  <2>6. ClientTypeOK'
    BY <1>1, <1>3, <2>3 DEF ClientTypeOK, Waits
  <2> QED
    BY <1>2, <1>3, <1>4, <2>3, <2>5, <2>6
<1> QED
  BY <1>5, <1>6, <1>7

LEMMA PongedKeeps ==
  ASSUME IInv, client.pc = "ponging", UNCHANGED rooms, UNCHANGED nat, Ponged
  PROVE  KeepsId /\ client.inputs <= client'.inputs /\ ClientOK' /\ ClientTypeOK'
<1>1. ClientTypeOK /\ ClientOK /\ IsClient(client)
  BY NowType
<1>2. /\ client.player_id # 0 => client.room_id = kRoom
      /\ client.snapshots => client.player_id # 0 /\ Shows(shown, MyId, client.inputs)
      /\ client.inputs \in Nat /\ (moves' = 0 => addr' = Me)
  BY <1>1 DEF ClientOK, IsClient, nat
<1>3. PICK c : c = client'
  OBVIOUS
<1>4. PICK code : c = Exits(code) /\ code \in {0, 2} /\ shown' = shown
  BY <1>3 DEF Ponged
<1>5. /\ IsClient(c) /\ c.pc = "done" /\ c.wait = 0 /\ c.room_id = client.room_id
      /\ c.player_id = client.player_id /\ c.inputs = client.inputs
      /\ c.snapshots = client.snapshots /\ c.code = code
  BY <1>1, <1>4, ExitsWith
<1>6. KeepsId /\ MyId' = MyId
  BY <1>3, <1>5, RoomsStay DEF KeepsId
<1>7. ClientOK'
  BY <1>2, <1>3, <1>4, <1>5, <1>6 DEF ClientOK
<1>8. ClientTypeOK'
  BY <1>1, <1>3, <1>4, <1>5 DEF ClientTypeOK, Waits
<1> QED
  BY <1>2, <1>3, <1>5, <1>6, <1>7, <1>8

LEMMA ClientReceivesKeeps ==
  ASSUME IInv, NEW d \in net, NEW again \in {0, 1}, extra + again <= MaxExtra,
         ClientReceives(d, again)
  PROVE  IInv'
<1>1. /\ d.to = "client" /\ net' = Rest(d, again) /\ extra' = extra + again
      /\ UNCHANGED rooms /\ UNCHANGED nat /\ server' = server /\ due' = due
  BY DEF ClientReceives
<1>2. net' \subseteq net
  BY <1>1 DEF Rest
<1>3. due' \in 0..TickUnits /\ extra' \in 0..MaxExtra
  BY <1>1, ClientBounds DEF IInv, TypeOK
<1>4. IsPacket(d.packet) /\ Known /\ ForClient(d.packet, MyId, client.inputs)
  BY <1>1 DEF IInv, NetOK
<1>5. PICK q : q = recv_packet(d)
  OBVIOUS
<1>6. q # Refused => /\ q.msg_type = d.packet.msg_type /\ q.payload = d.packet.payload
                     /\ Length(d.packet) <= kClientBuf
  BY <1>4, <1>5, ReadAsSent
<1>7. /\ client.player_id = 0 /\ q # Refused /\ q.msg_type = "S2CJoinAck" =>
            decode_join_ack(q.payload) = AckOf(MyId)
      /\ q # Refused /\ q.msg_type = "S2CSnapshot" =>
            Shows(decode_snapshot(q.payload).players, MyId, client.inputs)
  BY <1>4, <1>6 DEF ForClient
<1>8. \/ client.pc = "joining" /\ Joined(q)
      \/ client.pc = "draining" /\ Drained(q)
      \/ client.pc = "ponging" /\ Ponged
  BY <1>5 DEF ClientReceives
<1>9. KeepsId /\ client.inputs <= client'.inputs /\ ClientOK' /\ ClientTypeOK'
  BY <1>1, <1>4, <1>7, <1>8, JoinedKeeps, DrainedKeeps, PongedKeeps, Zenon
<1> QED
  BY <1>1, <1>2, <1>3, <1>9, QuietKeeps

LEMMA TimeOutKeeps ==
  ASSUME IInv, TimeOut
  PROVE  IInv'
<1>1. ClientTypeOK /\ ClientOK /\ IsClient(client)
  BY NowType
<1>2. /\ UNCHANGED rooms /\ UNCHANGED nat /\ server' = server /\ due' = due /\ net' = net /\ extra' = extra
      /\ client.pc \in {"joining", "draining", "ponging", "sleeping"}
  BY DEF TimeOut
<1>3. net' \subseteq net /\ due' \in 0..TickUnits /\ extra' \in 0..MaxExtra
  BY <1>2 DEF IInv, TypeOK
<1>4. PICK c : c = client'
  OBVIOUS
<1>5. client'.player_id = client.player_id => KeepsId /\ MyId' = MyId
  BY <1>2, RoomsStay DEF KeepsId
<1>6. \/ client.pc = "joining" /\ c = Exits(1) /\ shown' = shown
      \/ client.pc = "ponging" /\ Ponged
      \/ /\ client.pc \in {"draining", "sleeping"} /\ shown' = shown
         /\ \/ c = Goes("sleeping", kSleep)
            \/ c = Goes("sending", 0) /\ client.inputs < MaxInputs
            \/ c = Goes("pinging", 0)
  BY <1>4 DEF TimeOut, DrainEnds, MoreInputs
<1>7. CASE client.pc = "joining" /\ c = Exits(1) /\ shown' = shown
  <2>1. /\ IsClient(c) /\ c.pc = "done" /\ c.wait = 0 /\ c.player_id = client.player_id
        /\ c.inputs = client.inputs /\ c.snapshots = client.snapshots /\ c.code = 1
    BY <1>1, <1>7, ExitsWith
  <2>2. /\ client.player_id = 0 /\ client.inputs = 0 /\ ~client.snapshots
        /\ moves' = 0 => addr' = Me
    BY <1>1, <1>2, <1>7 DEF ClientOK, nat
  <2>3. ClientOK'
    BY <1>4, <2>1, <2>2 DEF ClientOK
  <2>4. ClientTypeOK'
    BY <1>1, <1>4, <2>1 DEF ClientTypeOK, Waits
  <2>5. KeepsId
    BY <1>4, <1>5, <2>1
  <2>6. client.inputs <= client'.inputs
    BY <1>4, <2>1, <2>2
  <2> QED
    BY <1>2, <1>3, <2>3, <2>4, <2>5, <2>6, QuietKeeps
<1>8. CASE client.pc = "ponging" /\ Ponged
  BY <1>2, <1>3, <1>8, PongedKeeps, QuietKeeps
<1>9. CASE /\ client.pc \in {"draining", "sleeping"} /\ shown' = shown
           /\ \/ c = Goes("sleeping", kSleep)
              \/ c = Goes("sending", 0) /\ client.inputs < MaxInputs
              \/ c = Goes("pinging", 0)
  <2>1. PICK pc, wait : /\ c = Goes(pc, wait) /\ pc \in {"sleeping", "sending", "pinging"}
                        /\ pc = "sending" => client.inputs < MaxInputs
                        /\ pc # "sleeping" => wait = 0
    BY <1>9
  <2>2. /\ IsClient(c) /\ c.pc = pc /\ c.wait = wait /\ c.room_id = client.room_id
        /\ c.player_id = client.player_id /\ c.inputs = client.inputs
        /\ c.snapshots = client.snapshots /\ c.code = client.code
    BY <1>1, <2>1, GoesTo
  <2>3. /\ client.player_id # 0 /\ client.room_id = kRoom
        /\ client.snapshots => Shows(shown, MyId, client.inputs)
        /\ client.inputs \in Nat /\ (moves' = 0 => addr' = Me)
    BY <1>1, <1>2, <1>9 DEF ClientOK, IsClient, nat
  <2>4. ClientOK'
    BY <1>4, <1>5, <1>9, <2>1, <2>2, <2>3 DEF ClientOK
  <2>5. ClientTypeOK'
    BY <1>1, <1>4, <1>9, <2>1, <2>2 DEF ClientTypeOK, Waits
  <2>6. KeepsId
    BY <1>4, <1>5, <2>2
  <2>7. client.inputs <= client'.inputs
    BY <1>4, <2>2, <2>3
  <2> QED
    BY <1>2, <1>3, <2>4, <2>5, <2>6, <2>7, QuietKeeps
<1> QED
  BY <1>6, <1>7, <1>8, <1>9

LEMMA TimePassesKeeps ==
  ASSUME IInv, TimePasses
  PROVE  IInv'
<1>1. ClientTypeOK /\ ClientOK /\ IsClient(client)
  BY NowType
<1>2. /\ UNCHANGED rooms /\ UNCHANGED nat
      /\ server' = server /\ net' = net /\ extra' = extra /\ shown' = shown
      /\ client' = [client EXCEPT !.wait = IF @ > 0 THEN @ - 1 ELSE 0]
      /\ due' = IF due > 0 THEN due - 1 ELSE 0
  BY DEF TimePasses
<1>3. net' \subseteq net /\ due' \in 0..TickUnits /\ extra' \in 0..MaxExtra
  BY <1>2, ClientBounds DEF IInv, TypeOK
<1>4. PICK c : c = client'
  OBVIOUS
<1>5. /\ IsClient(c) /\ c.pc = client.pc /\ c.room_id = client.room_id
      /\ c.player_id = client.player_id /\ c.inputs = client.inputs
      /\ c.snapshots = client.snapshots /\ c.code = client.code
      /\ c.wait > 0 => client.wait > 0
  <2>1. /\ IsClient(c) /\ c.pc = client.pc /\ c.room_id = client.room_id
        /\ c.player_id = client.player_id /\ c.inputs = client.inputs
        /\ c.snapshots = client.snapshots /\ c.code = client.code
        /\ c.wait = IF client.wait > 0 THEN client.wait - 1 ELSE 0
    BY <1>1, <1>2, <1>4 DEF IsClient
  <2> QED
    BY <2>1
<1>6. KeepsId /\ MyId' = MyId
  BY <1>2, <1>4, <1>5, RoomsStay DEF KeepsId
<1>7. ClientOK'
  BY <1>1, <1>2, <1>4, <1>5, <1>6 DEF ClientOK, nat
<1>8. ClientTypeOK'
  BY <1>1, <1>4, <1>5 DEF ClientTypeOK, Waits
<1>9. client.inputs <= client'.inputs
  BY <1>1, <1>4, <1>5 DEF IsClient
<1> QED
  BY <1>2, <1>3, <1>6, <1>7, <1>8, <1>9, QuietKeeps

\* The NAT moves the client, which goes by its id already.
LEMMA RebindKeeps ==
  ASSUME IInv, NEW a \in MyAddrs, Rebind(a)
  PROVE  IInv'
<1>1. /\ client.pc \in {"sending", "pinging"} /\ addr' = a /\ moves' = moves + 1
      /\ moves < MaxMoves /\ moves \in 0..MaxMoves
      /\ UNCHANGED rooms /\ UNCHANGED <<server, due, net, extra, client, shown>>
  BY DEF Rebind, IInv, TypeOK
<1>2. moves' \in 0..MaxMoves /\ moves' # 0
  BY <1>1, ClientBounds
<1>3. Proved!IInv' /\ RoomOpen'
  BY <1>1, RoomsKeep, RoomStaysOpen DEF IInv
<1>4. (Known' <=> Known) /\ MyId' = MyId
  BY <1>1, RoomsStay DEF KeepsId
<1>5. client' = client /\ net' = net /\ shown' = shown
  BY <1>1
<1>6. NetOK'
  <2>1. client.inputs \in Nat
    BY DEF IInv, ClientOK, IsClient
  <2> QED
    BY <1>2, <1>4, <1>5, <2>1, NetStaysOK DEF SameId
<1>7. ClientOK'
  BY <1>1, <1>2, <1>4, <1>5 DEF IInv, ClientOK, Shows
<1>8. HeardBy(client.inputs)'
  <2>1. players_' = players_ /\ acked' = acked /\ peer_index_' = peer_index_
    BY <1>1 DEF rooms
  <2>2. HeardBy(client.inputs)
    BY DEF IInv
  <2> QED
    BY <1>2, <1>4, <1>5, <2>1, <2>2 DEF HeardBy
<1>9. TypeOK'
  BY <1>1, <1>2 DEF IInv, TypeOK, Waits
<1> QED
  BY <1>3, <1>5, <1>6, <1>7, <1>8, <1>9, Zenon DEF IInv

LEMMA StepKeeps == IInv /\ [Next]_vars => IInv'
<1> SUFFICES ASSUME IInv, [Next]_vars PROVE IInv'
  OBVIOUS
<1>1. CASE Start \/ Stop
  BY <1>1, StartOrStopKeeps
<1>2. CASE OnTick
  BY <1>2, OnTickKeeps
<1>3. ASSUME NEW d \in net, NEW again \in {0, 1}, extra + again <= MaxExtra,
             ServerReceives(d, again) \/ ClientReceives(d, again)
      PROVE  IInv'
  BY <1>3, ServerReceivesKeeps, ClientReceivesKeeps
<1>4. ASSUME NEW d \in net, Lose(d) PROVE IInv'
  BY <1>4, LoseKeeps
<1>5. ASSUME NEW a \in Others, NEW id \in OtherIds \cup {0}, NEW q \in OtherPackets[id],
             OtherPlayer(a, q)
      PROVE  IInv'
  BY <1>5, OtherPlayerKeeps
<1>6. CASE SendJoin
  BY <1>6, SendJoinKeeps
<1>7. CASE TimeOut
  BY <1>7, TimeOutKeeps
<1>8. CASE SendInput
  BY <1>8, SendInputKeeps
<1>9. CASE SendPing
  BY <1>9, SendPingKeeps
<1>10. CASE TimePasses
  BY <1>10, TimePassesKeeps
<1>11. ASSUME NEW a \in MyAddrs, Rebind(a) PROVE IInv'
  BY <1>11, RebindKeeps
<1>12. CASE UNCHANGED vars
  <2>1. /\ UNCHANGED rooms /\ UNCHANGED nat
        /\ server' = server /\ due' = due /\ net' = net /\ extra' = extra
        /\ client' = client /\ shown' = shown
    BY <1>12 DEF vars
  <2>2. KeepsId /\ SameId
    BY <2>1, RoomsStay DEF KeepsId, SameId
  <2>3. ClientOK'
    BY <2>1, <2>2, ClientStaysOK
  <2>4. ClientTypeOK'
    BY <2>1, NowType DEF ClientTypeOK, Waits
  <2>5. due' \in 0..TickUnits /\ extra' \in 0..MaxExtra /\ client.inputs <= client'.inputs
    BY <2>1, NowType DEF IInv, TypeOK, IsClient
  <2> QED
    BY <2>1, <2>2, <2>3, <2>4, <2>5, QuietKeeps
<1> QED
  BY <1>1, <1>2, <1>3, <1>4, <1>5, <1>6, <1>7, <1>8, <1>9, <1>10, <1>11, <1>12, Zenon DEF Next

-----------------------------------------------------------------------------

\* The invariant of the two programs and the network between them: whatever datagrams are
\* lost, late, duplicated or cut off, wherever the NAT moves the client, and whatever the other
\* players send under their own ids.
THEOREM InductiveInvariant == Spec => []IInv
  BY InitIInv, StepKeeps, PTL DEF Spec

\* Types; at most MaxNet datagrams are under way; the client waits only in select or asleep,
\* sends no more than its inputs, and has an exit code exactly when it has ended.
THEOREM TypeCorrect == Spec => []TypeOK
<1>1. IInv => TypeOK
  BY DEF IInv
<1> QED
  BY <1>1, InductiveInvariant, PTL

\* Every datagram under way is either refused by the client's buffer or read by it as it was
\* sent, and the codec keeps every message: udp_game_client's recv_packet and GameCodec.
THEOREM DatagramsAreFaithful == Spec => []Faithful
<1>1. IInv => Faithful
  <2> SUFFICES ASSUME IInv PROVE Faithful
    OBVIOUS
  <2>1. MessagesKept
    BY MessagesAreKept
  <2>2. ASSUME NEW d \in net, recv_packet(d) # Refused
        PROVE  /\ recv_packet(d).msg_type = d.packet.msg_type
               /\ recv_packet(d).payload = d.packet.payload
    <3>1. IsPacket(d.packet)
      BY DEF IInv, NetOK
    <3> QED
      BY <2>2, <3>1, ReadAsSent
  <2> QED
    BY <2>1, <2>2, Zenon DEF Faithful
<1> QED
  BY <1>1, InductiveInvariant, PTL

\* The server takes the datagrams of the client for the player whose id it goes by, also from an
\* address that the NAT has changed; only at the address of its join, once it has been away from
\* it, can they be another's (GameRoomManager::join, a late copy of the join).  Every snapshot
\* that the client counts shows its player, with no input that it has not sent.
THEOREM OwnPlayerIsShown == Spec => []OwnPlayerShown
<1>1. IInv => OwnPlayerShown
  <2> SUFFICES ASSUME IInv, client.player_id # 0
               PROVE  /\ addr # Me \/ moves = 0 =>
                            Rooms!Resolved(addr, client.player_id) = client.player_id
                      /\ client.snapshots =>
                            \E i \in DOMAIN shown :
                               /\ shown[i].player_id = client.player_id
                               /\ shown[i].last_input_seq <= client.inputs
    BY DEF OwnPlayerShown
  <2>1. Known /\ MyId = client.player_id
    BY DEF Known, MyId
  <2>2. /\ client.player_id \in DOMAIN players_
        /\ players_[client.player_id].peer \in DOMAIN peer_index_
    BY <2>1, RoomsFacts DEF IInv, HeardBy
  <2>3. room_open
    BY <2>2 DEF IInv, RoomOpen
  <2>4. ASSUME addr # Me \/ moves = 0
        PROVE  Rooms!Resolved(addr, client.player_id) = client.player_id
    <3>1. addr \in MyAddrs /\ (moves = 0 => addr = Me)
      BY DEF IInv, TypeOK, ClientOK
    <3>2. addr \in DOMAIN peer_index_ => peer_index_[addr] = client.player_id
      BY <2>1, <2>4, <3>1 DEF IInv, HeardBy
    <3> QED
      BY <2>2, <2>3, <3>2 DEF Rooms!Resolved
  <2>5. client.snapshots => Shows(shown, client.player_id, client.inputs)
    BY <2>1 DEF IInv, ClientOK
  <2>6. client.inputs \in Nat
    BY DEF IInv, ClientOK, IsClient
  <2> QED
    BY <2>4, <2>5, <2>6 DEF Shows
<1> QED
  BY <1>1, InductiveInvariant, PTL

\* The server with its network, its timer and its decoder does to the rooms only what GameRooms
\* allows its callers: every step of a datagram or a tick is one of the rooms, or none.  What
\* GameRoomsProofs proves of them holds of the server.
THEOREM RoomsAreImplemented == Spec => Rooms!Spec
<1>1. Init => Rooms!Init
  BY DEF Init
<1>2. IInv /\ [Next]_vars => [Rooms!Next]_(Rooms!vars)
  <2> SUFFICES ASSUME IInv, [Next]_vars PROVE Rooms!Next \/ UNCHANGED rooms
    BY DEF rooms, Rooms!vars, Rooms!room_vars, Rooms!match_vars
  <2>1. PICK n : n = client.inputs
    OBVIOUS
  <2>2. /\ Proved!IInv /\ n \in Nat /\ n <= MaxSeq /\ HeardBy(n)
    BY <2>1, ClientBounds DEF IInv, ClientOK, IsClient, TypeOK
  <2>3. ASSUME NEW d \in net, NEW again \in {0, 1}, ServerReceives(d, again)
        PROVE  Rooms!Next \/ UNCHANGED rooms
    <3>1. PICK q : q = decode(encode(d.packet))
      OBVIOUS
    <3>2. PICK u : u = Rest(d, again)
      OBVIOUS
    <3>3. d.to = "server" /\ HandlePacket(d.from, q, u) /\ UNCHANGED <<client, nat>>
      BY <2>3, <3>1, <3>2, Zenon DEF ServerReceives
    <3>4. Arrives(d.from, q, n) /\ d.from \in Addrs
      BY <2>1, <3>1, <3>3, ClientArrives
    <3> QED
      BY <2>2, <3>3, <3>4, HandledWell
  <2>4. ASSUME NEW a \in Others, NEW id \in OtherIds \cup {0}, NEW q \in OtherPackets[id],
               OtherPlayer(a, q)
        PROVE  Rooms!Next \/ UNCHANGED rooms
    <3>1. PICK u : u = net
      OBVIOUS
    <3>2. HandlePacket(a, q, u) /\ a \in Addrs /\ UNCHANGED <<client, nat>>
      BY <2>4, <3>1, OwnAddrs DEF OtherPlayer
    <3>3. Arrives(a, q, n)
      BY OtherIdsAre, OthersArrive
    <3> QED
      BY <2>2, <3>2, <3>3, HandledWell
  <2>5. OnTick => Rooms!Next
    BY DEF OnTick, Rooms!Next
  <2>6. Start \/ Stop \/ SendJoin \/ TimeOut \/ SendInput \/ SendPing \/ TimePasses =>
           UNCHANGED rooms
    BY DEF Start, Stop, SendJoin, TimeOut, SendInput, SendPing, TimePasses
  <2>7. \A d, again, a : Lose(d) \/ ClientReceives(d, again) \/ Rebind(a) => UNCHANGED rooms
    BY DEF Lose, ClientReceives, Rebind
  <2>8. UNCHANGED vars => UNCHANGED rooms
    BY DEF vars
  <2> QED
    BY <2>3, <2>4, <2>5, <2>6, <2>7, <2>8, Zenon DEF Next
<1> QED
  BY <1>1, <1>2, InductiveInvariant, PTL DEF Spec, Rooms!Spec
=============================================================================
