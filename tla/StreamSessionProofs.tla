------------------------ MODULE StreamSessionProofs -------------------------
(***************************************************************************)
(* What the operations of lightnet::Buffer do to its readable part, for    *)
(* every size of the buffer, of its headroom and of the data: it is a FIFO *)
(* queue, wherever make_space moves or grows the cells.  The proofs go     *)
(* cell by cell; the condition on kMaxCapacity is that make_space can give *)
(* the room that was asked for.                                            *)
(*                                                                         *)
(* And for every stream of requests, however long they are and wherever    *)
(* the stream is cut: the types, that answers are in order and one per     *)
(* request and that the parser takes no unit of one request for another's. *)
(***************************************************************************)
EXTENDS StreamSession, SequenceTheorems, TLAPS

-----------------------------------------------------------------------------
(* Parts of sequences *)

\* A part of a sequence, element by element.
LEMMA SubSeqOK ==
    ASSUME NEW S, NEW s \in Seq(S), NEW m \in Nat \ {0}, NEW n \in Nat,
           m <= n + 1, n <= Len(s)
    PROVE  /\ SubSeq(s, m, n) \in Seq(S)
           /\ Len(SubSeq(s, m, n)) = n - m + 1
           /\ \A i \in 1..(n - m + 1) : SubSeq(s, m, n)[i] = s[m + i - 1]
<1>1. \A i \in m..n : s[i] \in S
  BY ElementOfSeq
<1> QED
  BY <1>1, SubSeqProperties

\* The part from index r to index w, 0-based.
LEMMA Window ==
    ASSUME NEW S, NEW s \in Seq(S), NEW r \in Nat, NEW w \in Nat, r <= w, w <= Len(s)
    PROVE  /\ SubSeq(s, r + 1, w) \in Seq(S)
           /\ Len(SubSeq(s, r + 1, w)) = w - r
           /\ \A i \in 1..(w - r) : SubSeq(s, r + 1, w)[i] = s[r + i]
<1> DEFINE part == SubSeq(s, r + 1, w)
<1>1. r + 1 \in Nat \ {0} /\ r + 1 <= w + 1
  OBVIOUS
<1>2. /\ part \in Seq(S) /\ Len(part) = w - (r + 1) + 1
      /\ \A i \in 1..(w - (r + 1) + 1) : part[i] = s[(r + 1) + i - 1]
  BY <1>1, SubSeqOK
<1> HIDE DEF part
<1>3. \A i \in 1..(w - r) : part[i] = s[r + i]
  <2> TAKE i \in 1..(w - r)
  <2>1. i \in 1..(w - (r + 1) + 1) /\ (r + 1) + i - 1 = r + i
    OBVIOUS
  <2> QED
    BY <1>2, <2>1
<1>4. Len(part) = w - r
  BY <1>2
<1> QED
  BY <1>2, <1>3, <1>4 DEF part

\* Three sequences one after the other, element by element.
LEMMA ConcatThree ==
    ASSUME NEW S, NEW x \in Seq(S), NEW y \in Seq(S), NEW z \in Seq(S)
    PROVE  /\ x \o y \o z \in Seq(S)
           /\ Len(x \o y \o z) = Len(x) + Len(y) + Len(z)
           /\ \A i \in 1..Len(x) : (x \o y \o z)[i] = x[i]
           /\ \A i \in 1..Len(y) : (x \o y \o z)[Len(x) + i] = y[i]
           /\ \A i \in 1..Len(z) : (x \o y \o z)[Len(x) + Len(y) + i] = z[i]
<1>1. Len(x) \in Nat /\ Len(y) \in Nat /\ Len(z) \in Nat
  BY LenProperties
<1>2. /\ x \o y \in Seq(S) /\ Len(x \o y) = Len(x) + Len(y)
      /\ \A i \in 1..(Len(x) + Len(y)) :
            (x \o y)[i] = IF i <= Len(x) THEN x[i] ELSE y[i - Len(x)]
  BY ConcatProperties
<1> DEFINE xy == x \o y
<1>3. Len(xy) = Len(x) + Len(y)
  BY <1>2
<1>3a. xy \in Seq(S)
  BY <1>2
<1> HIDE DEF xy
<1>4. /\ xy \o z \in Seq(S) /\ Len(xy \o z) = Len(xy) + Len(z)
      /\ \A i \in 1..(Len(xy) + Len(z)) :
            (xy \o z)[i] = IF i <= Len(xy) THEN xy[i] ELSE z[i - Len(xy)]
  BY <1>3a, ConcatProperties
<1>5. /\ \A i \in 1..Len(x) : xy[i] = x[i]
      /\ \A i \in 1..Len(y) : xy[Len(x) + i] = y[i]
  <2> DEFINE lx == Len(x)
             ly == Len(y)
  <2>1. lx \in Nat /\ ly \in Nat
        /\ \A i \in 1..(lx + ly) : xy[i] = IF i <= lx THEN x[i] ELSE y[i - lx]
    BY <1>1, <1>2 DEF xy
  <2> HIDE DEF lx, ly
  <2>2. \A i \in 1..lx : xy[i] = x[i]
    BY <2>1
  <2>3. \A i \in 1..ly : xy[lx + i] = y[i]
    <3> TAKE i \in 1..ly
    <3>1. lx + i \in 1..(lx + ly) /\ ~(lx + i <= lx) /\ lx + i - lx = i
      BY <2>1
    <3> QED
      BY <2>1, <3>1
  <2> QED
    BY <2>2, <2>3 DEF lx, ly
<1>6. /\ \A i \in 1..Len(xy) : (xy \o z)[i] = xy[i]
      /\ \A i \in 1..Len(z) : (xy \o z)[Len(xy) + i] = z[i]
  <2> DEFINE lx == Len(xy)
             lz == Len(z)
             xyz == xy \o z
  <2>1. lx \in Nat /\ lz \in Nat
        /\ \A i \in 1..(lx + lz) : xyz[i] = IF i <= lx THEN xy[i] ELSE z[i - lx]
    BY <1>1, <1>3, <1>3a, <1>4
  <2> HIDE DEF lx, lz, xyz
  <2>2. \A i \in 1..lx : xyz[i] = xy[i]
    BY <2>1
  <2>3. \A i \in 1..lz : xyz[lx + i] = z[i]
    <3> TAKE i \in 1..lz
    <3>1. lx + i \in 1..(lx + lz) /\ ~(lx + i <= lx) /\ lx + i - lx = i
      BY <2>1
    <3> QED
      BY <2>1, <3>1
  <2> QED
    BY <2>2, <2>3 DEF lx, lz, xyz
<1> DEFINE lx == Len(x)
           ly == Len(y)
           lz == Len(z)
           xyz == xy \o z
<1>7. /\ lx \in Nat /\ ly \in Nat
      /\ \A i \in 1..(lx + ly) : xyz[i] = xy[i]
      /\ \A i \in 1..lz : xyz[lx + ly + i] = z[i]
      /\ \A i \in 1..lx : xy[i] = x[i]
      /\ \A i \in 1..ly : xy[lx + i] = y[i]
  BY <1>1, <1>3, <1>5, <1>6
<1> HIDE DEF lx, ly, lz, xyz
<1>8. /\ \A i \in 1..lx : xyz[i] = x[i]
      /\ \A i \in 1..ly : xyz[lx + i] = y[i]
      /\ \A i \in 1..lz : xyz[lx + ly + i] = z[i]
  BY <1>7
<1>9. xyz \in Seq(S) /\ Len(xyz) = lx + ly + lz
  BY <1>3, <1>3a, <1>4 DEF lx, ly, lz, xyz
<1> QED
  BY <1>8, <1>9 DEF lx, ly, lz, xyz, xy

\* n free cells.
LEMMA BlankOK ==
    ASSUME NEW S, Free \in S, NEW n \in Nat
    PROVE  Blank(n) \in Seq(S) /\ Len(Blank(n)) = n
BY DEF Blank

-----------------------------------------------------------------------------
(* The steps the operations are made of *)

\* Copied writes the cells of data and no other.
LEMMA CopiedOK ==
    ASSUME NEW S, NEW b, IsBuffer(b, S), NEW at \in Nat, NEW data \in Seq(S),
           at + Len(data) <= Len(b.buffer_)
    PROVE  LET c == Copied(b, at, data) IN
           /\ c \in [buffer_ : Seq(S), reader_index_ : Nat, writer_index_ : Nat]
           /\ Len(c.buffer_) = Len(b.buffer_)
           /\ c.reader_index_ = b.reader_index_ /\ c.writer_index_ = b.writer_index_
           /\ \A i \in 1..Len(b.buffer_) :
                c.buffer_[i] = IF at < i /\ i <= at + Len(data) THEN data[i - at]
                               ELSE b.buffer_[i]
<1> DEFINE s == b.buffer_
           n == Len(data)
           front == SubSeq(s, 1, at)
           back  == SubSeq(s, at + n + 1, Len(s))
<1>1. s \in Seq(S) /\ Len(s) \in Nat /\ n \in Nat
  BY LenProperties DEF IsBuffer
<1>2. front \in Seq(S) /\ Len(front) = at /\ \A i \in 1..at : front[i] = s[i]
  BY <1>1, SubSeqOK
<1>3. /\ back \in Seq(S) /\ Len(back) = Len(s) - at - n
      /\ \A i \in 1..(Len(s) - at - n) : back[i] = s[at + n + i]
  BY <1>1, SubSeqOK
<1> DEFINE cells == front \o data \o back
<1> HIDE DEF s, front, back
<1>4. front \in Seq(S) /\ data \in Seq(S) /\ back \in Seq(S)
  BY <1>2, <1>3
<1>5. /\ cells \in Seq(S) /\ Len(cells) = Len(front) + n + Len(back)
      /\ \A i \in 1..Len(front) : cells[i] = front[i]
      /\ \A i \in 1..n : cells[Len(front) + i] = data[i]
      /\ \A i \in 1..Len(back) : cells[Len(front) + n + i] = back[i]
  BY <1>4, ConcatThree
<1> HIDE DEF cells, n
<1>6. /\ cells \in Seq(S) /\ Len(cells) = Len(s)
      /\ \A i \in 1..Len(s) :
            cells[i] = IF at < i /\ i <= at + n THEN data[i - at] ELSE s[i]
  <2>1. /\ Len(cells) = Len(s)
        /\ \A i \in 1..at : cells[i] = s[i]
        /\ \A i \in 1..n : cells[at + i] = data[i]
        /\ \A i \in 1..(Len(s) - at - n) : cells[at + n + i] = s[at + n + i]
    <3>1. Len(cells) = Len(s)
      BY <1>1, <1>2, <1>3, <1>5
    <3>2. \A i \in 1..at : cells[i] = s[i]
      BY <1>2, <1>5
    <3>3. \A i \in 1..n : cells[at + i] = data[i]
      BY <1>2, <1>5
    <3>4. \A i \in 1..(Len(s) - at - n) : cells[at + n + i] = back[i]
      BY <1>2, <1>3, <1>5
    <3> QED
      BY <1>3, <3>1, <3>2, <3>3, <3>4
  <2>2. ASSUME NEW i \in 1..Len(s)
        PROVE  cells[i] = IF at < i /\ i <= at + n THEN data[i - at] ELSE s[i]
    <3>1. CASE i <= at
      BY <1>1, <2>1, <3>1
    <3>2. CASE at < i /\ i <= at + n
      <4>1. i - at \in 1..n /\ at + (i - at) = i
        BY <1>1, <3>2
      <4> QED
        BY <2>1, <3>2, <4>1
    <3>3. CASE at + n < i
      <4> DEFINE k == i - at - n
      <4>1. k \in 1..(Len(s) - at - n) /\ at + n + k = i
        BY <1>1, <3>3
      <4> HIDE DEF k
      <4>2. cells[i] = s[i]
        BY <2>1, <4>1
      <4> QED
        BY <1>1, <3>3, <4>2
    <3> QED
      BY <1>1, <3>1, <3>2, <3>3
  <2> QED
    BY <1>5, <2>1, <2>2
<1>7. Copied(b, at, data) =
        [buffer_ |-> cells,
         reader_index_ |-> b.reader_index_, writer_index_ |-> b.writer_index_]
  BY DEF Copied, cells, s, n, front, back
<1>8. b.reader_index_ \in Nat /\ b.writer_index_ \in Nat
  BY DEF IsBuffer
<1> QED
  BY <1>6, <1>7, <1>8 DEF s, n

\* Narrowing the indices keeps the cells between them.
LEMMA WithIndicesOK ==
    ASSUME NEW S, Free \in S, NEW b, IsBuffer(b, S), NEW reader \in Nat, NEW writer \in Nat,
           kCheapPrepend <= reader, reader <= writer, writer <= Len(b.buffer_)
    PROVE  /\ IsBuffer(WithIndices(b, reader, writer), S)
           /\ Len(WithIndices(b, reader, writer).buffer_) = Len(b.buffer_)
           /\ peek(WithIndices(b, reader, writer)) = SubSeq(b.buffer_, reader + 1, writer)
<1> DEFINE s == b.buffer_
           mid == SubSeq(s, reader + 1, writer)
           c == WithIndices(b, reader, writer)
<1>1. s \in Seq(S) /\ Len(s) \in Nat
  BY LenProperties DEF IsBuffer
<1>2. mid \in Seq(S) /\ Len(mid) = writer - reader
  BY <1>1, SubSeqOK
<1>3. /\ Blank(reader) \in Seq(S) /\ Len(Blank(reader)) = reader
      /\ Blank(Len(s) - writer) \in Seq(S) /\ Len(Blank(Len(s) - writer)) = Len(s) - writer
  BY <1>1, BlankOK
<1> HIDE DEF mid
<1> DEFINE cells == Blank(reader) \o mid \o Blank(Len(s) - writer)
<1>4. mid \in Seq(S) /\ Blank(reader) \in Seq(S) /\ Blank(Len(s) - writer) \in Seq(S)
  BY <1>2, <1>3
<1>5. /\ cells \in Seq(S)
      /\ Len(cells) = Len(Blank(reader)) + Len(mid) + Len(Blank(Len(s) - writer))
      /\ \A i \in 1..Len(mid) : cells[Len(Blank(reader)) + i] = mid[i]
  BY <1>4, ConcatThree
<1> HIDE DEF cells
<1>6. /\ c = [buffer_ |-> cells, reader_index_ |-> reader, writer_index_ |-> writer]
      /\ cells \in Seq(S) /\ Len(cells) = Len(s)
      /\ \A i \in 1..(writer - reader) : cells[reader + i] = mid[i]
  <2>1. c = [buffer_ |-> cells, reader_index_ |-> reader, writer_index_ |-> writer]
    BY DEF WithIndices, mid, cells
  <2>2. cells \in Seq(S) /\ Len(cells) = Len(s)
    BY <1>1, <1>2, <1>3, <1>5
  <2>3. \A i \in 1..(writer - reader) : cells[reader + i] = mid[i]
    BY <1>2, <1>3, <1>5
  <2> QED
    BY <2>1, <2>2, <2>3
<1>7. peek(c) = mid
  <2>1. peek(c) = SubSeq(cells, reader + 1, writer)
    BY <1>6, SMTT(30) DEF peek
  <2>2. /\ SubSeq(cells, reader + 1, writer) \in Seq(S)
        /\ Len(SubSeq(cells, reader + 1, writer)) = writer - reader
        /\ \A i \in 1..(writer - reader) :
              SubSeq(cells, reader + 1, writer)[i] = cells[reader + i]
    BY <1>1, <1>6, Window
  <2> QED
    BY <1>2, <1>6, <2>1, <2>2, SeqEqual, ZenonT(60)
<1> QED
  BY <1>1, <1>6, <1>7 DEF IsBuffer, mid

\* Written appends data to the readable part when there is room for it.
LEMMA WrittenOK ==
    ASSUME NEW S, NEW b, IsBuffer(b, S), NEW data \in Seq(S), Len(data) <= writable_bytes(b)
    PROVE  /\ IsBuffer(Written(b, data), S)
           /\ peek(Written(b, data)) = peek(b) \o data
<1> DEFINE s == b.buffer_
           r == b.reader_index_
           w == b.writer_index_
           n == Len(data)
           c == Copied(b, w, data)
           d == Written(b, data)
<1>1. /\ s \in Seq(S) /\ Len(s) \in Nat /\ n \in Nat /\ r \in Nat /\ w \in Nat
      /\ r <= w /\ w + n <= Len(s) /\ kCheapPrepend <= r
  BY LenProperties DEF IsBuffer, writable_bytes
<1> HIDE DEF s, r, w, n
<1>2. /\ c \in [buffer_ : Seq(S), reader_index_ : Nat, writer_index_ : Nat]
      /\ Len(c.buffer_) = Len(s) /\ c.reader_index_ = r /\ c.writer_index_ = w
      /\ \A i \in 1..Len(s) :
            c.buffer_[i] = IF w < i /\ i <= w + n THEN data[i - w] ELSE s[i]
  BY <1>1, CopiedOK DEF s, r, w, n
<1> HIDE DEF c
<1>3. /\ d = [buffer_ |-> c.buffer_, reader_index_ |-> r, writer_index_ |-> w + n]
      /\ d \in [buffer_ : Seq(S), reader_index_ : Nat, writer_index_ : Nat]
      /\ d.buffer_ = c.buffer_ /\ d.reader_index_ = r /\ d.writer_index_ = w + n
  BY <1>1, <1>2 DEF Written, c, r, w, n
<1> HIDE DEF d
<1>4. /\ peek(d) \in Seq(S) /\ Len(peek(d)) = w + n - r
      /\ \A i \in 1..(w + n - r) : peek(d)[i] = c.buffer_[r + i]
  <2>1. peek(d) = SubSeq(c.buffer_, r + 1, w + n)
    BY <1>3 DEF peek
  <2>2. c.buffer_ \in Seq(S) /\ w + n \in Nat /\ r <= w + n /\ w + n <= Len(c.buffer_)
    BY <1>1, <1>2
  <2> QED
    BY <1>1, <2>1, <2>2, Window
<1>5. /\ peek(b) \in Seq(S) /\ Len(peek(b)) = w - r
      /\ \A i \in 1..(w - r) : peek(b)[i] = s[r + i]
  <2>1. peek(b) = SubSeq(s, r + 1, w)
    BY DEF peek, s, r, w
  <2> QED
    BY <1>1, <2>1, Window
<1>5a. peek(b) \in Seq(S) /\ data \in Seq(S)
  BY <1>5
<1>5b. /\ peek(b) \o data \in Seq(S) /\ Len(peek(b) \o data) = Len(peek(b)) + Len(data)
       /\ \A i \in 1..(Len(peek(b)) + Len(data)) :
            (peek(b) \o data)[i] =
                IF i <= Len(peek(b)) THEN peek(b)[i] ELSE data[i - Len(peek(b))]
  BY <1>5a, ConcatProperties
<1>6. /\ peek(b) \o data \in Seq(S) /\ Len(peek(b) \o data) = w + n - r
      /\ \A i \in 1..(w + n - r) :
            (peek(b) \o data)[i] = IF i <= w - r THEN peek(b)[i] ELSE data[i - (w - r)]
  BY <1>1, <1>5, <1>5b, SMTT(30) DEF n
<1> DEFINE cells == c.buffer_
           after == peek(d)
           before == peek(b)
           wanted == before \o data
<1>6a. /\ \A i \in 1..Len(s) : cells[i] = IF w < i /\ i <= w + n THEN data[i - w] ELSE s[i]
       /\ \A i \in 1..(w + n - r) : after[i] = cells[r + i]
       /\ \A i \in 1..(w - r) : before[i] = s[r + i]
       /\ \A i \in 1..(w + n - r) :
            wanted[i] = IF i <= w - r THEN before[i] ELSE data[i - (w - r)]
  BY <1>2, <1>4, <1>5, <1>6
<1> HIDE DEF cells, after, before, wanted
<1>7. \A i \in 1..(w + n - r) : after[i] = wanted[i]
  <2> TAKE i \in 1..(w + n - r)
  <2>1. PICK j \in 1..Len(s) : j = r + i
    BY <1>1
  <2>2. after[i] = cells[j]
    BY <1>6a, <2>1, Zenon
  <2>3. cells[j] = IF w < j /\ j <= w + n THEN data[j - w] ELSE s[j]
    BY <1>6a, Zenon
  <2>4. wanted[i] = IF i <= w - r THEN before[i] ELSE data[i - (w - r)]
    BY <1>6a, Zenon
  <2>5. CASE i <= w - r
    <3>1. ~(w < j) /\ i \in 1..(w - r)
      BY <1>1, <2>1, <2>5
    <3>2. before[i] = s[j]
      BY <1>6a, <2>1, <3>1, Zenon
    <3> QED
      BY <2>2, <2>3, <2>4, <2>5, <3>1, <3>2, Zenon
  <2>6. CASE ~(i <= w - r)
    <3>1. w < j /\ j <= w + n /\ j - w = i - (w - r)
      BY <1>1, <2>1, <2>6
    <3> QED
      BY <2>2, <2>3, <2>4, <2>6, <3>1, Zenon
  <2> QED
    BY <2>5, <2>6
<1> USE DEF cells, after, before, wanted
<1>8. peek(d) = peek(b) \o data
  BY <1>1, <1>4, <1>6, <1>7, SeqEqual
<1> QED
  BY <1>1, <1>2, <1>3, <1>8, SMTT(30) DEF IsBuffer, d

-----------------------------------------------------------------------------
(* The operations *)

\* A new buffer is well formed and empty.
THEOREM NewBufferEmpty ==
    ASSUME NEW S, Free \in S
    PROVE  IsBuffer(NewBuffer, S) /\ peek(NewBuffer) = << >>
<1>1. /\ Blank(kCheapPrepend + kInitialSize) \in Seq(S)
      /\ Len(Blank(kCheapPrepend + kInitialSize)) = kCheapPrepend + kInitialSize
  BY BlankOK, BufferAssumption DEF BufferAssumption
<1>2. IsBuffer(NewBuffer, S)
  BY <1>1, BufferAssumption DEF BufferAssumption, IsBuffer, NewBuffer
<1>3. peek(NewBuffer) = << >>
  BY SubSeqEmpty, BufferAssumption DEF BufferAssumption, peek, NewBuffer
<1> QED
  BY <1>2, <1>3

\* retrieve(len) takes the first len elements away, all of them if there are no
\* more than len.
THEOREM RetrieveTakesFirst ==
    ASSUME NEW S, Free \in S, NEW b, IsBuffer(b, S), NEW len \in Nat
    PROVE  /\ IsBuffer(retrieve(b, len), S)
           /\ peek(retrieve(b, len)) = SubSeq(peek(b), len + 1, Len(peek(b)))
<1> DEFINE s == b.buffer_
           r == b.reader_index_
           w == b.writer_index_
<1>1. /\ s \in Seq(S) /\ Len(s) \in Nat /\ r \in Nat /\ w \in Nat
      /\ r <= w /\ w <= Len(s) /\ kCheapPrepend <= r /\ kCheapPrepend \in Nat
  BY LenProperties, BufferAssumption DEF IsBuffer, BufferAssumption
<1> HIDE DEF s, r, w
<1>2. peek(b) = SubSeq(s, r + 1, w)
  BY DEF peek, s, r, w
<1>3. /\ peek(b) \in Seq(S) /\ Len(peek(b)) = w - r
      /\ \A i \in 1..(w - r) : peek(b)[i] = s[r + i]
  BY <1>1, <1>2, Window
<1>4. CASE len < w - r
  <2>1. retrieve(b, len) = WithIndices(b, r + len, w)
    BY <1>4 DEF retrieve, readable_bytes, r, w
  <2>2. r + len \in Nat /\ r + len <= w /\ kCheapPrepend <= r + len
    BY <1>1, <1>4
  <2>3. /\ IsBuffer(retrieve(b, len), S)
        /\ peek(retrieve(b, len)) = SubSeq(s, (r + len) + 1, w)
    BY <1>1, <2>1, <2>2, WithIndicesOK DEF s
  <2> DEFINE rest == SubSeq(s, (r + len) + 1, w)
             p == peek(b)
             tail == SubSeq(p, len + 1, w - r)
  <2>4. /\ rest \in Seq(S) /\ Len(rest) = w - (r + len)
        /\ \A i \in 1..(w - (r + len)) : rest[i] = s[(r + len) + i]
    BY <1>1, <2>2, Window, SMTT(30)
  <2>5. w - r \in Nat /\ len <= w - r /\ w - r <= Len(peek(b))
    BY <1>1, <1>3, <1>4
  <2>6. /\ tail \in Seq(S) /\ Len(tail) = (w - r) - len
        /\ \A i \in 1..((w - r) - len) : tail[i] = p[len + i]
    BY <1>3, <2>5, Window
  <2>7. \A i \in 1..(w - r) : p[i] = s[r + i]
    BY <1>3
  <2> HIDE DEF rest, tail, p
  <2>8. \A i \in 1..Len(rest) : rest[i] = tail[i]
    <3> TAKE i \in 1..Len(rest)
    <3>1. i \in 1..((w - r) - len) /\ i \in 1..(w - (r + len)) /\ len + i \in 1..(w - r)
      BY <1>1, <2>2, <2>4
    <3>2. rest[i] = s[(r + len) + i] /\ tail[i] = p[len + i] /\ p[len + i] = s[r + (len + i)]
      BY <2>4, <2>6, <2>7, <3>1, Zenon
    <3>3. (r + len) + i = r + (len + i)
      BY <1>1, <3>1
    <3> QED
      BY <3>2, <3>3
  <2>9. rest = tail
    <3>1. Len(rest) = Len(tail)
      BY <1>1, <2>4, <2>6
    <3> QED
      BY <2>4, <2>6, <2>8, <3>1, SeqEqual, Zenon
  <2> QED
    BY <1>3, <2>3, <2>9 DEF rest, tail, p
<1>5. CASE ~(len < w - r)
  <2>1. retrieve(b, len) = WithIndices(b, kCheapPrepend, kCheapPrepend)
    BY <1>5 DEF retrieve, retrieve_all, readable_bytes, r, w
  <2>2. kCheapPrepend <= kCheapPrepend /\ kCheapPrepend <= Len(s)
    BY <1>1
  <2>3. /\ IsBuffer(retrieve(b, len), S)
        /\ peek(retrieve(b, len)) = SubSeq(s, kCheapPrepend + 1, kCheapPrepend)
    BY <1>1, <2>1, <2>2, WithIndicesOK DEF s
  <2>4. SubSeq(s, kCheapPrepend + 1, kCheapPrepend) = << >>
    BY <1>1, SubSeqEmpty
  <2>5. SubSeq(peek(b), len + 1, Len(peek(b))) = << >>
    <3>1. Len(peek(b)) < len + 1 /\ Len(peek(b)) \in Int /\ len + 1 \in Int
      BY <1>1, <1>3, <1>5
    <3> QED
      BY <3>1, SubSeqEmpty
  <2> QED
    BY <2>3, <2>4, <2>5
<1> QED
  BY <1>4, <1>5

\* make_space gives the room asked for, unless that takes more than kMaxCapacity,
\* and keeps what is readable.
LEMMA MakeSpaceOK ==
    ASSUME NEW S, Free \in S, NEW b, IsBuffer(b, S), NEW len \in Nat,
           writable_bytes(b) < len, b.writer_index_ + len <= kMaxCapacity
    PROVE  /\ IsBuffer(make_space(b, len), S)
           /\ peek(make_space(b, len)) = peek(b)
           /\ len <= writable_bytes(make_space(b, len))
<1> DEFINE s == b.buffer_
           r == b.reader_index_
           w == b.writer_index_
           k == kCheapPrepend
           p == peek(b)
<1>1. /\ s \in Seq(S) /\ Len(s) \in Nat /\ r \in Nat /\ w \in Nat /\ k \in Nat
      /\ r <= w /\ w <= Len(s) /\ k <= r
      /\ Len(s) - w < len /\ w + len <= kMaxCapacity /\ kMaxCapacity \in Nat
  BY LenProperties, BufferAssumption DEF IsBuffer, BufferAssumption, writable_bytes
<1>2. /\ b \in [buffer_ : Seq(S), reader_index_ : Nat, writer_index_ : Nat]
      /\ writable_bytes(b) + prependable_bytes(b) < len + kCheapPrepend
            <=> (Len(s) - w) + r < len + k
      /\ readable_bytes(b) = w - r
  BY DEF IsBuffer, writable_bytes, prependable_bytes, readable_bytes
<1> HIDE DEF s, r, w, k, p
<1>3. /\ p \in Seq(S) /\ Len(p) = w - r
      /\ \A i \in 1..(w - r) : p[i] = s[r + i]
  <2>1. p = SubSeq(s, r + 1, w)
    BY DEF p, peek, s, r, w
  <2> QED
    BY <1>1, <2>1, Window, SMTT(30)
<1>4. CASE (Len(s) - w) + r < len + k
  <2> DEFINE more  == Blank((w + len) - Len(s))
             cells == s \o more
             c     == make_space(b, len)
  <2>1. c = [buffer_ |-> cells, reader_index_ |-> r, writer_index_ |-> w]
    <3>1. ~(w + len > kMaxCapacity)
      BY <1>1
    <3>2. c = resize(b, w + len)
      BY <1>2, <1>4, <3>1 DEF make_space, w
    <3> QED
      BY <3>2 DEF resize, s, r, w
  <2>2. more \in Seq(S) /\ Len(more) = (w + len) - Len(s)
    <3>1. (w + len) - Len(s) \in Nat
      BY <1>1
    <3> QED
      BY <3>1, BlankOK
  <2> HIDE DEF more, c
  <2>3. /\ cells \in Seq(S) /\ Len(cells) = Len(s) + Len(more)
        /\ \A i \in 1..(Len(s) + Len(more)) :
              cells[i] = IF i <= Len(s) THEN s[i] ELSE more[i - Len(s)]
    BY <1>1, <2>2, ConcatProperties
  <2> HIDE DEF cells
  <2>4. Len(cells) = w + len /\ \A i \in 1..Len(s) : cells[i] = s[i]
    BY <1>1, <2>2, <2>3
  <2>5. IsBuffer(c, S) /\ writable_bytes(c) = len
    BY <1>1, <2>1, <2>3, <2>4, SMTT(30) DEF IsBuffer, writable_bytes, k
  <2>6. peek(c) = SubSeq(cells, r + 1, w)
    BY <2>1 DEF peek
  <2>7. w <= Len(cells)
    BY <1>1, <2>4
  <2>8. /\ peek(c) \in Seq(S) /\ Len(peek(c)) = w - r
        /\ \A i \in 1..(w - r) : peek(c)[i] = cells[r + i]
    <3>1. cells \in Seq(S) /\ r \in Nat /\ w \in Nat /\ r <= w /\ w <= Len(cells)
      BY <1>1, <2>3, <2>7
    <3>2. /\ SubSeq(cells, r + 1, w) \in Seq(S) /\ Len(SubSeq(cells, r + 1, w)) = w - r
          /\ \A i \in 1..(w - r) : SubSeq(cells, r + 1, w)[i] = cells[r + i]
      BY <3>1, Window, Zenon
    <3> QED
      BY <2>6, <3>2, Zenon
  <2>9. \A i \in 1..(w - r) : cells[r + i] = p[i]
    <3> TAKE i \in 1..(w - r)
    <3>1. r + i \in 1..Len(s)
      BY <1>1
    <3>2. cells[r + i] = s[r + i]
      BY <2>4, <3>1, Zenon
    <3>3. p[i] = s[r + i]
      BY <1>3, Zenon
    <3> QED
      BY <3>2, <3>3, Zenon
  <2>10. peek(c) = p
    BY <1>3, <2>8, <2>9, SeqEqual
  <2> QED
    BY <2>5, <2>10 DEF c, p
<1>5. CASE ~((Len(s) - w) + r < len + k)
  <2> DEFINE m == k + (w - r)
             d == Copied(b, k, p)
             c == make_space(b, len)
  <2>1. m \in Nat /\ k <= m /\ m <= w /\ m <= Len(s) /\ m + len <= Len(s) /\ m - k = w - r
    BY <1>1, <1>5
  <2>2. c = WithIndices(d, k, m)
    BY <1>2, <1>5 DEF make_space, k, p
  <2>3. k + Len(p) <= Len(s)
    BY <1>3, <2>1
  <2>4. /\ d \in [buffer_ : Seq(S), reader_index_ : Nat, writer_index_ : Nat]
        /\ Len(d.buffer_) = Len(s) /\ d.reader_index_ = r /\ d.writer_index_ = w
        /\ \A i \in 1..Len(s) :
              d.buffer_[i] = IF k < i /\ i <= k + Len(p) THEN p[i - k] ELSE s[i]
    <3>1. k \in Nat /\ p \in Seq(S) /\ k + Len(p) <= Len(b.buffer_)
      BY <1>1, <1>3, <2>3 DEF s
    <3> QED
      BY <3>1, CopiedOK DEF s, r, w
  <2> HIDE DEF d, c, m
  <2>5. IsBuffer(d, S)
    BY <1>1, <2>4 DEF IsBuffer, k
  <2>6. /\ IsBuffer(c, S) /\ Len(c.buffer_) = Len(s)
        /\ peek(c) = SubSeq(d.buffer_, k + 1, m)
    <3>1. /\ k \in Nat /\ m \in Nat /\ kCheapPrepend <= k /\ k <= m
          /\ m <= Len(d.buffer_)
      BY <1>1, <2>1, <2>4 DEF k
    <3> QED
      BY <2>2, <2>4, <2>5, <3>1, WithIndicesOK, Zenon
  <2>7. len <= writable_bytes(c)
    <3>1. c.writer_index_ = m
      BY <2>2 DEF WithIndices
    <3> QED
      BY <1>1, <2>1, <2>6, <3>1 DEF writable_bytes
  <2>8. d.buffer_ \in Seq(S) /\ m <= Len(d.buffer_)
    BY <2>1, <2>4
  <2>9. /\ peek(c) \in Seq(S) /\ Len(peek(c)) = m - k
        /\ \A i \in 1..(m - k) : peek(c)[i] = d.buffer_[k + i]
    <3>1. k \in Nat /\ m \in Nat /\ k <= m
      BY <1>1, <2>1
    <3>2. /\ SubSeq(d.buffer_, k + 1, m) \in Seq(S) /\ Len(SubSeq(d.buffer_, k + 1, m)) = m - k
          /\ \A i \in 1..(m - k) : SubSeq(d.buffer_, k + 1, m)[i] = d.buffer_[k + i]
      BY <2>8, <3>1, Window, ZenonT(60)
    <3> QED
      BY <2>6, <3>2, Zenon
  <2>10. \A i \in 1..(w - r) : d.buffer_[k + i] = p[i]
    <3> TAKE i \in 1..(w - r)
    <3>1. k + i \in 1..Len(s) /\ k < k + i /\ k + i <= k + Len(p) /\ (k + i) - k = i
      BY <1>1, <1>3, <2>3
    <3> QED
      BY <2>4, <3>1
  <2>11. peek(c) = p
    BY <1>3, <2>1, <2>9, <2>10, SeqEqual
  <2> QED
    BY <2>6, <2>7, <2>11 DEF c, p
<1> QED
  BY <1>4, <1>5

\* append(data) puts data after what is readable, in whichever way it finds room.
THEOREM AppendIsLast ==
    ASSUME NEW S, Free \in S, NEW b, IsBuffer(b, S), NEW data \in Seq(S),
           b.writer_index_ + Len(data) <= kMaxCapacity
    PROVE  /\ IsBuffer(append(b, data), S)
           /\ peek(append(b, data)) = peek(b) \o data
<1> DEFINE c == ensure_writable(b, Len(data))
<1>1. Len(data) \in Nat
  BY LenProperties
<1>2. IsBuffer(c, S) /\ peek(c) = peek(b) /\ Len(data) <= writable_bytes(c)
  <2>1. CASE writable_bytes(b) < Len(data)
    <3>1. c = make_space(b, Len(data))
      BY <2>1 DEF ensure_writable
    <3> QED
      BY <1>1, <2>1, <3>1, MakeSpaceOK
  <2>2. CASE ~(writable_bytes(b) < Len(data))
    <3>1. c = b
      BY <2>2 DEF ensure_writable
    <3>2. writable_bytes(b) \in Int
      BY LenProperties DEF IsBuffer, writable_bytes
    <3> QED
      BY <1>1, <2>2, <3>1, <3>2
  <2> QED
    BY <2>1, <2>2
<1>3. append(b, data) = Written(c, data)
  BY DEF append
<1> HIDE DEF c
<1> QED
  BY <1>2, <1>3, WrittenOK

\* read_fd puts what readv returned after what is readable, with or without the
\* detour of its end through extrabuf.
THEOREM ReadFdIsLast ==
    ASSUME NEW S, Free \in S, NEW b, IsBuffer(b, S), NEW data \in Seq(S),
           b.writer_index_ + Len(data) <= kMaxCapacity
    PROVE  /\ IsBuffer(read_fd(b, data), S)
           /\ peek(read_fd(b, data)) = peek(b) \o data
<1> DEFINE n == writable_bytes(b)
<1>1. n \in Nat /\ Len(data) \in Nat /\ b.writer_index_ \in Nat
  BY LenProperties DEF IsBuffer, writable_bytes
<1> HIDE DEF n
<1>2. CASE Len(data) <= n
  BY <1>2, WrittenOK DEF read_fd, n
<1>3. CASE ~(Len(data) <= n)
  <2> DEFINE first == SubSeq(data, 1, n)
             rest  == SubSeq(data, n + 1, Len(data))
             c     == Written(b, first)
  <2>1. read_fd(b, data) = append(c, rest)
    BY <1>3 DEF read_fd, n
  <2>2. first \in Seq(S) /\ Len(first) = n
    BY <1>1, <1>3, SubSeqOK
  <2>3. rest \in Seq(S) /\ Len(rest) = Len(data) - n
    <3>1. n <= Len(data)
      BY <1>1, <1>3
    <3> QED
      BY <1>1, <3>1, Window
  <2>4. first \o rest = data
    <3>1. /\ 1 \in 1..(Len(data) + 1) /\ n \in (1 - 1)..Len(data)
          /\ Len(data) \in n..Len(data)
      BY <1>1, <1>3
    <3>2. first \o rest = SubSeq(data, 1, Len(data))
      BY <3>1, ConcatAdjacentSubSeq, Zenon
    <3> QED
      BY <3>2, SubSeqFull
  <2> HIDE DEF first, rest
  <2>5. IsBuffer(c, S) /\ peek(c) = peek(b) \o first
    <3>1. Len(first) <= writable_bytes(b)
      BY <1>1, <2>2 DEF n
    <3> QED
      BY <2>2, <3>1, WrittenOK
  <2>6. c.writer_index_ = b.writer_index_ + n
    BY <2>2 DEF Written
  <2>7. c.writer_index_ + Len(rest) <= kMaxCapacity
    BY <1>1, <1>3, <2>3, <2>6, BufferAssumption DEF BufferAssumption
  <2> HIDE DEF c
  <2>8. /\ IsBuffer(append(c, rest), S)
        /\ peek(append(c, rest)) = peek(c) \o rest
    BY <2>3, <2>5, <2>7, AppendIsLast
  <2>9. peek(b) \in Seq(S)
    <3>1. /\ b.buffer_ \in Seq(S) /\ b.reader_index_ \in Nat
          /\ b.reader_index_ <= b.writer_index_ /\ b.writer_index_ <= Len(b.buffer_)
      BY DEF IsBuffer
    <3> QED
      BY <1>1, <3>1, Window DEF peek
  <2>10. (peek(b) \o first) \o rest = peek(b) \o (first \o rest)
    <3>1. first \in Seq(S) /\ rest \in Seq(S)
      BY <2>2, <2>3
    <3> QED
      BY <2>9, <3>1, ConcatAssociative
  <2> QED
    BY <2>1, <2>4, <2>5, <2>8, <2>10
<1> QED
  BY <1>2, <1>3

-----------------------------------------------------------------------------
(* Sequences *)

LEMMA Regroup ==
  ASSUME NEW a \in Seq(Units), NEW b \in Seq(Units), NEW c \in Seq(Units)
  PROVE  (a \o b) \o c = a \o (b \o c)
BY ConcatAssociative

LEMMA RegroupLeft ==
  ASSUME NEW c \in Seq(Units), NEW z \in Seq(Units)
  PROVE  \A x \in Seq(Units) : (x \o c) \o z = x \o (c \o z)
BY ConcatAssociative

LEMMA EmptyConcat ==
  ASSUME NEW s \in Seq(Units)
  PROVE  << >> \o s = s /\ s \o << >> = s /\ << >> \in Seq(Units)
<1>1. << >> \o s = s /\ s \o << >> = s
  BY ConcatEmptySeq, Zenon
<1>2. << >> \in Seq(Units)
  OBVIOUS
<1> QED
  BY <1>1, <1>2

\* s is a and then b, element by element.
Joined(a, b, s) ==
    /\ Len(a) \in Nat /\ Len(b) \in Nat /\ Len(s) = Len(a) + Len(b)
    /\ \A i \in 1..Len(a) : s[i] = a[i]
    /\ \A i \in 1..Len(b) : s[Len(a) + i] = b[i]

LEMMA ConcatAt ==
  ASSUME NEW a \in Seq(Units), NEW b \in Seq(Units), NEW s \in Seq(Units), s = a \o b
  PROVE  Joined(a, b, s)
<1>1. PICK m, n : m = Len(a) /\ n = Len(b)
  OBVIOUS
<1>2. m \in Nat /\ n \in Nat
  BY <1>1, LenProperties
<1>3. /\ s \in Seq(Units) /\ Len(s) = m + n
      /\ \A i \in 1..(m + n) : s[i] = IF i <= m THEN a[i] ELSE b[i - m]
  BY <1>1, ConcatProperties
<1>4. \A i \in 1..m : s[i] = a[i]
  BY <1>2, <1>3
<1>5. \A i \in 1..n : s[m + i] = b[i]
  <2> TAKE i \in 1..n
  <2>1. m + i \in 1..(m + n) /\ ~(m + i <= m) /\ (m + i) - m = i
    BY <1>2
  <2> QED
    BY <1>3, <2>1
<1> QED
  BY <1>1, <1>2, <1>3, <1>4, <1>5 DEF Joined

\* Two sequences of one length with the same elements.
LEMMA SameSeq ==
  ASSUME NEW s \in Seq(Units), NEW t \in Seq(Units), Len(s) = Len(t),
         \A i \in 1..Len(s) : s[i] = t[i]
  PROVE  s = t
BY SeqEqual

\* t is s from after its k-th element to its n-th.
Slice(s, k, n, t) ==
    /\ t = SubSeq(s, k + 1, n) /\ t \in Seq(Units) /\ Len(t) = n - k
    /\ \A i \in 1..(n - k) : t[i] = s[k + i]

LEMMA Sliced ==
  ASSUME NEW s \in Seq(Units), NEW k \in Nat, NEW n \in Nat, k <= n, n <= Len(s)
  PROVE  Slice(s, k, n, SubSeq(s, k + 1, n))
<1>1. /\ SubSeq(s, k + 1, n) \in Seq(Units)
      /\ Len(SubSeq(s, k + 1, n)) = n - k
      /\ \A i \in 1..(n - k) : SubSeq(s, k + 1, n)[i] = s[k + i]
  BY Window, Zenon
<1> QED
  BY <1>1, Zenon DEF Slice

LEMMA SlicedFirst ==
  ASSUME NEW s \in Seq(Units), NEW n \in Nat, n <= Len(s)
  PROVE  Slice(s, 0, n, SubSeq(s, 1, n))
<1>1. 0 \in Nat /\ 0 <= n /\ 0 + 1 = 1
  OBVIOUS
<1>2. Slice(s, 0, n, SubSeq(s, 0 + 1, n))
  BY <1>1, Sliced, Zenon
<1> QED
  BY <1>1, <1>2, Zenon

\* The stream is buf and then w, and begins with b, which has arrived: after b is t.
Cut(buf, w, b, t) ==
    /\ SubSeq(buf, 1, Len(b)) = b
    /\ SubSeq(buf, Len(b) + 1, Len(buf)) \in Seq(Units)
    /\ SubSeq(buf, Len(b) + 1, Len(buf)) \o w = t

LEMMA PrefixTaken ==
  ASSUME NEW buf \in Seq(Units), NEW w \in Seq(Units), NEW b \in Seq(Units), NEW t \in Seq(Units),
         buf \o w = b \o t, Len(b) <= Len(buf)
  PROVE  Cut(buf, w, b, t)
<1>1. PICK s \in Seq(Units), k \in Nat, n \in Nat, m \in Nat, l \in Nat : /\ s = buf \o w /\ s = b \o t
                           /\ k = Len(b) /\ n = Len(buf) /\ m = Len(w) /\ l = Len(t)
  BY ConcatProperties, LenProperties
<1>2. /\ k \in Nat /\ n \in Nat /\ m \in Nat /\ l \in Nat /\ k <= n /\ n + m = k + l
      /\ \A i \in 1..n : s[i] = buf[i]
      /\ \A i \in 1..m : s[n + i] = w[i]
      /\ \A i \in 1..k : s[i] = b[i]
      /\ \A i \in 1..l : s[k + i] = t[i]
  <2>1. Joined(buf, w, s)
    BY <1>1, ConcatAt, Zenon
  <2>2. Joined(b, t, s)
    BY <1>1, ConcatAt, Zenon
  <2> QED
    BY <1>1, <2>1, <2>2 DEF Joined
<1>3. PICK x, y : x = SubSeq(buf, 1, k) /\ y = SubSeq(buf, k + 1, n)
  OBVIOUS
<1>4. x \in Seq(Units) /\ Len(x) = k /\ \A i \in 1..k : x[i] = buf[i]
  <2>1. Slice(buf, 0, k, x)
    <3>1. k <= Len(buf)
      BY <1>1
    <3> QED
      BY <1>2, <1>3, <3>1, SlicedFirst, Zenon
  <2>2. /\ x \in Seq(Units) /\ Len(x) = k - 0
        /\ \A i \in 1..(k - 0) : x[i] = buf[0 + i]
    BY <2>1, Zenon DEF Slice
  <2> QED
    BY <1>2, <2>2
<1>5. y \in Seq(Units) /\ Len(y) = n - k /\ \A i \in 1..(n - k) : y[i] = buf[k + i]
  <2>1. k <= n /\ n <= Len(buf)
    BY <1>1, <1>2
  <2>2. Slice(buf, k, n, y)
    BY <1>2, <1>3, <2>1, Sliced, Zenon
  <2> QED
    BY <2>2, Zenon DEF Slice
<1>6. x = b
  <2>1. \A i \in 1..k : x[i] = b[i]
    <3> TAKE i \in 1..k
    <3>1. i \in 1..n
      BY <1>2
    <3> QED
      BY <1>2, <1>4, <3>1
  <2> QED
    BY <1>1, <1>4, <2>1, SameSeq
<1>7. PICK z \in Seq(Units) : z = y \o w
  BY <1>5, ConcatProperties
<1>8. /\ z \in Seq(Units) /\ Len(z) = l
      /\ \A i \in 1..(n - k) : z[i] = y[i]
      /\ \A i \in 1..m : z[(n - k) + i] = w[i]
  <2>1. Joined(y, w, z)
    BY <1>5, <1>7, ConcatAt, Zenon
  <2>2. Len(y) = n - k /\ Len(w) = m /\ (n - k) + m = l
    BY <1>1, <1>2, <1>5
  <2> QED
    BY <2>1, <2>2 DEF Joined
<1>9. \A i \in 1..l : z[i] = t[i]
  <2> TAKE i \in 1..l
  <2>1. CASE i <= n - k
    <3>1. i \in 1..(n - k) /\ k + i \in 1..n
      BY <1>2, <2>1
    <3> QED
      BY <1>2, <1>5, <1>8, <3>1
  <2>2. CASE ~(i <= n - k)
    <3>1. PICK j : j = i - (n - k)
      OBVIOUS
    <3>2. j \in 1..m /\ (n - k) + j = i /\ n + j = k + i
      BY <1>2, <2>2, <3>1
    <3>3. z[i] = w[j] /\ s[k + i] = w[j]
      BY <1>2, <1>8, <3>2
    <3> QED
      BY <1>2, <3>3
  <2> QED
    BY <2>1, <2>2
<1>10. z = t
  BY <1>1, <1>8, <1>9, SameSeq
<1> QED
  BY <1>1, <1>3, <1>5, <1>6, <1>7, <1>10, Zenon DEF Cut

-----------------------------------------------------------------------------
(* Lines at the front of the buffer *)

LEMMA FirstLine ==
  ASSUME NEW buf \in Seq(Units), NEW n \in 1..Len(buf), buf[n] = CRLF,
         \A i \in 1..(n - 1) : buf[i] # CRLF
  PROVE  find_crlf(buf) = n
<1>1. Len(buf) \in Nat /\ DOMAIN buf = 1..Len(buf)
  BY LenProperties
<1>2. PICK found : found = {i \in DOMAIN buf : buf[i] = CRLF}
  OBVIOUS
<1>3. n \in found /\ found # {}
  BY <1>1, <1>2
<1>4. \A i \in found : i \in Nat /\ n <= i
  BY <1>1, <1>2
<1>5. Min(found) = n
  <2>0. \E z \in found : \A y \in found : z =< y
    BY <1>3, <1>4
  <2>1. Min(found) \in found /\ \A y \in found : Min(found) =< y
    BY <2>0 DEF Min
  <2>2. PICK m : m = Min(found)
    OBVIOUS
  <2>3. m \in Nat /\ n \in Nat /\ n <= m /\ m <= n
    BY <1>3, <1>4, <2>1, <2>2
  <2>4. m = n
    BY <2>3
  <2> QED
    BY <2>2, <2>4
<1> QED
  BY <1>2, <1>3, <1>5, Zenon DEF find_crlf

LEMMA NoLine ==
  ASSUME NEW buf \in Seq(Units), find_crlf(buf) # 0
  PROVE  \E j \in 1..Len(buf) : buf[j] = CRLF
<1>1. DOMAIN buf = 1..Len(buf)
  BY LenProperties
<1>2. {i \in DOMAIN buf : buf[i] = CRLF} # {}
  BY Zenon DEF find_crlf
<1> QED
  BY <1>1, <1>2

\* A line of n units, with the text `line', is taken: after it is t.
Gone(buf, w, n, line, t) ==
    /\ find_crlf(buf) = n /\ Line(buf) = line
    /\ SubSeq(buf, n + 1, Len(buf)) \in Seq(Units)
    /\ SubSeq(buf, n + 1, Len(buf)) \o w = t

LEMMA LineTaken ==
  ASSUME NEW buf \in Seq(Units), NEW w \in Seq(Units), NEW t \in Seq(Units),
         NEW x \in Units, x # CRLF, NEW b \in Seq(Units), b = <<x, CRLF>>,
         buf \o w = b \o t, find_crlf(buf) # 0
  PROVE  Gone(buf, w, 2, <<x>>, t)
<1>1. Len(b) = 2 /\ b[1] = x /\ b[2] = CRLF
  OBVIOUS
<1>2. PICK s \in Seq(Units) : s = buf \o w /\ s = b \o t
  BY ConcatProperties
<1>3. Joined(buf, w, s) /\ Joined(b, t, s)
  BY <1>2, ConcatAt, Zenon
<1>4. PICK n : n = Len(buf)
  OBVIOUS
<1>5. n \in Nat /\ s[1] = x /\ s[2] = CRLF /\ \A i \in 1..n : buf[i] = s[i]
  <2>1. Len(buf) \in Nat /\ \A i \in 1..Len(buf) : s[i] = buf[i]
    BY <1>3 DEF Joined
  <2>2. \A i \in 1..Len(b) : s[i] = b[i]
    BY <1>3, Zenon DEF Joined
  <2> HIDE DEF Joined
  <2> QED
    BY <1>1, <1>4, <2>1, <2>2
<1>6. PICK j \in 1..n : buf[j] = CRLF
  BY <1>4, NoLine
<1>7. j # 1 /\ n >= 2
  BY <1>5, <1>6
<1>8. buf[1] = x /\ buf[2] = CRLF
  BY <1>5, <1>7
<1>9. find_crlf(buf) = 2
  <2>1. 2 \in 1..Len(buf) /\ \A i \in 1..(2 - 1) : buf[i] # CRLF
    BY <1>4, <1>5, <1>7, <1>8
  <2> QED
    BY <1>8, <2>1, FirstLine
<1>10. Line(buf) = <<x>>
  <2>1. Line(buf) = SubSeq(buf, 0 + 1, 1)
    BY <1>9 DEF Line
  <2>2. /\ SubSeq(buf, 0 + 1, 1) \in Seq(Units) /\ Len(SubSeq(buf, 0 + 1, 1)) = 1 - 0
        /\ \A i \in 1..(1 - 0) : SubSeq(buf, 0 + 1, 1)[i] = buf[0 + i]
    BY <1>4, <1>5, <1>7, Window
  <2>3. PICK l \in Seq(Units) : l = SubSeq(buf, 0 + 1, 1)
    BY <2>2
  <2>4. Len(l) = 1 /\ l[1] = x
    BY <1>8, <2>2, <2>3
  <2>5. l = <<x>>
    BY <2>4
  <2> QED
    BY <2>1, <2>3, <2>5
<1> QED
  <2>1. Len(b) <= Len(buf)
    BY <1>1, <1>4, <1>5, <1>7
  <2>2. Cut(buf, w, b, t)
    BY <2>1, PrefixTaken, Zenon
  <2> QED
    BY <1>1, <1>9, <1>10, <2>2, Zenon DEF Cut, Gone

LEMMA BlankTaken ==
  ASSUME NEW buf \in Seq(Units), NEW w \in Seq(Units), NEW t \in Seq(Units),
         NEW b \in Seq(Units), b = <<CRLF>>, buf \o w = b \o t, find_crlf(buf) # 0
  PROVE  Gone(buf, w, 1, << >>, t)
<1>1. Len(b) = 1 /\ b[1] = CRLF
  OBVIOUS
<1>2. PICK s \in Seq(Units) : s = buf \o w /\ s = b \o t
  BY ConcatProperties
<1>3. Joined(buf, w, s) /\ Joined(b, t, s)
  BY <1>2, ConcatAt, Zenon
<1>4. PICK n : n = Len(buf)
  OBVIOUS
<1>5. n \in Nat /\ s[1] = CRLF /\ \A i \in 1..n : buf[i] = s[i]
  <2>1. Len(buf) \in Nat /\ \A i \in 1..Len(buf) : s[i] = buf[i]
    BY <1>3 DEF Joined
  <2>2. \A i \in 1..Len(b) : s[i] = b[i]
    BY <1>3, Zenon DEF Joined
  <2> HIDE DEF Joined
  <2> QED
    BY <1>1, <1>4, <2>1, <2>2
<1>6. PICK j \in 1..n : buf[j] = CRLF
  BY <1>4, NoLine
<1>7. n >= 1 /\ buf[1] = CRLF
  BY <1>5, <1>6
<1>8. find_crlf(buf) = 1
  <2>1. 1 \in 1..Len(buf) /\ \A i \in 1..(1 - 1) : buf[i] # CRLF
    BY <1>4, <1>5, <1>7
  <2> QED
    BY <1>7, <2>1, FirstLine
<1>9. Line(buf) = << >>
  <2>1. Line(buf) = SubSeq(buf, 0 + 1, 0)
    BY <1>8 DEF Line
  <2>2. SubSeq(buf, 0 + 1, 0) \in Seq(Units) /\ Len(SubSeq(buf, 0 + 1, 0)) = 0 - 0
    BY <1>4, <1>5, Window
  <2>3. PICK l \in Seq(Units) : l = SubSeq(buf, 0 + 1, 0)
    BY <2>2
  <2>4. l = << >>
    BY <2>2, <2>3
  <2> QED
    BY <2>1, <2>3, <2>4
<1> QED
  <2>1. Len(b) <= Len(buf)
    BY <1>1, <1>4, <1>5, <1>7
  <2>2. Cut(buf, w, b, t)
    BY <2>1, PrefixTaken, Zenon
  <2> QED
    BY <1>1, <1>8, <1>9, <2>2, Zenon DEF Cut, Gone

\* With nothing sent there is no line.
LEMMA NothingTaken ==
  ASSUME NEW buf \in Seq(Units), NEW w \in Seq(Units), buf \o w = << >>
  PROVE  buf = << >> /\ find_crlf(buf) = 0
<1>1. buf = << >>
  <2>1. Len(buf) \in Nat /\ Len(w) \in Nat /\ Len(buf \o w) = Len(buf) + Len(w)
    BY LenProperties, ConcatProperties
  <2>2. Len(buf \o w) = 0
    OBVIOUS
  <2> QED
    BY <2>1, <2>2
<1>2. ~\E j \in 1..Len(buf) : buf[j] = CRLF
  BY <1>1
<1> QED
  BY <1>1, <1>2, NoLine

-----------------------------------------------------------------------------
(* A request on the wire and the parser on its way through it *)

Requests == [last : BOOLEAN, bad : BOOLEAN, body : {NoNumber, -1} \cup Nat]

LineOf(what, i, n) == << <<what, i, n>>, CRLF >>

\* What the parser has still to take of request i.
LengthLeft(p, i, r) ==
    IF r.body # -1 /\ p.length = -1 THEN LineOf("length", i, r.body) ELSE << >>
CloseLeft(p, i, r) == IF r.last /\ p.keep_alive_ THEN LineOf("close", i, 0) ELSE << >>
HeadLeft(p, i, r) ==
    LengthLeft(p, i, r) \o (CloseLeft(p, i, r) \o (<<CRLF>> \o Body(i, r.body)))
HttpLeft(p, i, r) ==
    CASE p.state_ = "kHeaders"  -> HeadLeft(p, i, r)
      [] p.state_ = "kBody"     -> Body(i, r.body)
      [] p.state_ = "kComplete" -> << >>

\* The parser is past the start line of request i and has what it has read of it.
Follows(p, i, r) ==
    /\ p.state_ \in {"kHeaders", "kBody", "kComplete"} /\ p.id = i /\ ~r.bad
    /\ p.length = -1 \/ p.length = r.body
    /\ ~p.keep_alive_ => r.last /\ p.length = r.body
    /\ p.state_ # "kHeaders" =>
          p.length = r.body /\ p.keep_alive_ = ~r.last /\ r.body # NoNumber
    /\ p.state_ = "kBody" => r.body \in Nat
    /\ p.body = IF p.state_ = "kComplete" THEN Body(i, r.body) ELSE << >>

\* q follows request i, and rest is what it has not taken of it and what is after it.
Ahead(q, i, r, rest, a) == Follows(q, i, r) /\ rest = HttpLeft(q, i, r) \o a

LEMMA TagsAre ==
  /\ "start" \in Tags /\ "length" \in Tags /\ "close" \in Tags /\ "bad" \in Tags
  /\ "crlf" \in Tags /\ "byte" \in Tags /\ "request" \in Tags /\ "other" \in Tags
  /\ "free" \in Tags /\ 0 \in Nat /\ 0 \in Int
BY DEF Tags

LEMMA CrlfTyped == CRLF \in Units
BY DEF CRLF, Units, Tags

LEMMA UnitTyped ==
  ASSUME NEW what \in Tags, NEW i \in Nat, NEW n \in Int
  PROVE  <<what, i, n>> \in Units /\ CRLF \in Units /\ LineOf(what, i, n) \in Seq(Units)
<1>1. <<what, i, n>> \in Units
  BY DEF Units
<1>2. CRLF \in Units
  BY DEF CRLF, Units, Tags
<1>3. PICK u \in Units, v \in Units : u = <<what, i, n>> /\ v = CRLF
  BY <1>1, <1>2
<1>4. <<u, v>> \in Seq(Units)
  OBVIOUS
<1> QED
  BY <1>1, <1>2, <1>3, <1>4, Zenon DEF LineOf

LEMMA UnitsTyped ==
  ASSUME NEW i \in Nat, NEW r \in Requests
  PROVE  /\ Body(i, r.body) \in Seq(Units)
         /\ r.body \in Nat => Len(Body(i, r.body)) = r.body
         /\ r.body \notin Nat => Body(i, r.body) = << >>
         /\ <<CRLF>> \in Seq(Units) /\ << >> \in Seq(Units)
<1>1. r.body \in Int
  BY DEF Requests, NoNumber
<1>2. <<CRLF>> \in Seq(Units) /\ << >> \in Seq(Units)
  <2>0. CRLF \in Units
    BY DEF CRLF, Units, Tags
  <2>1. PICK u \in Units : u = CRLF
    BY <2>0
  <2>2. <<u>> \in Seq(Units)
    OBVIOUS
  <2> QED
    BY <2>1, <2>2
<1>3. PICK u \in Units : u = <<"byte", i, 0>>
  BY UnitTyped, TagsAre, Zenon
<1>4. PICK b : b = [j \in 1..r.body |-> u]
  OBVIOUS
<1>5. b = Body(i, r.body)
  BY <1>3, <1>4 DEF Body
<1>6. r.body \in Nat => b \in Seq(Units) /\ Len(b) = r.body
  BY <1>4
<1>7. ASSUME r.body \notin Nat PROVE b = << >>
  <2>1. 1..r.body = {}
    BY <1>1, <1>7
  <2> QED
    BY <1>4, <2>1
<1> QED
  BY <1>2, <1>5, <1>6, <1>7

LEMMA LeftTyped ==
  ASSUME NEW p \in Parsers, NEW i \in Nat, NEW r \in Requests
  PROVE  /\ LengthLeft(p, i, r) \in Seq(Units) /\ CloseLeft(p, i, r) \in Seq(Units)
         /\ <<CRLF>> \o Body(i, r.body) \in Seq(Units)
         /\ CloseLeft(p, i, r) \o (<<CRLF>> \o Body(i, r.body)) \in Seq(Units)
         /\ HeadLeft(p, i, r) \in Seq(Units)
<1>1. r.body \in Int
  BY DEF Requests, NoNumber
<1>2. LengthLeft(p, i, r) \in Seq(Units) /\ CloseLeft(p, i, r) \in Seq(Units)
  <2>1. LineOf("length", i, r.body) \in Seq(Units) /\ LineOf("close", i, 0) \in Seq(Units)
    BY <1>1, UnitTyped, TagsAre, Zenon
  <2> QED
    BY <2>1, UnitsTyped DEF LengthLeft, CloseLeft
<1>3. <<CRLF>> \o Body(i, r.body) \in Seq(Units)
  BY UnitsTyped, ConcatProperties
<1>4. CloseLeft(p, i, r) \o (<<CRLF>> \o Body(i, r.body)) \in Seq(Units)
  BY <1>2, <1>3, ConcatProperties
<1>5. HeadLeft(p, i, r) \in Seq(Units)
  BY <1>2, <1>4, ConcatProperties DEF HeadLeft
<1> QED
  BY <1>2, <1>3, <1>4, <1>5

\* A request that parses is its start line and all that the parser then has to take.
LEMMA HttpUnitsAre ==
  ASSUME NEW p \in Parsers, p.length = -1, p.keep_alive_, NEW i \in Nat, NEW r \in Requests
  PROVE  /\ r.bad => HttpUnits(i, r) = LineOf("bad", i, 0)
         /\ ~r.bad => HttpUnits(i, r) = LineOf("start", i, 0) \o HeadLeft(p, i, r)
         /\ HttpUnits(i, r) \in Seq(Units)
<1>1. PICK s \in Seq(Units), l \in Seq(Units), c \in Seq(Units), e \in Seq(Units), b \in Seq(Units) :
          /\ s = LineOf("start", i, 0) /\ l = LengthLeft(p, i, r)
          /\ c = CloseLeft(p, i, r) /\ e = <<CRLF>> /\ b = Body(i, r.body)
  <2>1. LineOf("start", i, 0) \in Seq(Units)
    BY UnitTyped, TagsAre, Zenon
  <2> QED
    BY <2>1, UnitsTyped, LeftTyped
<1>2. /\ s \in Seq(Units) /\ l \in Seq(Units) /\ c \in Seq(Units)
      /\ e \in Seq(Units) /\ b \in Seq(Units)
  OBVIOUS
<1>3. /\ s \o l \in Seq(Units) /\ (s \o l) \o c \in Seq(Units) /\ c \o (e \o b) \in Seq(Units)
      /\ e \o b \in Seq(Units)
  BY <1>2, ConcatProperties
<1>4. (((s \o l) \o c) \o e) \o b = s \o (l \o (c \o (e \o b)))
  <2>1. \A x \in Seq(Units) : (x \o e) \o b = x \o (e \o b)
    BY RegroupLeft, Zenon
  <2>2. PICK z \in Seq(Units) : z = e \o b
    BY <1>3
  <2>3. \A x \in Seq(Units) : (x \o c) \o z = x \o (c \o z)
    BY RegroupLeft, Zenon
  <2>4. PICK v \in Seq(Units) : v = c \o z
    BY <1>3, <2>2
  <2>5. \A x \in Seq(Units) : (x \o l) \o v = x \o (l \o v)
    BY RegroupLeft, Zenon
  <2>6. (((s \o l) \o c) \o e) \o b = ((s \o l) \o c) \o z
    BY <1>3, <2>1, <2>2, Zenon
  <2>7. ((s \o l) \o c) \o z = (s \o l) \o v
    BY <1>3, <2>3, <2>4, Zenon
  <2>8. (s \o l) \o v = s \o (l \o v)
    BY <2>5, Zenon
  <2> QED
    BY <2>2, <2>4, <2>6, <2>7, <2>8, Zenon
<1>5. ASSUME ~r.bad PROVE HttpUnits(i, r) = (((s \o l) \o c) \o e) \o b
  <2>1. /\ l = IF r.body # -1 THEN << <<"length", i, r.body>>, CRLF >> ELSE << >>
        /\ c = IF r.last THEN << <<"close", i, 0>>, CRLF >> ELSE << >>
        /\ s = << <<"start", i, 0>>, CRLF >>
    BY <1>1 DEF LengthLeft, CloseLeft, LineOf
  <2> QED
    BY <1>1, <1>5, <2>1, Zenon DEF HttpUnits
<1>6. r.bad => HttpUnits(i, r) = LineOf("bad", i, 0)
  BY DEF HttpUnits, LineOf
<1>7. s \o (l \o (c \o (e \o b))) \in Seq(Units)
  <2>1. l \o (c \o (e \o b)) \in Seq(Units)
    BY <1>2, <1>3, ConcatProperties
  <2> QED
    BY <1>2, <2>1, ConcatProperties
<1>8. LineOf("bad", i, 0) \in Seq(Units)
  BY UnitTyped, TagsAre, Zenon
<1> QED
  BY <1>1, <1>4, <1>5, <1>6, <1>7, <1>8, Zenon DEF HeadLeft

LEMMA StartParsed ==
  ASSUME NEW i \in Nat, NEW r \in Requests,
         NEW buf \in Seq(Units), NEW w \in Seq(Units), NEW a \in Seq(Units),
         buf \o w = HttpUnits(i, r) \o a, ~Returns(NewParser, buf)
  PROVE  /\ Taken(NewParser, buf) \in Nat /\ parse(NewParser, buf) \in Parsers
         /\ parse(NewParser, buf).state_ # "kError" =>
               Ahead(parse(NewParser, buf), i, r,
                     SubSeq(buf, Taken(NewParser, buf) + 1, Len(buf)) \o w, a)
<1> DEFINE p == NewParser
<1>1. /\ p \in Parsers /\ p.state_ = "kStartLine" /\ p.length = -1 /\ p.keep_alive_
      /\ p.body = << >>
  BY DEF NewParser, Parsers
<1>2. find_crlf(buf) # 0 /\ parse(p, buf) = parse_line(p, Line(buf))
  BY <1>1 DEF Returns, parse
<1> HIDE DEF p
<1>3. CASE r.bad
  <2>0. PICK x \in Units : x = <<"bad", i, 0>>
    BY UnitTyped, TagsAre, Zenon
  <2>c. PICK v \in Units : v = CRLF
    BY CrlfTyped
  <2>b. <<x, v>> \in Seq(Units)
    OBVIOUS
  <2>1. PICK b \in Seq(Units) : x = <<"bad", i, 0>> /\ b = <<x, CRLF>>
    BY <2>0, <2>c, <2>b, Zenon
  <2>2. b = HttpUnits(i, r) /\ x # CRLF
    BY <1>1, <1>3, <2>1, HttpUnitsAre DEF LineOf, CRLF
  <2>3. Gone(buf, w, 2, <<x>>, a)
    BY <1>2, <2>1, <2>2, LineTaken, Zenon
  <2>4. parse_line(p, <<x>>) = [p EXCEPT !.state_ = "kError"]
    BY <1>1, <2>1 DEF parse_line
  <2>5. parse(p, buf) = [p EXCEPT !.state_ = "kError"]
    BY <1>2, <2>3, <2>4, Zenon DEF Gone
  <2>6. parse(p, buf) \in Parsers /\ parse(p, buf).state_ = "kError"
    BY <1>1, <2>5 DEF Parsers
  <2>7. Taken(p, buf) = 0
    BY <1>1, <1>2, <2>6 DEF Taken
  <2> QED
    BY <2>6, <2>7 DEF p
<1>4. CASE ~r.bad
  <2>0. PICK x \in Units : x = <<"start", i, 0>>
    BY UnitTyped, TagsAre, Zenon
  <2>c. PICK v \in Units : v = CRLF
    BY CrlfTyped
  <2>b. <<x, v>> \in Seq(Units)
    OBVIOUS
  <2>1. PICK b \in Seq(Units) : x = <<"start", i, 0>> /\ b = <<x, CRLF>>
    BY <2>0, <2>c, <2>b, Zenon
  <2>2. PICK h \in Seq(Units) : h = HeadLeft(p, i, r)
    BY <1>1, LeftTyped
  <2>3. b = LineOf("start", i, 0) /\ x # CRLF
    BY <2>1 DEF LineOf, CRLF
  <2>4. buf \o w = b \o (h \o a) /\ h \o a \in Seq(Units)
    <3>1. HttpUnits(i, r) = b \o h
      BY <1>1, <1>4, <2>2, <2>3, HttpUnitsAre, Zenon
    <3>2. (b \o h) \o a = b \o (h \o a)
      BY Regroup
    <3>3. h \o a \in Seq(Units)
      BY ConcatProperties
    <3> QED
      BY <3>1, <3>2, <3>3, Zenon
  <2>5. Gone(buf, w, 2, <<x>>, h \o a)
    BY <1>2, <2>1, <2>3, <2>4, LineTaken, Zenon
  <2>6. parse_line(p, <<x>>) = [p EXCEPT !.state_ = "kHeaders", !.id = i]
    BY <1>1, <2>1 DEF parse_line
  <2>7. PICK q : q = parse(p, buf)
    OBVIOUS
  <2>8. q = [p EXCEPT !.state_ = "kHeaders", !.id = i]
    BY <1>2, <2>5, <2>6, <2>7, Zenon DEF Gone
  <2>9. /\ q \in Parsers /\ q.state_ = "kHeaders" /\ q.id = i /\ q.length = -1
        /\ q.keep_alive_ /\ q.body = << >>
    BY <1>1, <2>8 DEF Parsers
  <2>10. Taken(p, buf) = 2
    BY <1>1, <1>2, <2>5, <2>7, <2>9 DEF Taken, Gone
  <2>11. Follows(q, i, r)
    BY <1>4, <2>9 DEF Follows
  <2>12. HttpLeft(q, i, r) = h
    <3>1. LengthLeft(q, i, r) = LengthLeft(p, i, r) /\ CloseLeft(q, i, r) = CloseLeft(p, i, r)
      BY <1>1, <2>9 DEF LengthLeft, CloseLeft
    <3>2. HttpLeft(q, i, r) = HeadLeft(q, i, r)
      BY <2>9 DEF HttpLeft
    <3> QED
      BY <2>2, <3>1, <3>2, Zenon DEF HeadLeft
  <2>13. Ahead(q, i, r, SubSeq(buf, Taken(p, buf) + 1, Len(buf)) \o w, a)
    BY <2>5, <2>10, <2>11, <2>12, Zenon DEF Ahead, Gone
  <2>14. Taken(p, buf) \in Nat
    BY <2>10
  <2>15. /\ parse(p, buf) \in Parsers
         /\ Ahead(parse(p, buf), i, r, SubSeq(buf, Taken(p, buf) + 1, Len(buf)) \o w, a)
    BY <2>7, <2>9, <2>13, Zenon
  <2> QED
    BY <2>14, <2>15, Zenon DEF p
<1> QED
  BY <1>3, <1>4


LEMMA HeadersParsed ==
  ASSUME NEW p \in Parsers, p.state_ = "kHeaders", NEW i \in Nat, NEW r \in Requests,
         Follows(p, i, r),
         NEW buf \in Seq(Units), NEW w \in Seq(Units), NEW a \in Seq(Units),
         buf \o w = HttpLeft(p, i, r) \o a, ~Returns(p, buf), ~Throws(p, buf)
  PROVE  /\ Taken(p, buf) \in Nat /\ parse(p, buf) \in Parsers
         /\ Ahead(parse(p, buf), i, r, SubSeq(buf, Taken(p, buf) + 1, Len(buf)) \o w, a)
<1>1. find_crlf(buf) # 0 /\ parse(p, buf) = parse_line(p, Line(buf))
  BY DEF Returns, parse
<1>2. PICK l \in Seq(Units), c \in Seq(Units), e \in Seq(Units), b \in Seq(Units) :
          /\ l = LengthLeft(p, i, r) /\ c = CloseLeft(p, i, r)
          /\ e = <<CRLF>> /\ b = Body(i, r.body)
  BY UnitsTyped, LeftTyped
<1>3. PICK g \in Seq(Units), h \in Seq(Units), ta \in Seq(Units), ga \in Seq(Units), ha \in Seq(Units) :
          /\ g = e \o b /\ h = c \o g /\ ta = b \o a /\ ga = e \o ta /\ ha = c \o ga
  BY ConcatProperties
<1>4. buf \o w = l \o ha
  <2>1. HttpLeft(p, i, r) = l \o h
    BY <1>2, <1>3, Zenon DEF HttpLeft, HeadLeft
  <2>2. \A x \in Seq(Units) : (x \o h) \o a = x \o (h \o a)
    BY RegroupLeft, Zenon
  <2>3. \A x \in Seq(Units) : (x \o g) \o a = x \o (g \o a)
    BY RegroupLeft, Zenon
  <2>4. \A x \in Seq(Units) : (x \o b) \o a = x \o (b \o a)
    BY RegroupLeft, Zenon
  <2>5. g \o a = ga
    BY <1>3, <2>4, Zenon
  <2>6. h \o a = ha
    BY <1>3, <2>3, <2>5, Zenon
  <2> QED
    BY <2>1, <2>2, <2>6, Zenon
<1>5. PICK q : q = parse(p, buf)
  OBVIOUS
<1>6. q.state_ # "kError" => Taken(p, buf) = find_crlf(buf)
  <2>1. p.state_ # "kBody"
    OBVIOUS
  <2> QED
    BY <1>1, <1>5, <2>1, Zenon DEF Taken
<1>7. r.body \in Int /\ p.length \in Int /\ p.id = i /\ p.state_ = "kHeaders" /\ p.keep_alive_ \in BOOLEAN
  <2>1. r.body \in Int
    BY DEF Requests, NoNumber
  <2>2. p.length \in Int /\ p.keep_alive_ \in BOOLEAN
    BY DEF Parsers
  <2>3. p.id = i
    BY Zenon DEF Follows
  <2> QED
    BY <2>1, <2>2, <2>3
<1> SUFFICES /\ Taken(p, buf) \in Nat /\ q \in Parsers
             /\ Ahead(q, i, r, SubSeq(buf, Taken(p, buf) + 1, Len(buf)) \o w, a)
  BY <1>5, Zenon
<1>8. CASE r.body # -1 /\ p.length = -1
  <2>1. PICK x \in Units, v \in Units : x = <<"length", i, r.body>> /\ v = CRLF
    BY <1>7, UnitTyped, TagsAre, CrlfTyped, Zenon
  <2>2. <<x, v>> \in Seq(Units)
    OBVIOUS
  <2>3. l \in Seq(Units) /\ l = <<x, CRLF>> /\ x # CRLF
    BY <1>2, <1>8, <2>1, <2>2 DEF LengthLeft, LineOf, CRLF
  <2>4. Gone(buf, w, 2, <<x>>, ha)
    BY <1>1, <1>4, <2>3, LineTaken, Zenon
  <2>5. parse_line(p, <<x>>) = [p EXCEPT !.length = r.body]
    BY <1>7, <2>1 DEF parse_line
  <2>6. q = [p EXCEPT !.length = r.body]
    BY <1>1, <1>5, <2>4, <2>5, Zenon DEF Gone
  <2>7. /\ q \in Parsers /\ q.state_ = "kHeaders" /\ q.id = i /\ q.length = r.body
        /\ q.keep_alive_ = p.keep_alive_ /\ q.body = p.body
    BY <1>7, <2>6 DEF Parsers
  <2>8. Follows(q, i, r)
    BY <1>7, <2>7 DEF Follows
  <2>9. HttpLeft(q, i, r) = h
    <3>1. LengthLeft(q, i, r) = << >> /\ CloseLeft(q, i, r) = c
      BY <1>2, <1>8, <2>7 DEF LengthLeft, CloseLeft
    <3>2. HttpLeft(q, i, r) = << >> \o h
      BY <1>2, <1>3, <2>7, <3>1, Zenon DEF HttpLeft, HeadLeft
    <3> QED
      BY <3>2, EmptyConcat, Zenon
  <2>10. h \o a = ha
    <3>1. \A x2 \in Seq(Units) : (x2 \o g) \o a = x2 \o (g \o a)
      BY RegroupLeft, Zenon
    <3>2. \A x2 \in Seq(Units) : (x2 \o b) \o a = x2 \o (b \o a)
      BY RegroupLeft, Zenon
    <3> QED
      BY <1>3, <3>1, <3>2, Zenon
  <2>11. Taken(p, buf) = 2
    BY <1>6, <2>4, <2>7 DEF Gone
  <2>12. Ahead(q, i, r, SubSeq(buf, Taken(p, buf) + 1, Len(buf)) \o w, a)
    BY <2>4, <2>8, <2>9, <2>10, <2>11, Zenon DEF Ahead, Gone
  <2> QED
    BY <2>7, <2>11, <2>12
<1>9. CASE ~(r.body # -1 /\ p.length = -1) /\ r.last /\ p.keep_alive_
  <2>1. PICK x \in Units, v \in Units : x = <<"close", i, 0>> /\ v = CRLF
    BY <1>7, UnitTyped, TagsAre, CrlfTyped, Zenon
  <2>2. <<x, v>> \in Seq(Units)
    OBVIOUS
  <2>3. c \in Seq(Units) /\ c = <<x, CRLF>> /\ x # CRLF
    BY <1>2, <1>9, <2>1, <2>2 DEF CloseLeft, LineOf, CRLF
  <2>4. buf \o w = c \o ga
    <3>1. l = << >>
      BY <1>2, <1>9, Zenon DEF LengthLeft
    <3> QED
      BY <1>3, <1>4, <3>1, EmptyConcat, Zenon
  <2>5. Gone(buf, w, 2, <<x>>, ga)
    BY <1>1, <2>3, <2>4, LineTaken, Zenon
  <2>6. parse_line(p, <<x>>) = [p EXCEPT !.keep_alive_ = FALSE]
    BY <1>7, <2>1 DEF parse_line
  <2>7. q = [p EXCEPT !.keep_alive_ = FALSE]
    BY <1>1, <1>5, <2>5, <2>6, Zenon DEF Gone
  <2>8. /\ q \in Parsers /\ q.state_ = "kHeaders" /\ q.id = i /\ q.length = p.length
        /\ q.keep_alive_ = FALSE /\ q.body = p.body
    BY <1>7, <2>7 DEF Parsers
  <2>9. p.length = r.body
    BY <1>9 DEF Follows
  <2>10. Follows(q, i, r)
    BY <1>7, <1>9, <2>8, <2>9 DEF Follows
  <2>11. HttpLeft(q, i, r) \o a = ga
    <3>1. LengthLeft(q, i, r) = << >> /\ CloseLeft(q, i, r) = << >>
      BY <1>9, <2>8, <2>9, Zenon DEF LengthLeft, CloseLeft
    <3>2. HttpLeft(q, i, r) = << >> \o (<< >> \o g)
      BY <1>2, <1>3, <2>8, <3>1, Zenon DEF HttpLeft, HeadLeft
    <3>3. HttpLeft(q, i, r) = g
      BY <3>2, EmptyConcat, Zenon
    <3>4. \A x2 \in Seq(Units) : (x2 \o b) \o a = x2 \o (b \o a)
      BY RegroupLeft, Zenon
    <3> QED
      BY <1>3, <3>3, <3>4, Zenon
  <2>12. Taken(p, buf) = 2
    BY <1>6, <2>5, <2>8 DEF Gone
  <2>13. Ahead(q, i, r, SubSeq(buf, Taken(p, buf) + 1, Len(buf)) \o w, a)
    BY <2>5, <2>10, <2>11, <2>12, Zenon DEF Ahead, Gone
  <2> QED
    BY <2>8, <2>12, <2>13
<1>10. CASE ~(r.body # -1 /\ p.length = -1) /\ ~(r.last /\ p.keep_alive_)
  <2>1. buf \o w = e \o ta
    <3>1. l = << >> /\ c = << >>
      BY <1>2, <1>10, Zenon DEF LengthLeft, CloseLeft
    <3> QED
      BY <1>3, <1>4, <3>1, EmptyConcat, Zenon
  <2>2. Gone(buf, w, 1, << >>, ta)
    BY <1>1, <1>2, <2>1, BlankTaken, Zenon
  <2>3. p.length = r.body /\ p.keep_alive_ = ~r.last
    BY <1>7, <1>10 DEF Follows, Requests
  <2>4. p.length # NoNumber
    BY <1>1, <1>7, <2>2, Zenon DEF Throws, Gone
  <2>5. parse_line(p, << >>) = [p EXCEPT !.state_ = IF p.length >= 0 THEN "kBody" ELSE "kComplete"]
    BY <1>7 DEF parse_line
  <2>6. q = [p EXCEPT !.state_ = IF p.length >= 0 THEN "kBody" ELSE "kComplete"]
    BY <1>1, <1>5, <2>2, <2>5, Zenon DEF Gone
  <2>7. /\ q \in Parsers /\ q.state_ = IF p.length >= 0 THEN "kBody" ELSE "kComplete"
        /\ q.id = i /\ q.length = p.length /\ q.keep_alive_ = p.keep_alive_ /\ q.body = p.body
    BY <1>7, <2>6 DEF Parsers
  <2>8. r.body = -1 \/ r.body \in Nat
    BY <2>3, <2>4 DEF Requests
  <2>9. q.state_ = IF r.body \in Nat THEN "kBody" ELSE "kComplete"
    BY <2>3, <2>7, <2>8
  <2>10. q.state_ = "kComplete" => b = << >>
    <3>1. r.body \notin Nat => b = << >>
      BY <1>2, UnitsTyped, Zenon
    <3> QED
      BY <2>9, <3>1
  <2>11. Follows(q, i, r)
    <3>1. p.body = << >> /\ ~r.bad
      BY <1>7 DEF Follows
    <3> QED
      BY <1>2, <1>7, <2>3, <2>4, <2>7, <2>9, <2>10, <3>1 DEF Follows
  <2>12. HttpLeft(q, i, r) = b
    BY <1>2, <2>9, <2>10, Zenon DEF HttpLeft
  <2>13. Taken(p, buf) = 1
    BY <1>6, <2>2, <2>9 DEF Gone
  <2>14. Ahead(q, i, r, SubSeq(buf, Taken(p, buf) + 1, Len(buf)) \o w, a)
    BY <1>3, <2>2, <2>11, <2>12, <2>13, Zenon DEF Ahead, Gone
  <2> QED
    BY <2>7, <2>13, <2>14
<1> QED
  BY <1>8, <1>9, <1>10

LEMMA BodyParsed ==
  ASSUME NEW p \in Parsers, p.state_ = "kBody", NEW i \in Nat, NEW r \in Requests,
         Follows(p, i, r),
         NEW buf \in Seq(Units), NEW w \in Seq(Units), NEW a \in Seq(Units),
         buf \o w = HttpLeft(p, i, r) \o a, ~Returns(p, buf)
  PROVE  /\ Taken(p, buf) \in Nat /\ parse(p, buf) \in Parsers
         /\ Taken(p, buf) <= Len(buf)
         /\ Ahead(parse(p, buf), i, r, SubSeq(buf, Taken(p, buf) + 1, Len(buf)) \o w, a)
<1>1. PICK b \in Seq(Units) : b = Body(i, r.body)
  BY UnitsTyped
<1>2. /\ p.length = r.body /\ r.body \in Nat /\ p.keep_alive_ = ~r.last /\ p.id = i /\ ~r.bad
      /\ r.body # NoNumber
  BY DEF Follows
<1>3. Len(b) = r.body
  BY <1>1, <1>2, UnitsTyped
<1>4. Len(b) <= Len(buf)
  <2>1. ~(Len(buf) < p.length)
    BY DEF Returns
  <2> QED
    BY <1>2, <1>3, <2>1, LenProperties
<1>5. buf \o w = b \o a
  BY <1>1, Zenon DEF HttpLeft
<1>6. Cut(buf, w, b, a)
  BY <1>4, <1>5, PrefixTaken, Zenon
<1>7. Taken(p, buf) = Len(b) /\ Len(b) \in Nat
  <2>1. Taken(p, buf) = p.length
    BY DEF Taken
  <2> QED
    BY <1>2, <1>3, <2>1, Zenon
<1>8. PICK q : q = parse(p, buf)
  OBVIOUS
<1>9. q = [p EXCEPT !.state_ = "kComplete", !.body = b]
  <2>1. SubSeq(buf, 1, p.length) = b
    BY <1>2, <1>3, <1>6, Zenon DEF Cut
  <2> QED
    BY <1>8, <2>1, Zenon DEF parse
<1>10. /\ q \in Parsers /\ q.state_ = "kComplete" /\ q.id = i /\ q.length = r.body
       /\ q.keep_alive_ = ~r.last /\ q.body = b
  BY <1>2, <1>9 DEF Parsers
<1>11. Follows(q, i, r)
  BY <1>1, <1>2, <1>10 DEF Follows
<1>12. HttpLeft(q, i, r) = << >>
  BY <1>10 DEF HttpLeft
<1>13. Ahead(q, i, r, SubSeq(buf, Taken(p, buf) + 1, Len(buf)) \o w, a)
  <2>1. << >> \o a = a
    BY EmptyConcat, Zenon
  <2> QED
    BY <1>6, <1>7, <1>11, <1>12, <2>1, Zenon DEF Ahead, Cut
<1> QED
  BY <1>4, <1>7, <1>8, <1>10, <1>13, Zenon

-----------------------------------------------------------------------------
(* The inductive invariant *)

\* What has not been taken from the stream yet.
Rest == peek(input_buffer_) \o wire

\* After(d) is what is sent after the d-th request: the requests behind it one by one.
Laid ==
    /\ \A d \in 0..Len(sent) : EndOf(d) \in 0..Len(stream)
    /\ EndOf(Len(sent)) = Len(stream)
    /\ \A d \in 0..(Len(sent) - 1) : After(d) = UnitsOf(d + 1, sent[d + 1]) \o After(d + 1)

\* The session is alive, and has begun with d requests.
Live == session \notin {"done", "failed"} /\ parser.state_ # "kError"

At(d) ==
    IF kind = "http"
    THEN \/ parser = NewParser /\ Rest = After(d)
         \/ d > 0 /\ Ahead(parser, d, sent[d], Rest, After(d))
    ELSE /\ Rest = After(d)
         /\ session \in {"dispatch", "AsyncWrite", "written"} =>
               d > 0 /\ serving = d /\ ~sent[d].last

\* Of those, how many are done with: all, or all but the one in the parser; and how
\* many are answered or will not be.
Begun  == kind = "http" /\ parser # NewParser
Over(d) == IF Begun THEN d - 1 ELSE d
Passed(d) ==
    IF (Begun /\ session \notin {"AsyncWrite", "written"}) \/ (kind = "rpc" /\ session = "dispatch")
    THEN d - 1 ELSE d

Through(n) == \A j \in 1..n : ~Closing(j) /\ ~Wrong(j)

Replied(n) ==
    /\ \A j, k \in DOMAIN replies : j < k => replies[j] < replies[k]
    /\ Range(replies) = {i \in 1..n : Served(i)}

Placed(d) == At(d) /\ Through(Over(d)) /\ (state_ = "kConnected" => Replied(Passed(d)))

Place == Live => \E d \in 0..Len(sent) : Placed(d)

IInv == TypeOK /\ Laid /\ Place /\ AnswersInOrder

LEMMA RequestsTyped ==
  ASSUME kind \in DOMAIN Shapes
  PROVE  /\ kind = "http" \/ kind = "rpc"
         /\ Shapes[kind] \subseteq Requests
         /\ \A r \in Shapes[kind] : kind = "rpc" => r.body \in Nat /\ ~r.bad
BY StreamAssumption DEF StreamAssumption, Requests

LEMMA RpcUnitsAre ==
  ASSUME NEW i \in Nat, NEW r \in Requests, r.body \in Nat
  PROVE  \E h \in Units, b \in Seq(Units) :
            /\ h = <<IF r.last THEN "other" ELSE "request", i, r.body>>
            /\ b = Body(i, r.body) /\ Len(b) = r.body
            /\ RpcUnits(i, r) = <<h>> \o b
            /\ RpcUnits(i, r) \in Seq(Units) /\ Len(RpcUnits(i, r)) = r.body + 1
<1>1. PICK b \in Seq(Units) : b = Body(i, r.body)
  BY UnitsTyped
<1>2. Len(b) = r.body
  BY <1>1, UnitsTyped
<1>3. PICK what \in Tags : what = IF r.last THEN "other" ELSE "request"
  BY TagsAre
<1>4. r.body \in Int
  OBVIOUS
<1>5. PICK h \in Units : h = <<what, i, r.body>>
  BY <1>4, UnitTyped, Zenon
<1>6. PICK e \in Seq(Units) : e = <<h>> /\ Len(e) = 1
  <2>1. <<h>> \in Seq(Units) /\ Len(<<h>>) = 1
    OBVIOUS
  <2> QED
    BY <2>1, Zenon
<1>7. RpcUnits(i, r) = e \o b
  BY <1>1, <1>3, <1>5, <1>6, Zenon DEF RpcUnits
<1>8. e \o b \in Seq(Units) /\ Len(e \o b) = r.body + 1
  BY <1>2, <1>6, ConcatProperties
<1> QED
  BY <1>1, <1>2, <1>3, <1>5, <1>6, <1>7, <1>8, Zenon

LEMMA UnitsOfTyped ==
  ASSUME kind \in DOMAIN Shapes, NEW i \in Nat, NEW r \in Shapes[kind]
  PROVE  UnitsOf(i, r) \in Seq(Units)
<1>1. r \in Requests
  BY RequestsTyped
<1>2. CASE kind = "http"
  <2>1. NewParser \in Parsers /\ NewParser.length = -1 /\ NewParser.keep_alive_
    BY DEF NewParser, Parsers
  <2>2. HttpUnits(i, r) \in Seq(Units)
    BY <1>1, <2>1, HttpUnitsAre, Zenon
  <2> QED
    BY <1>2, <2>2, Zenon DEF UnitsOf
<1>3. CASE kind = "rpc"
  <2>1. r.body \in Nat
    BY <1>3, RequestsTyped
  <2>2. RpcUnits(i, r) \in Seq(Units)
    BY <1>1, <2>1, RpcUnitsAre, Zenon
  <2> QED
    BY <1>3, <2>2 DEF UnitsOf
<1> QED
  BY <1>2, <1>3, RequestsTyped

\* Message i, which is r, is at the front of the buffer, and after it is a.
Message(buf, w, i, r, a) ==
    /\ buf[1] = <<IF r.last THEN "other" ELSE "request", i, r.body>>
    /\ SubSeq(buf, (r.body + 1) + 1, Len(buf)) \o w = a

\* A whole message at the front of the buffer is exactly the message sent.
LEMMA Decoded ==
  ASSUME NEW i \in Nat, NEW r \in Requests, r.body \in Nat,
         NEW buf \in Seq(Units), NEW w \in Seq(Units), NEW a \in Seq(Units),
         buf \o w = RpcUnits(i, r) \o a, decode(buf)
  PROVE  Message(buf, w, i, r, a)
<1>1. PICK h \in Units, b \in Seq(Units), u \in Seq(Units) :
          /\ h = <<IF r.last THEN "other" ELSE "request", i, r.body>>
          /\ u = RpcUnits(i, r) /\ u = <<h>> \o b /\ Len(u) = r.body + 1
  BY RpcUnitsAre, Zenon
<1>2. u[1] = h
  BY <1>1
<1>3. PICK s \in Seq(Units) : s = buf \o w /\ s = u \o a
  BY <1>1, ConcatProperties
<1>4. Joined(buf, w, s) /\ Joined(u, a, s)
  BY <1>3, ConcatAt, Zenon
<1>5. Len(buf) \in Nat /\ Len(buf) # 0 /\ Len(buf) > buf[1][3]
  BY LenProperties, EmptySeq DEF decode
<1>6. buf[1] = h
  <2>1. s[1] = buf[1]
    BY <1>4, <1>5 DEF Joined
  <2>2. 1 \in 1..Len(u)
    BY <1>1
  <2>3. s[1] = u[1]
    BY <1>4, <2>2, Zenon DEF Joined
  <2> QED
    BY <1>2, <2>1, <2>3, Zenon
<1>7. buf[1][3] = r.body
  BY <1>1, <1>6
<1>8. Len(u) <= Len(buf)
  BY <1>1, <1>5, <1>7
<1>9. Cut(buf, w, u, a)
  BY <1>1, <1>3, <1>8, PrefixTaken, Zenon
<1> QED
  BY <1>1, <1>6, <1>9, Zenon DEF Cut, Message

-----------------------------------------------------------------------------
(* The stream *)

LEMMA SuffixTyped ==
  ASSUME NEW s \in Seq(Units), NEW k \in 0..Len(s)
  PROVE  SubSeq(s, k + 1, Len(s)) \in Seq(Units) /\ SubSeq(s, Len(s) + 1, Len(s)) = << >>
<1>1. Len(s) \in Nat /\ k \in Nat /\ k <= Len(s)
  BY LenProperties
<1>2. SubSeq(s, k + 1, Len(s)) \in Seq(Units)
  BY <1>1, Window
<1>3. PICK n \in Nat : n = Len(s)
  BY <1>1
<1>4. SubSeq(s, n + 1, n) \in Seq(Units) /\ Len(SubSeq(s, n + 1, n)) = n - n
  BY <1>3, Window
<1>5. PICK t \in Seq(Units) : t = SubSeq(s, n + 1, n)
  BY <1>4
<1>6. t = << >>
  BY <1>3, <1>4, <1>5
<1> QED
  BY <1>2, <1>3, <1>5, <1>6, Zenon

\* z is what follows the first k elements of t.
Suffix(t, k, z) == k \in 0..Len(t) /\ SubSeq(t, k + 1, Len(t)) = z

LEMMA SuffixJoined ==
  ASSUME NEW s \in Seq(Units), NEW u \in Seq(Units), NEW t \in Seq(Units), Joined(s, u, t),
         NEW k \in 0..Len(s),
         NEW z \in Seq(Units), Joined(SubSeq(s, k + 1, Len(s)), u, z)
  PROVE  Suffix(t, k, z)
<1>0. PICK x \in Seq(Units) : x = SubSeq(s, k + 1, Len(s)) /\ Joined(x, u, z)
  BY SuffixTyped, Zenon
<1>1. PICK n \in Nat, m \in Nat, l \in Nat : n = Len(s) /\ m = Len(u) /\ l = Len(t)
  BY LenProperties
<1>2. /\ l = n + m /\ k \in Nat /\ k <= n /\ k <= l
      /\ \A i \in 1..n : t[i] = s[i]
      /\ \A i \in 1..m : t[n + i] = u[i]
  BY <1>1 DEF Joined
<1>3. Len(x) = n - k /\ \A i \in 1..(n - k) : x[i] = s[k + i]
  <2>1. n <= Len(s)
    BY <1>1
  <2>2. Slice(s, k, n, x)
    BY <1>0, <1>1, <1>2, <2>1, Sliced, Zenon
  <2> QED
    BY <2>2, Zenon DEF Slice
<1>4. /\ Len(z) = (n - k) + m
      /\ \A i \in 1..(n - k) : z[i] = x[i]
      /\ \A i \in 1..m : z[(n - k) + i] = u[i]
  BY <1>0, <1>1, <1>3 DEF Joined
<1>5. l <= Len(t) /\ k <= l /\ k \in Nat /\ l \in Nat
  BY <1>1, <1>2
<1>6. PICK y \in Seq(Units) : /\ y = SubSeq(t, k + 1, l) /\ Len(y) = l - k
                              /\ \A i \in 1..(l - k) : y[i] = t[k + i]
  <2>1. Slice(t, k, l, SubSeq(t, k + 1, l))
    BY <1>5, Sliced, Zenon
  <2> QED
    BY <2>1, Zenon DEF Slice
<1>7. Len(y) = Len(z)
  BY <1>2, <1>4, <1>6
<1>8. ASSUME NEW i \in 1..Len(y) PROVE y[i] = z[i]
  <2>0. i \in 1..(l - k) /\ i \in Int /\ y[i] = t[k + i]
    <3>1. Len(y) = l - k /\ \A h \in 1..(l - k) : y[h] = t[k + h]
      BY <1>6, Zenon
    <3>2. i \in 1..(l - k)
      BY <3>1, Zenon
    <3>3. i \in Int
      BY <1>1, <1>2, <3>2
    <3> QED
      BY <3>1, <3>2, <3>3, Zenon
  <2>1. CASE i <= n - k
    <3>1. i \in 1..(n - k) /\ k + i \in 1..n
      BY <1>2, <2>0, <2>1
    <3>2. z[i] = x[i] /\ x[i] = s[k + i] /\ t[k + i] = s[k + i]
      BY <1>2, <1>3, <1>4, <3>1
    <3> QED
      BY <2>0, <3>2
  <2>2. CASE ~(i <= n - k)
    <3>1. PICK j : j = i - (n - k)
      OBVIOUS
    <3>2. j \in 1..m /\ (n - k) + j = i /\ n + j = k + i
      BY <1>2, <2>0, <2>2, <3>1
    <3>3. z[(n - k) + j] = u[j] /\ t[n + j] = u[j]
      BY <1>2, <1>4, <3>2
    <3> QED
      BY <2>0, <3>2, <3>3
  <2> QED
    BY <2>1, <2>2
<1>9. y = z
  BY <1>7, <1>8, SameSeq
<1>10. k \in 0..l
  BY <1>2
<1> QED
  BY <1>1, <1>6, <1>9, <1>10, Zenon DEF Suffix

\* t is what the suffix of s from k on, x, becomes when u is appended to s.
Grown(s, u, k) ==
    /\ k \in 0..Len(s \o u)
    /\ SubSeq(s \o u, k + 1, Len(s \o u)) = SubSeq(s, k + 1, Len(s)) \o u

LEMMA SuffixGrows ==
  ASSUME NEW s \in Seq(Units), NEW u \in Seq(Units), NEW k \in 0..Len(s)
  PROVE  Grown(s, u, k)
<1>1. PICK x \in Seq(Units) : x = SubSeq(s, k + 1, Len(s))
  BY SuffixTyped
<1>2. PICK t \in Seq(Units), z \in Seq(Units) : t = s \o u /\ z = x \o u
  BY ConcatProperties
<1>3. Joined(s, u, t) /\ Joined(SubSeq(s, k + 1, Len(s)), u, z)
  BY <1>1, <1>2, ConcatAt, Zenon
<1>4. Suffix(t, k, z)
  BY <1>3, SuffixJoined, Zenon
<1> QED
  BY <1>1, <1>2, <1>4, Zenon DEF Grown, Suffix

-----------------------------------------------------------------------------
(* What the invariant says of a state *)

LEMMA BufferTyped ==
  ASSUME TypeOK
  PROVE  peek(input_buffer_) \in Seq(Units) /\ wire \in Seq(Units) /\ Rest \in Seq(Units)
<1>1. IsBuffer(input_buffer_, Units) /\ wire \in Seq(Units)
  BY Zenon DEF TypeOK
<1>2. peek(input_buffer_) \in Seq(Units)
  BY <1>1, Window DEF IsBuffer, peek
<1> QED
  BY <1>1, <1>2, ConcatProperties DEF Rest

LEMMA SentTyped ==
  ASSUME TypeOK
  PROVE  /\ Len(sent) \in Nat /\ DOMAIN sent = 1..Len(sent) /\ kind \in DOMAIN Shapes
         /\ \A i \in 1..Len(sent) : sent[i] \in Shapes[kind] /\ sent[i] \in Requests
<1>1. sent \in Seq(Shapes[kind]) /\ kind \in DOMAIN Shapes
  BY Zenon DEF TypeOK
<1>2. Len(sent) \in Nat /\ DOMAIN sent = 1..Len(sent)
  BY <1>1, LenProperties
<1>3. \A i \in 1..Len(sent) : sent[i] \in Shapes[kind]
  BY <1>1, ElementOfSeq
<1>4. Shapes[kind] \subseteq Requests
  BY <1>1, RequestsTyped
<1> QED
  BY <1>1, <1>2, <1>3, <1>4

LEMMA AfterTyped ==
  ASSUME TypeOK, Laid, NEW d \in 0..Len(sent)
  PROVE  After(d) \in Seq(Units) /\ After(Len(sent)) = << >>
<1>1. stream \in Seq(Units)
  BY Zenon DEF TypeOK
<1>2. EndOf(d) \in 0..Len(stream) /\ EndOf(Len(sent)) = Len(stream)
  BY Zenon DEF Laid
<1>3. SubSeq(stream, EndOf(d) + 1, Len(stream)) \in Seq(Units)
  BY <1>1, <1>2, SuffixTyped, Zenon
<1>4. SubSeq(stream, Len(stream) + 1, Len(stream)) = << >>
  BY <1>1, <1>2, SuffixTyped, Zenon
<1> QED
  BY <1>2, <1>3, <1>4, Zenon DEF After

\* What arrives next belongs to the next request.
LEMMA NextRequest ==
  ASSUME TypeOK, Laid, NEW d \in 0..Len(sent), Rest = After(d), peek(input_buffer_) # << >>
  PROVE  /\ d + 1 \in 1..Len(sent) /\ d + 1 \in 0..Len(sent) /\ d + 1 \in Nat
         /\ sent[d + 1] \in Shapes[kind] /\ sent[d + 1] \in Requests
         /\ After(d + 1) \in Seq(Units)
         /\ Rest = UnitsOf(d + 1, sent[d + 1]) \o After(d + 1)
<1>1. PICK n \in Nat : n = Len(sent)
  BY SentTyped
<1>2. d # n
  <2> SUFFICES ASSUME d = n PROVE FALSE
    OBVIOUS
  <2>1. After(n) = << >>
    BY <1>1, AfterTyped
  <2>2. peek(input_buffer_) \o wire = << >>
    BY <2>1 DEF Rest
  <2> QED
    BY <2>2, BufferTyped, NothingTaken
<1>3. d + 1 \in 1..n /\ d + 1 \in 0..n /\ d \in 0..(n - 1)
  BY <1>1, <1>2
<1>4. After(d) = UnitsOf(d + 1, sent[d + 1]) \o After(d + 1)
  BY <1>1, <1>3, Zenon DEF Laid
<1> QED
  BY <1>1, <1>3, <1>4, SentTyped, AfterTyped

-----------------------------------------------------------------------------
(* Steps that leave the stream alone *)

LEMMA LaidSame ==
  ASSUME UNCHANGED <<kind, sent, stream, ends>>
  PROVE  (Laid <=> Laid') /\ \A d : After(d)' = After(d)
BY DEF Laid, After, EndOf, UnitsOf

LEMMA ServedSame ==
  ASSUME UNCHANGED <<kind, sent>>
  PROVE  \A i : Served(i)' = Served(i) /\ Closing(i)' = Closing(i) /\ Wrong(i)' = Wrong(i)
BY DEF Served, Closing, Wrong

LEMMA InOrderSame ==
  ASSUME UNCHANGED <<kind, sent, replies>>
  PROVE  AnswersInOrder <=> AnswersInOrder'
BY ServedSame DEF AnswersInOrder

LEMMA RepliedSame ==
  ASSUME UNCHANGED <<kind, sent, replies>>, NEW n
  PROVE  Replied(n) <=> Replied(n)'
BY ServedSame DEF Replied

LEMMA ThroughSame ==
  ASSUME UNCHANGED <<kind, sent>>, NEW n
  PROVE  Through(n) <=> Through(n)'
BY ServedSame DEF Through

LEMMA PlacedSame ==
  ASSUME TypeOK, NEW d, Placed(d), UNCHANGED <<kind, sent, stream, ends, parser, replies>>,
         Rest' = Rest, Passed(d)' = Passed(d),
         state_' = "kConnected" => state_ = "kConnected",
         kind = "rpc" /\ session' \in {"dispatch", "AsyncWrite", "written"} =>
            session \in {"dispatch", "AsyncWrite", "written"} /\ serving' = serving
  PROVE  Placed(d)'
<1>1. After(d)' = After(d)
  BY LaidSame
<1>2. At(d)'
  <2>1. At(d)
    BY Zenon DEF Placed
  <2>2. CASE kind = "http"
    BY <1>1, <2>1, <2>2 DEF At, Ahead, Follows, HttpLeft
  <2>3. CASE kind = "rpc"
    BY <1>1, <2>1, <2>3 DEF At
  <2> QED
    BY <2>2, <2>3, SentTyped, RequestsTyped
<1>3. Over(d)' = Over(d)
  BY DEF Over, Begun
<1>4. Through(Over(d))'
  BY <1>3, ThroughSame DEF Placed
<1>5. state_' = "kConnected" => Replied(Passed(d))'
  BY RepliedSame DEF Placed
<1> QED
  BY <1>2, <1>4, <1>5 DEF Placed

-----------------------------------------------------------------------------
(* The client *)

LEMMA InitIInv == Init => IInv
<1> SUFFICES ASSUME Init PROVE IInv
  OBVIOUS
<1>1. /\ sent = << >> /\ stream = << >> /\ ends = << >> /\ wire = << >> /\ replies = << >>
      /\ kind \in DOMAIN Shapes /\ whole_reads \in BOOLEAN /\ fin = FALSE /\ state_ = "kConnected"
      /\ input_buffer_ = NewBuffer /\ session = "AsyncRead" /\ parser = NewParser /\ serving = 0
  BY DEF Init
<1>2. Free \in Units
  BY DEF Free, Units, Tags
<1>3. IsBuffer(input_buffer_, Units) /\ peek(input_buffer_) = << >>
  BY <1>1, <1>2, NewBufferEmpty, Zenon
<1>4. NewParser \in Parsers /\ NewParser.state_ = "kStartLine"
  BY DEF NewParser, Parsers
<1>5. Len(sent) = 0 /\ Len(ends) = 0 /\ MaxRequests \in Nat /\ Len(stream) = 0
  BY <1>1, StreamAssumption DEF StreamAssumption
<1>6. TypeOK
  <2>1. readable_bytes(input_buffer_) = 0
    BY <1>1, BufferAssumption DEF NewBuffer, readable_bytes, BufferAssumption
  <2>2. sent \in Seq(Shapes[kind]) /\ replies \in Seq(1..Len(sent))
    BY <1>1
  <2>3. stream \in Seq(Units) /\ ends \in Seq(Nat) /\ wire \in Seq(Units)
    BY <1>1
  <2>4. Len(sent) <= MaxRequests /\ serving \in 0..Len(sent) /\ Len(ends) = Len(sent)
    BY <1>1, <1>5
  <2> QED
    BY <1>1, <1>3, <1>4, <2>1, <2>2, <2>3, <2>4 DEF TypeOK
<1>7. Laid
  <2>1. EndOf(0) = 0
    BY DEF EndOf
  <2> QED
    BY <1>5, <2>1 DEF Laid
<1>8. Place
  <2>1. Rest = << >> /\ After(0) = << >>
    <3>1. << >> \o << >> = << >>
      BY EmptyConcat
    <3>2. SubSeq(stream, Len(stream) + 1, Len(stream)) = << >>
      <4>1. stream \in Seq(Units) /\ 0 \in 0..Len(stream)
        BY <1>1, <1>5
      <4> QED
        BY <4>1, SuffixTyped
    <3>3. EndOf(0) = Len(stream)
      BY <1>5 DEF EndOf
    <3> QED
      BY <1>1, <1>3, <3>1, <3>2, <3>3, Zenon DEF Rest, After
  <2>2. At(0)
    BY <1>1, <2>1 DEF At
  <2>3. ~Begun /\ Over(0) = 0 /\ Passed(0) = 0
    BY <1>1 DEF Begun, Over, Passed
  <2>4. Through(0)
    BY DEF Through
  <2>5. Replied(0)
    BY <1>1 DEF Replied, Range
  <2>6. Placed(0)
    BY <2>2, <2>3, <2>4, <2>5 DEF Placed
  <2>7. 0 \in 0..Len(sent)
    BY <1>5
  <2> QED
    BY <2>6, <2>7 DEF Place
<1>9. AnswersInOrder
  <2>1. DOMAIN replies = {}
    BY <1>1
  <2>2. Range(replies) = {i \in 1..0 : Served(i)} /\ 0 \in 0..Len(sent)
    BY <1>1, <1>5, <2>1 DEF Range
  <2> QED
    BY <2>1, <2>2 DEF AnswersInOrder
<1> QED
  BY <1>6, <1>7, <1>8, <1>9 DEF IInv

\* What ClientSend adds, and that it changes nothing before it.
LEMMA SentGrows ==
  ASSUME TypeOK, NEW r \in Shapes[kind], ClientSend(r)
  PROVE  /\ Len(sent') = Len(sent) + 1 /\ sent' \in Seq(Shapes[kind])
         /\ \A i \in 1..Len(sent) : sent'[i] = sent[i]
         /\ sent'[Len(sent) + 1] = r
         /\ ends' \in Seq(Nat) /\ Len(ends') = Len(sent')
         /\ \A i \in 1..Len(sent) : ends'[i] = ends[i]
         /\ ends'[Len(sent) + 1] = Len(stream')
         /\ UnitsOf(Len(sent) + 1, r) \in Seq(Units)
         /\ stream' = stream \o UnitsOf(Len(sent) + 1, r) /\ stream' \in Seq(Units)
         /\ wire' = wire \o UnitsOf(Len(sent) + 1, r) /\ wire' \in Seq(Units)
<1>1. PICK n \in Nat : n = Len(sent)
  BY SentTyped
<1>2. sent \in Seq(Shapes[kind]) /\ ends \in Seq(Nat) /\ Len(ends) = n /\ stream \in Seq(Units) /\ wire \in Seq(Units)
  BY <1>1, Zenon DEF TypeOK
<1>3. PICK u \in Seq(Units) : u = UnitsOf(n + 1, r)
  BY <1>1, UnitsOfTyped, SentTyped
<1>4. /\ sent' = Append(sent, r) /\ stream' = stream \o u
      /\ ends' = Append(ends, Len(stream')) /\ wire' = wire \o u
  BY <1>1, <1>3 DEF ClientSend
<1>5. stream' \in Seq(Units) /\ wire' \in Seq(Units)
  BY <1>2, <1>4, ConcatProperties
<1>6. PICK l \in Nat : l = Len(stream')
  BY <1>5, LenProperties
<1>7. /\ sent' \in Seq(Shapes[kind]) /\ Len(sent') = n + 1 /\ sent'[n + 1] = r
      /\ \A i \in 1..n : sent'[i] = sent[i]
  BY <1>1, <1>2, <1>4, AppendProperties
<1>8. ends' = Append(ends, l)
  BY <1>4, <1>6
<1>9. /\ ends' \in Seq(Nat) /\ Len(ends') = n + 1 /\ ends'[n + 1] = l
      /\ \A i \in 1..n : ends'[i] = ends[i]
  BY <1>1, <1>2, <1>8, AppendProperties
<1> QED
  BY <1>1, <1>3, <1>4, <1>5, <1>6, <1>7, <1>9, Zenon

LEMMA ClientSendAfter ==
  ASSUME TypeOK, Laid, NEW r \in Shapes[kind], ClientSend(r),
         NEW u, u = UnitsOf(Len(sent) + 1, r), NEW d \in 0..Len(sent)
  PROVE  After(d)' = After(d) \o u /\ EndOf(d)' = EndOf(d) /\ EndOf(d)' \in 0..Len(stream')
<1>1. PICK n \in Nat : n = Len(sent)
  BY SentTyped
<1>2. EndOf(d)' = EndOf(d)
  <2>1. d = 0 \/ d \in 1..n
    BY <1>1
  <2> QED
    BY <1>1, <2>1, SentGrows DEF EndOf
<1>3. stream \in Seq(Units) /\ EndOf(d) \in 0..Len(stream)
  BY Zenon DEF TypeOK, Laid
<1>4. u \in Seq(Units) /\ stream' = stream \o u
  BY SentGrows, Zenon
<1>5. Grown(stream, u, EndOf(d))
  BY <1>3, <1>4, SuffixGrows, Zenon
<1> QED
  BY <1>2, <1>4, <1>5, Zenon DEF Grown, After

LEMMA ClientSendLaid ==
  ASSUME TypeOK, Laid, NEW r \in Shapes[kind], ClientSend(r)
  PROVE  Laid'
<1>1. PICK n \in Nat : n = Len(sent) /\ Len(sent') = n + 1
  BY SentTyped, SentGrows
<1>2. PICK u \in Seq(Units) : u = UnitsOf(n + 1, r)
  BY <1>1, SentGrows
<1>3. \A d \in 0..n : /\ After(d)' = After(d) \o u
                      /\ EndOf(d)' \in 0..Len(stream') /\ After(d) \in Seq(Units)
  BY <1>1, <1>2, ClientSendAfter, AfterTyped, Zenon
<1>4. EndOf(n + 1)' = Len(stream') /\ stream' \in Seq(Units)
  <2>1. n + 1 # 0
    BY <1>1
  <2> QED
    BY <1>1, <2>1, SentGrows, Zenon DEF EndOf
<1>5. Len(stream') \in Nat
  BY <1>4, LenProperties
<1>6. After(n + 1)' = << >>
  <2>1. 0 \in 0..Len(stream')
    BY <1>5
  <2>2. SubSeq(stream', Len(stream') + 1, Len(stream')) = << >>
    BY <1>4, <2>1, SuffixTyped, Zenon
  <2> QED
    BY <1>4, <2>2, Zenon DEF After
<1>7. \A d \in 0..(n + 1) : EndOf(d)' \in 0..Len(stream')
  <2> TAKE d \in 0..(n + 1)
  <2>1. d \in 0..n \/ d = n + 1
    BY <1>1
  <2>2. Len(stream') \in 0..Len(stream')
    BY <1>5
  <2> QED
    BY <1>3, <1>4, <2>1, <2>2, Zenon
<1>8. \A i, q : UnitsOf(i, q)' = UnitsOf(i, q)
  <2>1. kind' = kind
    BY DEF ClientSend
  <2> QED
    BY <2>1, Zenon DEF UnitsOf
<1>9. \A d \in 0..n : After(d)' = UnitsOf(d + 1, sent'[d + 1]) \o After(d + 1)'
  <2> TAKE d \in 0..n
  <2>1. CASE d = n
    <3>1. After(d)' = u
      <4>1. After(d) = << >>
        BY <1>1, <2>1, AfterTyped, Zenon
      <4> QED
        BY <1>3, <4>1, EmptyConcat, Zenon
    <3>2. sent'[d + 1] = r
      BY <1>1, <2>1, SentGrows
    <3>3. UnitsOf(d + 1, sent'[d + 1]) = u /\ After(d + 1)' = << >>
      BY <1>2, <1>6, <2>1, <3>2, Zenon
    <3> QED
      BY <3>1, <3>3, EmptyConcat, Zenon
  <2>2. CASE d # n
    <3>1. d \in 0..(n - 1) /\ d + 1 \in 0..n /\ d + 1 \in 1..n /\ d + 1 \in Nat
      BY <1>1, <2>2
    <3>2. After(d) = UnitsOf(d + 1, sent[d + 1]) \o After(d + 1)
      BY <1>1, <3>1, Zenon DEF Laid
    <3>3. sent'[d + 1] = sent[d + 1]
      BY <1>1, <3>1, SentGrows
    <3>4. sent[d + 1] \in Shapes[kind] /\ kind \in DOMAIN Shapes
      BY <1>1, <3>1, SentTyped
    <3>5. PICK v \in Seq(Units), a \in Seq(Units) : v = UnitsOf(d + 1, sent[d + 1]) /\ a = After(d + 1)
      BY <1>3, <3>1, <3>4, UnitsOfTyped, Zenon
    <3>6. (v \o a) \o u = v \o (a \o u)
      BY RegroupLeft, Zenon
    <3>7. After(d + 1)' = a \o u
      BY <1>3, <3>1, <3>5, Zenon
    <3>8. After(d)' = (v \o a) \o u
      BY <1>3, <3>2, <3>5, Zenon
    <3> QED
      BY <3>3, <3>5, <3>6, <3>7, <3>8, Zenon
  <2> QED
    BY <2>1, <2>2
<1>10. (n + 1) - 1 = n
  BY <1>1
<1> QED
  BY <1>1, <1>4, <1>7, <1>8, <1>9, <1>10, Zenon DEF Laid

LEMMA HttpLeftTyped ==
  ASSUME NEW p \in Parsers, NEW i \in Nat, NEW r \in Requests, Follows(p, i, r)
  PROVE  HttpLeft(p, i, r) \in Seq(Units)
<1>1. Body(i, r.body) \in Seq(Units) /\ << >> \in Seq(Units) /\ HeadLeft(p, i, r) \in Seq(Units)
  BY UnitsTyped, LeftTyped, Zenon
<1>2. p.state_ \in {"kHeaders", "kBody", "kComplete"}
  BY Zenon DEF Follows
<1>3. p.state_ = "kHeaders" => HttpLeft(p, i, r) = HeadLeft(p, i, r)
  BY DEF HttpLeft
<1>4. p.state_ = "kBody" => HttpLeft(p, i, r) = Body(i, r.body)
  BY DEF HttpLeft
<1>5. p.state_ = "kComplete" => HttpLeft(p, i, r) = << >>
  BY DEF HttpLeft
<1> QED
  BY <1>1, <1>2, <1>3, <1>4, <1>5, Zenon

LEMMA AheadGrows ==
  ASSUME NEW p \in Parsers, NEW i \in Nat, NEW r \in Requests,
         NEW rest \in Seq(Units), NEW a \in Seq(Units), NEW u \in Seq(Units),
         Ahead(p, i, r, rest, a)
  PROVE  Ahead(p, i, r, rest \o u, a \o u)
<1>1. Follows(p, i, r) /\ rest = HttpLeft(p, i, r) \o a
  BY Zenon DEF Ahead
<1>2. PICK l \in Seq(Units) : l = HttpLeft(p, i, r)
  BY <1>1, HttpLeftTyped, Zenon
<1>3. (l \o a) \o u = l \o (a \o u)
  BY RegroupLeft, Zenon
<1> QED
  BY <1>1, <1>2, <1>3, Zenon DEF Ahead

LEMMA ClientSendServed ==
  ASSUME TypeOK, NEW r \in Shapes[kind], ClientSend(r), NEW n \in 0..Len(sent)
  PROVE  /\ \A i \in 1..n : Served(i)' = Served(i) /\ Closing(i)' = Closing(i) /\ Wrong(i)' = Wrong(i)
         /\ Through(n)' = Through(n)
         /\ Replied(n)' = Replied(n)
<1>1. PICK m \in Nat : m = Len(sent)
  BY SentTyped
<1>2. \A i \in 1..m : sent'[i] = sent[i]
  BY <1>1, SentGrows
<1>3. kind' = kind /\ replies' = replies
  BY DEF ClientSend, session_vars
<1>4. \A i \in 1..n : Closing(i)' = Closing(i) /\ Wrong(i)' = Wrong(i)
  BY <1>1, <1>2, <1>3 DEF Closing, Wrong
<1>5. \A i \in 1..n : \A j \in 1..(i - 1) : j \in 1..n
  BY <1>1
<1>6. \A i \in 1..n : Served(i)' = Served(i)
  BY <1>1, <1>2, <1>3, <1>4, <1>5 DEF Served
<1>7. Through(n)' = Through(n)
  BY <1>4 DEF Through
<1>8. Replied(n)' = Replied(n)
  BY <1>3, <1>6 DEF Replied
<1> QED
  BY <1>4, <1>6, <1>7, <1>8

LEMMA OverIn ==
  ASSUME TypeOK, NEW d \in 0..Len(sent), At(d)
  PROVE  Over(d) \in 0..Len(sent) /\ Passed(d) \in 0..Len(sent)
<1>1. PICK n \in Nat : n = Len(sent)
  BY SentTyped
<1>2. Begun => d > 0
  BY DEF At, Begun
<1>3. kind = "rpc" /\ session = "dispatch" => d > 0
  BY DEF At
<1>4. d > 0 => d - 1 \in 0..n
  BY <1>1
<1> QED
  BY <1>1, <1>2, <1>3, <1>4, Zenon DEF Over, Passed

LEMMA RepliesWider ==
  ASSUME NEW n \in Nat, NEW m \in Nat, n <= m, NEW s \in Seq(1..n)
  PROVE  s \in Seq(1..m)
<1>1. 1..n \subseteq 1..m
  OBVIOUS
<1>2. \A i \in 1..Len(s) : s[i] \in 1..n
  BY ElementOfSeq
<1> QED
  BY <1>1, <1>2, SeqDef

LEMMA ClientSendKeeps ==
  ASSUME IInv, NEW r \in Shapes[kind], ClientSend(r)
  PROVE  IInv'
<1>1. TypeOK /\ Laid /\ Place /\ AnswersInOrder
  BY Zenon DEF IInv
<1>2. PICK n \in Nat : n = Len(sent) /\ Len(sent') = n + 1
  BY <1>1, SentTyped, SentGrows
<1>3. /\ UNCHANGED <<kind, whole_reads, fin, state_, input_buffer_, session, parser, serving, replies>>
      /\ Len(sent) < MaxRequests
  BY DEF ClientSend, session_vars
<1>4. TypeOK'
  <2>1. n + 1 <= MaxRequests
    BY <1>2, <1>3, StreamAssumption DEF StreamAssumption
  <2>2. serving' \in 0..(n + 1)
    BY <1>1, <1>2, <1>3 DEF TypeOK
  <2>3. replies' \in Seq(1..(n + 1))
    <3>1. replies \in Seq(1..n)
      BY <1>1, <1>2, Zenon DEF TypeOK
    <3>2. n <= n + 1 /\ n + 1 \in Nat
      BY <1>2
    <3> QED
      BY <1>3, <3>1, <3>2, RepliesWider, Zenon
  <2>4. /\ sent' \in Seq(Shapes[kind]) /\ stream' \in Seq(Units) /\ ends' \in Seq(Nat)
        /\ Len(ends') = n + 1 /\ wire' \in Seq(Units)
    BY <1>1, <1>2, SentGrows
  <2> QED
    BY <1>1, <1>2, <1>3, <2>1, <2>2, <2>3, <2>4, Zenon DEF TypeOK
<1>5. Laid'
  BY <1>1, ClientSendLaid
<1>6. Place'
  <2> SUFFICES ASSUME Live' PROVE \E d \in 0..(n + 1) : Placed(d)'
    BY <1>2, Zenon DEF Place
  <2>1. Live
    BY <1>3 DEF Live
  <2>2. PICK d \in 0..n : Placed(d)
    BY <1>1, <1>2, <2>1, Zenon DEF Place
  <2>3. At(d) /\ Through(Over(d)) /\ (state_ = "kConnected" => Replied(Passed(d)))
    BY <2>2, Zenon DEF Placed
  <2>4. PICK u \in Seq(Units) : u = UnitsOf(n + 1, r)
    BY <1>1, <1>2, SentGrows
  <2>5. After(d)' = After(d) \o u /\ After(d) \in Seq(Units)
    BY <1>1, <1>2, <2>4, ClientSendAfter, AfterTyped, Zenon
  <2>6. Rest' = Rest \o u /\ Rest \in Seq(Units)
    <3>1. wire' = wire \o u
      BY <1>1, <1>2, <2>4, SentGrows
    <3>2. PICK b \in Seq(Units) : b = peek(input_buffer_)
      BY <1>1, BufferTyped
    <3>3. wire \in Seq(Units) /\ Rest \in Seq(Units)
      BY <1>1, BufferTyped
    <3>4. (b \o wire) \o u = b \o (wire \o u)
      BY <3>3, RegroupLeft, Zenon
    <3> QED
      BY <1>3, <3>1, <3>2, <3>3, <3>4, Zenon DEF Rest
  <2>7. Over(d)' = Over(d) /\ Passed(d)' = Passed(d)
    BY <1>3 DEF Over, Passed, Begun
  <2>8. Over(d) \in 0..Len(sent) /\ Passed(d) \in 0..Len(sent)
    BY <1>1, <1>2, <2>3, OverIn
  <2>9. Through(Over(d))'
    <3>1. Through(Over(d)) = Through(Over(d))'
      BY <1>1, <2>7, <2>8, ClientSendServed
    <3> QED
      BY <2>3, <3>1
  <2>10. state_' = "kConnected" => Replied(Passed(d))'
    <3>1. Replied(Passed(d)) = Replied(Passed(d))'
      BY <1>1, <2>7, <2>8, ClientSendServed
    <3> QED
      BY <1>3, <2>3, <3>1
  <2>11. d > 0 => sent'[d] = sent[d] /\ sent[d] \in Requests
    <3>1. d > 0 => d \in 1..n
      BY <1>2
    <3> QED
      BY <1>1, <1>2, <3>1, SentGrows, SentTyped
  <2>12. At(d)'
    <3>1. CASE kind = "http" /\ parser = NewParser /\ Rest = After(d)
      BY <1>3, <2>5, <2>6, <3>1, Zenon DEF At
    <3>2. CASE kind = "http" /\ d > 0 /\ Ahead(parser, d, sent[d], Rest, After(d))
      <4>1. parser \in Parsers /\ d \in Nat
        BY <1>1, <1>2 DEF TypeOK
      <4>2. Ahead(parser, d, sent[d], Rest \o u, After(d) \o u)
        BY <2>5, <2>6, <2>11, <3>2, <4>1, AheadGrows, Zenon
      <4> QED
        BY <1>3, <2>5, <2>6, <2>11, <3>2, <4>2, Zenon DEF At
    <3>3. CASE kind # "http"
      BY <1>3, <2>3, <2>5, <2>6, <2>11, <3>3, Zenon DEF At
    <3> QED
      BY <2>3, <3>1, <3>2, <3>3, Zenon DEF At
  <2>13. d \in 0..(n + 1)
    BY <1>2
  <2> QED
    BY <2>9, <2>10, <2>12, <2>13, Zenon DEF Placed
<1>7. AnswersInOrder'
  <2>1. PICK m \in 0..n : Range(replies) = {i \in 1..m : Served(i)}
    BY <1>1, <1>2, Zenon DEF AnswersInOrder
  <2>2. \A i \in 1..m : Served(i)' = Served(i)
    BY <1>1, <1>2, <2>1, ClientSendServed
  <2>3. Range(replies') = {i \in 1..m : Served(i)'} /\ m \in 0..(n + 1)
    BY <1>2, <1>3, <2>1, <2>2
  <2>4. \A j, k \in DOMAIN replies' : j < k => replies'[j] < replies'[k]
    BY <1>1, <1>3, Zenon DEF AnswersInOrder
  <2> QED
    BY <1>2, <2>3, <2>4, Zenon DEF AnswersInOrder
<1> QED
  BY <1>4, <1>5, <1>6, <1>7, Zenon DEF IInv

-----------------------------------------------------------------------------
(* The I/O loop *)

\* s is cut in two.
Halves(s, k) ==
    /\ SubSeq(s, 1, k) \in Seq(Units) /\ Len(SubSeq(s, 1, k)) = k
    /\ SubSeq(s, k + 1, Len(s)) \in Seq(Units)
    /\ SubSeq(s, 1, k) \o SubSeq(s, k + 1, Len(s)) = s

LEMMA CutInTwo ==
  ASSUME NEW s \in Seq(Units), NEW k \in 0..Len(s)
  PROVE  Halves(s, k)
<1>1. PICK n \in Nat : n = Len(s)
  BY LenProperties
<1>2. k \in Nat /\ k <= n
  BY <1>1
<1>3. PICK y \in Seq(Units) : y = SubSeq(s, k + 1, n) /\ Len(y) = n - k /\ \A i \in 1..(n - k) : y[i] = s[k + i]
  <2>1. n <= Len(s)
    BY <1>1
  <2>2. Slice(s, k, n, SubSeq(s, k + 1, n))
    BY <1>2, <2>1, Sliced, Zenon
  <2> QED
    BY <2>2, Zenon DEF Slice
<1>4. k <= Len(s)
  BY <1>1, <1>2
<1>5. PICK x \in Seq(Units) : x = SubSeq(s, 1, k) /\ Len(x) = k /\ \A i \in 1..k : x[i] = s[i]
  <2>1. Slice(s, 0, k, SubSeq(s, 1, k))
    BY <1>2, <1>4, SlicedFirst, Zenon
  <2>2. /\ SubSeq(s, 1, k) \in Seq(Units) /\ Len(SubSeq(s, 1, k)) = k - 0
        /\ \A i \in 1..(k - 0) : SubSeq(s, 1, k)[i] = s[0 + i]
    BY <2>1, Zenon DEF Slice
  <2>3. k - 0 = k /\ \A i \in 1..k : 0 + i = i
    BY <1>2
  <2> QED
    BY <2>2, <2>3, Zenon
<1>6. PICK z \in Seq(Units) : z = x \o y
  BY ConcatProperties
<1>7. Joined(x, y, z)
  BY <1>6, ConcatAt, Zenon
<1>8. /\ Len(z) = n
      /\ \A i \in 1..k : z[i] = x[i]
      /\ \A i \in 1..(n - k) : z[k + i] = y[i]
  <2>1. /\ Len(z) = Len(x) + Len(y)
        /\ \A i \in 1..Len(x) : z[i] = x[i]
        /\ \A i \in 1..Len(y) : z[Len(x) + i] = y[i]
    BY <1>7, Zenon DEF Joined
  <2>2. Len(z) = k + (n - k)
    BY <1>3, <1>5, <2>1, Zenon
  <2>3. k + (n - k) = n
    BY <1>2
  <2> QED
    BY <1>3, <1>5, <2>1, <2>2, <2>3, Zenon
<1>9. ASSUME NEW i \in 1..Len(z) PROVE z[i] = s[i]
  <2>1. i \in 1..n
    BY <1>8
  <2>2. CASE i <= k
    <3>1. i \in 1..k
      BY <2>1, <2>2
    <3> QED
      BY <1>5, <1>8, <3>1, Zenon
  <2>3. CASE ~(i <= k)
    <3>1. PICK j : j = i - k
      OBVIOUS
    <3>2. j \in 1..(n - k) /\ k + j = i
      BY <1>2, <2>1, <2>3, <3>1
    <3>3. z[k + j] = y[j] /\ y[j] = s[k + j]
      BY <1>3, <1>8, <3>2, Zenon
    <3> QED
      BY <3>2, <3>3
  <2> QED
    BY <2>2, <2>3
<1>10. z = s
  BY <1>1, <1>8, <1>9, SameSeq
<1> QED
  BY <1>1, <1>3, <1>5, <1>6, <1>10, Zenon DEF Halves

\* A step that leaves the stream and the parser where they are.
LEMMA PlaceSame ==
  ASSUME TypeOK, Place, UNCHANGED <<kind, sent, stream, ends, parser, replies>>,
         Rest' = Rest,
         Live' => Live,
         \A d \in 0..Len(sent) : Passed(d)' = Passed(d),
         state_' = "kConnected" => state_ = "kConnected",
         kind = "rpc" /\ session' \in {"dispatch", "AsyncWrite", "written"} =>
            session \in {"dispatch", "AsyncWrite", "written"} /\ serving' = serving
  PROVE  Place'
<1> SUFFICES ASSUME Live' PROVE \E d \in 0..Len(sent) : Placed(d)'
  BY Zenon DEF Place
<1>1. PICK d \in 0..Len(sent) : Placed(d)
  BY Zenon DEF Place
<1>2. Placed(d)'
  BY <1>1, PlacedSame
<1> QED
  BY <1>2

LEMMA ReadKeeps ==
  ASSUME IInv, NEW k \in 1..Len(wire), handle_read(k)
  PROVE  IInv'
<1>1. TypeOK /\ Laid /\ Place /\ AnswersInOrder
  BY Zenon DEF IInv
<1>2. /\ UNCHANGED <<kind, whole_reads, sent, stream, ends, fin, state_, parser, serving, replies>>
      /\ input_buffer_.writer_index_ + k <= kMaxCapacity
      /\ input_buffer_' = read_fd(input_buffer_, SubSeq(wire, 1, k))
      /\ wire' = SubSeq(wire, k + 1, Len(wire))
      /\ session' = IF session = "AsyncRead" THEN "running" ELSE session
  BY DEF handle_read, sent_vars
<1>3. wire \in Seq(Units) /\ k \in 0..Len(wire) /\ IsBuffer(input_buffer_, Units)
  <2>1. wire \in Seq(Units) /\ IsBuffer(input_buffer_, Units)
    BY <1>1, Zenon DEF TypeOK
  <2>2. Len(wire) \in Nat
    BY <2>1, LenProperties
  <2> QED
    BY <2>1, <2>2
<1>4. Halves(wire, k)
  BY <1>3, CutInTwo, Zenon
<1>5. PICK x \in Seq(Units), y \in Seq(Units) :
         /\ x = SubSeq(wire, 1, k) /\ Len(x) = k
         /\ y = SubSeq(wire, k + 1, Len(wire)) /\ x \o y = wire
  BY <1>4, Zenon DEF Halves
<1>6. Free \in Units
  BY DEF Free, Units, Tags
<1>7. IsBuffer(input_buffer_', Units) /\ peek(input_buffer_') = peek(input_buffer_) \o x
  <2>1. input_buffer_.writer_index_ + Len(x) <= kMaxCapacity
    BY <1>2, <1>5
  <2>2. input_buffer_' = read_fd(input_buffer_, x)
    BY <1>2, <1>5
  <2> QED
    BY <1>3, <1>6, <2>1, <2>2, ReadFdIsLast, Zenon
<1>8. Rest' = Rest
  <2>1. PICK b \in Seq(Units) : b = peek(input_buffer_)
    BY <1>1, BufferTyped
  <2>2. (b \o x) \o y = b \o (x \o y)
    BY RegroupLeft, Zenon
  <2> QED
    BY <1>2, <1>5, <1>7, <2>1, <2>2, Zenon DEF Rest
<1>9. TypeOK'
  <2>1. /\ session' \in {"running", "dispatch", "AsyncWrite", "written", "done", "failed"}
        /\ session' \in {"dispatch", "AsyncWrite", "written", "done"} => session' = session
    BY <1>1, <1>2 DEF TypeOK
  <2>2. wire' \in Seq(Units) /\ IsBuffer(input_buffer_', Units)
    BY <1>2, <1>5, <1>7
  <2> QED
    BY <1>1, <1>2, <2>1, <2>2 DEF TypeOK
<1>10. Place'
  <2>1. Live' => Live
    BY <1>2 DEF Live
  <2>2. \A d \in 0..Len(sent) : Passed(d)' = Passed(d)
    BY <1>2 DEF Passed, Begun
  <2> QED
    BY <1>1, <1>2, <1>8, <2>1, <2>2, PlaceSame
<1>11. Laid' /\ AnswersInOrder'
  BY <1>1, <1>2, LaidSame, InOrderSame
<1> QED
  BY <1>9, <1>10, <1>11, Zenon DEF IInv

LEMMA ClientCloseKeeps ==
  ASSUME IInv, ClientClose
  PROVE  IInv'
<1>1. TypeOK /\ Laid /\ Place /\ AnswersInOrder
  BY Zenon DEF IInv
<1>2. /\ UNCHANGED <<kind, whole_reads, sent, stream, ends, wire, state_, input_buffer_, session,
                     parser, serving, replies>>
      /\ fin' = TRUE
  BY DEF ClientClose, sent_vars, session_vars
<1>3. TypeOK'
  BY <1>1, <1>2 DEF TypeOK
<1>4. Place'
  BY <1>1, <1>2, PlaceSame DEF Live, Passed, Begun, Rest
<1>5. Laid' /\ AnswersInOrder'
  BY <1>1, <1>2, LaidSame, InOrderSame
<1> QED
  BY <1>3, <1>4, <1>5, Zenon DEF IInv

LEMMA CloseKeeps ==
  ASSUME IInv, handle_close
  PROVE  IInv'
<1>1. TypeOK /\ Laid /\ Place /\ AnswersInOrder
  BY Zenon DEF IInv
<1>2. /\ UNCHANGED <<kind, whole_reads, sent, stream, ends, wire, fin, input_buffer_, session,
                     parser, serving, replies>>
      /\ state_' = "kDisconnected"
  BY DEF handle_close, sent_vars, session_vars
<1>3. TypeOK'
  BY <1>1, <1>2 DEF TypeOK
<1>4. Place'
  BY <1>1, <1>2, PlaceSame DEF Live, Passed, Begun, Rest
<1>5. Laid' /\ AnswersInOrder'
  BY <1>1, <1>2, LaidSame, InOrderSame
<1> QED
  BY <1>3, <1>4, <1>5, Zenon DEF IInv

LEMMA WriteKeeps ==
  ASSUME IInv, handle_write
  PROVE  IInv'
<1>1. TypeOK /\ Laid /\ Place /\ AnswersInOrder
  BY Zenon DEF IInv
<1>2. /\ UNCHANGED <<kind, whole_reads, sent, stream, ends, wire, fin, state_, input_buffer_,
                     parser, serving, replies>>
      /\ session = "AsyncWrite" /\ session' = "written"
  BY DEF handle_write, sent_vars, conn_vars
<1>3. TypeOK'
  BY <1>1, <1>2 DEF TypeOK
<1>4. Place'
  BY <1>1, <1>2, PlaceSame DEF Live, Passed, Begun, Rest
<1>5. Laid' /\ AnswersInOrder'
  BY <1>1, <1>2, LaidSame, InOrderSame
<1> QED
  BY <1>3, <1>4, <1>5, Zenon DEF IInv

-----------------------------------------------------------------------------
(* The coroutine *)

LEMMA RetrieveRest ==
  ASSUME TypeOK, NEW len \in Nat, input_buffer_' = retrieve(input_buffer_, len), wire' = wire,
         NEW buf, buf = peek(input_buffer_)
  PROVE  IsBuffer(input_buffer_', Units) /\ Rest' = SubSeq(buf, len + 1, Len(buf)) \o wire
<1>1. IsBuffer(input_buffer_, Units) /\ Free \in Units
  <2>1. Free \in Units
    BY DEF Free, Units, Tags
  <2> QED
    BY <2>1, Zenon DEF TypeOK
<1>2. /\ IsBuffer(retrieve(input_buffer_, len), Units)
      /\ peek(retrieve(input_buffer_, len)) = SubSeq(buf, len + 1, Len(buf))
  BY <1>1, RetrieveTakesFirst, Zenon
<1> QED
  BY <1>2, Zenon DEF Rest

LEMMA ThrowsKeeps ==
  ASSUME IInv, HandlerThrows
  PROVE  IInv'
<1>1. TypeOK /\ Laid /\ Place /\ AnswersInOrder
  BY Zenon DEF IInv
<1>2. /\ UNCHANGED <<kind, whole_reads, sent, stream, ends, wire, fin, state_, input_buffer_,
                     parser, serving, replies>>
      /\ session' = "failed"
  BY DEF HandlerThrows, Fail, sent_vars
<1>3. TypeOK'
  BY <1>1, <1>2 DEF TypeOK
<1>4. Place'
  BY <1>2 DEF Place, Live
<1>5. Laid' /\ AnswersInOrder'
  BY <1>1, <1>2, LaidSame, InOrderSame
<1> QED
  BY <1>3, <1>4, <1>5, Zenon DEF IInv

\* Where a session that answers is: at request `serving', which is one to answer.
LEMMA AnsweringIs ==
  ASSUME IInv, session \in {"dispatch", "AsyncWrite", "written"}
  PROVE  /\ serving \in 1..Len(sent) /\ Placed(serving) /\ Served(serving)
         /\ Rest = After(serving)
         /\ kind = "http" => /\ parser.body = Body(serving, sent[serving].body)
                             /\ parser.keep_alive_ = ~sent[serving].last
                             /\ Begun
         /\ Passed(serving) = IF session = "dispatch" THEN serving - 1 ELSE serving
<1>1. TypeOK /\ Laid /\ Place
  BY Zenon DEF IInv
<1>2. /\ kind = "http" => parser.state_ = "kComplete" /\ parser.id = serving
      /\ kind = "rpc" => parser = NewParser
      /\ kind = "http" \/ kind = "rpc"
  BY <1>1, SentTyped, RequestsTyped DEF TypeOK
<1>3. NewParser.state_ = "kStartLine"
  BY DEF NewParser
<1>4. Live
  BY <1>2, <1>3 DEF Live
<1>5. PICK d \in 0..Len(sent) : Placed(d)
  BY <1>1, <1>4, Zenon DEF Place
<1>6. At(d) /\ Through(Over(d))
  BY <1>5, Zenon DEF Placed
<1>7. PICK n \in Nat : n = Len(sent)
  BY <1>1, SentTyped
<1>8. CASE kind = "http"
  <2>1. Begun /\ parser # NewParser
    BY <1>2, <1>3, <1>8 DEF Begun
  <2>2. d > 0 /\ Ahead(parser, d, sent[d], Rest, After(d))
    BY <1>6, <1>8, <2>1, Zenon DEF At
  <2>3. d \in 1..n
    BY <1>7, <2>2
  <2>4. Follows(parser, d, sent[d]) /\ Rest = HttpLeft(parser, d, sent[d]) \o After(d)
    BY <2>2, Zenon DEF Ahead
  <2>5. HttpLeft(parser, d, sent[d]) = << >>
    BY <1>2, <1>8 DEF HttpLeft
  <2>6. After(d) \in Seq(Units)
    BY <1>1, AfterTyped
  <2>7. Rest = After(d)
    BY <2>4, <2>5, <2>6, EmptyConcat, Zenon
  <2>8. /\ serving = d /\ ~sent[d].bad /\ sent[d].body # NoNumber
        /\ parser.body = Body(d, sent[d].body) /\ parser.keep_alive_ = ~sent[d].last
    BY <1>2, <1>8, <2>4 DEF Follows
  <2>9. Over(d) = d - 1
    BY <2>1 DEF Over
  <2>10. Served(d)
    BY <1>6, <1>8, <2>8, <2>9 DEF Served, Wrong, Through
  <2>11. Passed(d) = IF session = "dispatch" THEN d - 1 ELSE d
    BY <1>8, <2>1 DEF Passed
  <2> QED
    BY <1>5, <1>7, <2>1, <2>3, <2>7, <2>8, <2>10, <2>11, Zenon
<1>9. CASE kind = "rpc"
  <2>1. Rest = After(d) /\ d > 0 /\ serving = d /\ ~sent[d].last
    BY <1>6, <1>9 DEF At
  <2>2. d \in 1..n
    BY <1>7, <2>1
  <2>3. sent[d].body \in Nat /\ ~sent[d].bad /\ sent[d].body # NoNumber
    <3>1. sent[d] \in Shapes[kind] /\ kind \in DOMAIN Shapes
      BY <1>1, <1>7, <2>2, SentTyped
    <3>2. sent[d].body \in Nat /\ ~sent[d].bad
      BY <1>9, <3>1, RequestsTyped
    <3> QED
      BY <3>2 DEF NoNumber
  <2>4. Over(d) = d /\ ~Begun
    BY <1>9 DEF Over, Begun
  <2>5. Served(d)
    <3>1. \A j \in 1..(d - 1) : j \in 1..d
      BY <1>7, <2>2
    <3> QED
      BY <1>6, <1>9, <2>1, <2>3, <2>4, <3>1 DEF Served, Wrong, Through
  <2>6. Passed(d) = IF session = "dispatch" THEN d - 1 ELSE d
    BY <1>9, <2>4 DEF Passed
  <2> QED
    BY <1>5, <1>7, <1>9, <2>1, <2>2, <2>5, <2>6
<1> QED
  BY <1>2, <1>8, <1>9

\* The answer of the next request that is to be answered.
LEMMA RepliedNext ==
  ASSUME TypeOK, NEW d \in 1..Len(sent), Replied(d - 1), Served(d),
         replies' = Append(replies, d), UNCHANGED <<kind, sent>>
  PROVE  Replied(d)' /\ replies' \in Seq(1..Len(sent))
<1>1. PICK n \in Nat : n = Len(sent)
  BY SentTyped
<1>2. PICK m \in Nat : m = Len(replies)
  BY LenProperties DEF TypeOK
<1>3. replies \in Seq(1..n) /\ d \in 1..n
  BY <1>1, Zenon DEF TypeOK
<1>4. /\ replies' \in Seq(1..n) /\ Len(replies') = m + 1 /\ replies'[m + 1] = d
      /\ \A i \in 1..m : replies'[i] = replies[i]
  BY <1>2, <1>3, AppendProperties
<1>5. DOMAIN replies = 1..m /\ DOMAIN replies' = 1..(m + 1)
  BY <1>2, <1>3, <1>4, LenProperties
<1>6. /\ \A j, k \in 1..m : j < k => replies[j] < replies[k]
      /\ Range(replies) = {i \in 1..(d - 1) : Served(i)}
  BY <1>5, Zenon DEF Replied
<1>7. \A j \in 1..m : replies[j] \in 1..(d - 1) /\ Served(replies[j])
  BY <1>5, <1>6 DEF Range
<1>8. \A j, k \in 1..(m + 1) : j < k => replies'[j] < replies'[k]
  <2> TAKE j \in 1..(m + 1), k \in 1..(m + 1)
  <2> HAVE j < k
  <2>1. j \in 1..m /\ (k \in 1..m \/ k = m + 1)
    BY <1>2
  <2>2. CASE k \in 1..m
    BY <1>4, <1>6, <2>1, <2>2
  <2>3. CASE k = m + 1
    BY <1>3, <1>4, <1>7, <2>1, <2>3
  <2> QED
    BY <2>1, <2>2, <2>3
<1>9. Range(replies') = {i \in 1..d : Served(i)}
  <2>1. \A j \in 1..(m + 1) : replies'[j] \in 1..d /\ Served(replies'[j])
    <3> TAKE j \in 1..(m + 1)
    <3>1. j \in 1..m \/ j = m + 1
      BY <1>2
    <3>2. d \in 1..d /\ 1..(d - 1) \subseteq 1..d
      BY <1>1, <1>3
    <3> QED
      BY <1>4, <1>7, <3>1, <3>2
  <2>2. \A i \in 1..d : Served(i) => \E j \in 1..(m + 1) : replies'[j] = i
    <3> TAKE i \in 1..d
    <3> HAVE Served(i)
    <3>1. CASE i = d
      BY <1>2, <1>4, <3>1
    <3>2. CASE i # d
      <4>1. i \in 1..(d - 1)
        BY <1>3, <3>2
      <4>2. i \in Range(replies)
        BY <1>6, <4>1
      <4>3. PICK j \in 1..m : replies[j] = i
        BY <1>5, <4>2 DEF Range
      <4>4. j \in 1..(m + 1)
        BY <1>2
      <4> QED
        BY <1>4, <4>3, <4>4
    <3> QED
      BY <3>1, <3>2
  <2> QED
    BY <1>5, <2>1, <2>2 DEF Range
<1>10. {i \in 1..d : Served(i)'} = {i \in 1..d : Served(i)}
  BY ServedSame
<1> QED
  BY <1>1, <1>4, <1>5, <1>8, <1>9, <1>10 DEF Replied

LEMMA AnswerKeeps ==
  ASSUME IInv, Answer
  PROVE  IInv'
<1>1. TypeOK /\ Laid /\ Place /\ AnswersInOrder
  BY Zenon DEF IInv
<1>2. /\ UNCHANGED <<kind, whole_reads, sent, stream, ends, wire, fin, state_, input_buffer_,
                     parser, serving>>
      /\ session = "dispatch" /\ session' \in {"AsyncWrite", "written"}
      /\ IF state_ = "kConnected" THEN replies' = Append(replies, serving) ELSE UNCHANGED replies
  BY DEF Answer, sent_vars, conn_vars
<1>3. /\ serving \in 1..Len(sent) /\ Placed(serving) /\ Served(serving)
      /\ Rest = After(serving) /\ (kind = "http" => Begun) /\ Passed(serving) = serving - 1
  BY <1>1, <1>2, AnsweringIs DEF IInv
<1>4. PICK d \in 1..Len(sent) : d = serving
  BY <1>3
<1>5. PICK n \in Nat : n = Len(sent)
  BY <1>1, SentTyped
<1>6. At(d) /\ Through(Over(d)) /\ (state_ = "kConnected" => Replied(d - 1))
  <2>1. Placed(d) /\ Passed(d) = d - 1
    BY <1>3, <1>4
  <2> QED
    BY <2>1, Zenon DEF Placed
<1>7. state_ = "kConnected" => Replied(d)' /\ replies' \in Seq(1..Len(sent))
  BY <1>1, <1>2, <1>3, <1>4, <1>6, RepliedNext
<1>8. replies' \in Seq(1..Len(sent))
  BY <1>1, <1>2, <1>7 DEF TypeOK
<1>9. TypeOK'
  <2>1. kind = "http" => parser.state_ = "kComplete" /\ parser.id = serving
    BY <1>1, <1>2 DEF TypeOK
  <2>2. serving \in 0..Len(sent) /\ state_ \in {"kConnected", "kDisconnecting", "kDisconnected"}
    BY <1>1 DEF TypeOK
  <2> QED
    BY <1>1, <1>2, <1>8, <2>1, <2>2 DEF TypeOK
<1>10. Place'
  <2>1. Passed(d)' = d
    BY <1>2, <1>3 DEF Passed, Begun
  <2>2. Over(d)' = Over(d)
    BY <1>2 DEF Over, Begun
  <2>3. Through(Over(d))'
    BY <1>2, <1>6, <2>2, ThroughSame
  <2>4. At(d)'
    <3>1. After(d)' = After(d) /\ Rest' = Rest
      BY <1>2, LaidSame DEF Rest
    <3>2. CASE kind = "http"
      BY <1>2, <1>6, <3>1, <3>2 DEF At, Ahead, Follows, HttpLeft
    <3>3. CASE kind = "rpc"
      BY <1>2, <1>6, <3>1, <3>3 DEF At
    <3> QED
      BY <1>1, <3>2, <3>3, SentTyped, RequestsTyped
  <2>5. Placed(d)'
    BY <1>2, <1>7, <2>1, <2>3, <2>4 DEF Placed
  <2>6. d \in 0..Len(sent')
    BY <1>2, <1>5
  <2> QED
    BY <2>5, <2>6 DEF Place
<1>11. AnswersInOrder'
  <2>1. CASE state_ = "kConnected"
    <3>1. Replied(d)' /\ d \in 0..Len(sent')
      BY <1>2, <1>5, <1>7, <2>1
    <3> QED
      BY <3>1 DEF Replied, AnswersInOrder
  <2>2. CASE state_ # "kConnected"
    BY <1>1, <1>2, <2>2, InOrderSame
  <2> QED
    BY <2>1, <2>2
<1>12. Laid'
  BY <1>1, <1>2, LaidSame
<1> QED
  BY <1>9, <1>10, <1>11, <1>12, Zenon DEF IInv

LEMMA AfterWriteKeeps ==
  ASSUME IInv, AfterWrite
  PROVE  IInv'
<1>1. TypeOK /\ Laid /\ Place /\ AnswersInOrder
  BY Zenon DEF IInv
<1>2. /\ UNCHANGED <<kind, whole_reads, sent, stream, ends, wire, fin, input_buffer_, serving, replies>>
      /\ session = "written"
  BY DEF AfterWrite, sent_vars
<1>3. Laid' /\ AnswersInOrder'
  BY <1>1, <1>2, LaidSame, InOrderSame
<1>4. /\ serving' \in 0..Len(sent) /\ replies' \in Seq(1..Len(sent))
      /\ state_ \in {"kConnected", "kDisconnecting", "kDisconnected"}
  BY <1>1, <1>2 DEF TypeOK
<1>5. NewParser.state_ = "kStartLine"
  BY DEF NewParser
<1>6. CASE kind = "http" /\ parser.keep_alive_ /\ parser' = reset(parser) /\ LoopTop
  <2>1. /\ parser' = NewParser /\ state_' = state_
        /\ session' = IF state_ # "kConnected" THEN "done"
                      ELSE IF readable_bytes(input_buffer_) = 0 THEN "AsyncRead" ELSE "running"
    BY <1>6 DEF reset, LoopTop
  <2>2. TypeOK'
    <3>1. NewParser \in Parsers
      BY DEF NewParser, Parsers
    <3> QED
      BY <1>1, <1>2, <1>4, <1>5, <1>6, <2>1, <3>1 DEF TypeOK
  <2>3. Place'
    <3>1. PICK d \in 1..Len(sent) : d = serving
      BY <1>1, <1>2, AnsweringIs DEF IInv
    <3>2. /\ Placed(d) /\ Served(d) /\ Rest = After(d) /\ Begun /\ Passed(d) = d
          /\ parser.keep_alive_ = ~sent[d].last
      BY <1>1, <1>2, <1>6, <3>1, AnsweringIs DEF IInv
    <3>3. PICK n \in Nat : n = Len(sent)
      BY <1>1, SentTyped
    <3>4. ~Begun' /\ Over(d)' = d /\ Passed(d)' = d
      BY <1>2, <1>6, <2>1 DEF Begun, Over, Passed
    <3>5. At(d)'
      <4>1. Rest' = Rest /\ After(d)' = After(d)
        BY <1>2, LaidSame DEF Rest
      <4> QED
        BY <1>2, <1>6, <2>1, <3>2, <4>1 DEF At
    <3>6. Through(d)'
      <4>1. Through(d - 1)
        BY <3>2 DEF Placed, Over
      <4>2. ~Closing(d) /\ ~Wrong(d)
        BY <1>6, <3>2 DEF Closing, Served
      <4>3. \A j \in 1..d : j \in 1..(d - 1) \/ j = d
        BY <3>3
      <4>4. Through(d)
        BY <4>1, <4>2, <4>3 DEF Through
      <4> QED
        BY <1>2, <4>4, ThroughSame
    <3>7. state_' = "kConnected" => Replied(d)'
      <4>1. state_ = "kConnected" => Replied(d)
        BY <3>2, Zenon DEF Placed
      <4> QED
        BY <1>2, <2>1, <4>1, RepliedSame
    <3>8. Placed(d)'
      BY <3>4, <3>5, <3>6, <3>7 DEF Placed
    <3>9. d \in 0..Len(sent')
      BY <1>2, <3>3
    <3> QED
      BY <3>8, <3>9 DEF Place
  <2> QED
    BY <1>3, <2>2, <2>3, Zenon DEF IInv
<1>7. CASE kind = "http" /\ ~parser.keep_alive_ /\ Leave /\ UNCHANGED parser
  <2>1. /\ parser' = parser /\ session' = "done"
        /\ state_' = IF state_ = "kConnected" THEN "kDisconnecting" ELSE state_
    BY <1>7 DEF Leave
  <2>2. TypeOK'
    BY <1>1, <1>2, <1>4, <2>1 DEF TypeOK
  <2>3. Place'
    BY <2>1 DEF Place, Live
  <2> QED
    BY <1>3, <2>2, <2>3, Zenon DEF IInv
<1>8. CASE kind = "rpc" /\ session' = "running" /\ UNCHANGED <<state_, parser>>
  <2>1. TypeOK'
    BY <1>1, <1>2, <1>4, <1>8 DEF TypeOK
  <2>2. Place'
    BY <1>1, <1>2, <1>8, PlaceSame DEF Live, Passed, Begun, Rest
  <2> QED
    BY <1>3, <2>1, <2>2, Zenon DEF IInv
<1> QED
  BY <1>6, <1>7, <1>8 DEF AfterWrite

LEMMA EmptyNoLine == find_crlf(<< >>) = 0
<1>1. << >> \in Seq(Units) /\ << >> \o << >> = << >>
  BY EmptyConcat
<1> QED
  BY <1>1, NothingTaken, Zenon

\* Where an iteration of parse leaves the session.
Parsed(q, n, rest) ==
    /\ n \in Nat /\ q \in Parsers
    /\ q.state_ # "kError" =>
          \E e \in 1..Len(sent) :
             /\ Ahead(q, e, sent[e], rest, After(e))
             /\ Through(e - 1) /\ (state_ = "kConnected" => Replied(e - 1))

LEMMA ParseStep ==
  ASSUME IInv, kind = "http", session = "running",
         NEW buf, buf = peek(input_buffer_), ~Returns(parser, buf), ~Throws(parser, buf)
  PROVE  Parsed(parse(parser, buf), Taken(parser, buf),
                SubSeq(buf, Taken(parser, buf) + 1, Len(buf)) \o wire)
<1>1. TypeOK /\ Laid /\ Place
  BY Zenon DEF IInv
<1>2. buf \in Seq(Units) /\ wire \in Seq(Units) /\ Rest = buf \o wire
  BY <1>1, BufferTyped DEF Rest
<1>3. parser \in Parsers /\ parser.state_ \notin {"kComplete", "kError"}
  BY <1>1 DEF TypeOK, Returns
<1>4. Live
  BY <1>3 DEF Live
<1>5. PICK d \in 0..Len(sent) : Placed(d)
  BY <1>1, <1>4, Zenon DEF Place
<1>6. At(d) /\ Through(Over(d)) /\ (state_ = "kConnected" => Replied(Passed(d)))
  BY <1>5, Zenon DEF Placed
<1>7. PICK n \in Nat : n = Len(sent)
  BY <1>1, SentTyped
<1>8. PICK q, m, rest : q = parse(parser, buf) /\ m = Taken(parser, buf)
                        /\ rest = SubSeq(buf, Taken(parser, buf) + 1, Len(buf)) \o wire
  OBVIOUS
<1> SUFFICES Parsed(q, m, rest)
  BY <1>8, Zenon
<1>9. CASE parser = NewParser /\ Rest = After(d)
  <2>1. Over(d) = d /\ Passed(d) = d
    BY <1>9 DEF Over, Passed, Begun
  <2>2. buf # << >>
    <3>1. find_crlf(buf) # 0
      BY <1>9 DEF Returns, NewParser
    <3> QED
      BY <3>1, EmptyNoLine, Zenon
  <2>3. PICK e, r : e = d + 1 /\ r = sent[d + 1]
    OBVIOUS
  <2>4. /\ e \in 1..Len(sent) /\ e \in Nat /\ r \in Requests /\ After(e) \in Seq(Units)
        /\ Rest = UnitsOf(e, r) \o After(e)
    BY <1>1, <1>9, <2>2, <2>3, NextRequest
  <2>5. PICK a \in Seq(Units) : a = After(e)
    BY <2>4
  <2>6. buf \o wire = HttpUnits(e, r) \o a
    BY <1>2, <2>4, <2>5, Zenon DEF UnitsOf
  <2>7. /\ Taken(NewParser, buf) \in Nat /\ parse(NewParser, buf) \in Parsers
        /\ parse(NewParser, buf).state_ # "kError" =>
               Ahead(parse(NewParser, buf), e, r,
                     SubSeq(buf, Taken(NewParser, buf) + 1, Len(buf)) \o wire, a)
    <3>1. ~Returns(NewParser, buf)
      BY <1>9, Zenon
    <3> QED
      BY <1>2, <2>4, <2>6, <3>1, StartParsed, Zenon
  <2>8. m \in Nat /\ q \in Parsers /\ (q.state_ # "kError" => Ahead(q, e, sent[e], rest, After(e)))
    BY <1>8, <1>9, <2>3, <2>5, <2>7, Zenon
  <2>9. e - 1 = d
    BY <1>7, <2>3
  <2> QED
    BY <1>6, <2>1, <2>4, <2>8, <2>9, Zenon DEF Parsed
<1>10. CASE d > 0 /\ Ahead(parser, d, sent[d], Rest, After(d))
  <2>1. d \in 1..n /\ d \in Nat
    BY <1>7, <1>10
  <2>2. PICK r \in Requests, a \in Seq(Units) : r = sent[d] /\ a = After(d)
    BY <1>1, <1>7, <2>1, SentTyped, AfterTyped
  <2>3. Follows(parser, d, r) /\ buf \o wire = HttpLeft(parser, d, r) \o a
    BY <1>2, <1>10, <2>2, Zenon DEF Ahead
  <2>4. parser.state_ = "kHeaders" \/ parser.state_ = "kBody"
    BY <1>3, <2>3 DEF Follows
  <2>5. Over(d) = d - 1 /\ Passed(d) = d - 1
    <3>1. parser # NewParser
      BY <2>4 DEF NewParser
    <3> QED
      BY <3>1 DEF Over, Passed, Begun
  <2>6. m \in Nat /\ q \in Parsers /\ Ahead(q, d, r, rest, a)
    <3>1. CASE parser.state_ = "kHeaders"
      BY <1>2, <1>3, <1>8, <2>1, <2>3, <3>1, HeadersParsed, Zenon
    <3>2. CASE parser.state_ = "kBody"
      BY <1>2, <1>3, <1>8, <2>1, <2>3, <3>2, BodyParsed, Zenon
    <3> QED
      BY <2>4, <3>1, <3>2
  <2> QED
    BY <1>6, <1>7, <2>1, <2>2, <2>5, <2>6, Zenon DEF Parsed
<1> QED
  BY <1>6, <1>9, <1>10, Zenon DEF At

LEMMA ParseKeeps ==
  ASSUME IInv, kind = "http", session = "running",
         ~Returns(parser, peek(input_buffer_)), ~Throws(parser, peek(input_buffer_)),
         parser' = parse(parser, peek(input_buffer_)),
         input_buffer_' = retrieve(input_buffer_, Taken(parser, peek(input_buffer_))),
         UNCHANGED <<kind, whole_reads, sent, stream, ends, wire, fin, state_, session, serving, replies>>
  PROVE  IInv'
<1>1. TypeOK /\ Laid /\ Place /\ AnswersInOrder
  BY Zenon DEF IInv
<1>2. PICK buf : buf = peek(input_buffer_)
  OBVIOUS
<1>3. PICK q, m, rest : q = parse(parser, buf) /\ m = Taken(parser, buf)
                        /\ rest = SubSeq(buf, Taken(parser, buf) + 1, Len(buf)) \o wire
  OBVIOUS
<1>4. Parsed(q, m, rest)
  BY <1>2, <1>3, ParseStep, Zenon
<1>5. m \in Nat /\ q \in Parsers
  BY <1>4, Zenon DEF Parsed
<1>6. parser' = q /\ input_buffer_' = retrieve(input_buffer_, m)
  BY <1>2, <1>3, Zenon
<1>7. IsBuffer(input_buffer_', Units) /\ Rest' = rest
  <2>1. wire' = wire
    OBVIOUS
  <2>2. IsBuffer(input_buffer_', Units) /\ Rest' = SubSeq(buf, m + 1, Len(buf)) \o wire
    BY <1>1, <1>2, <1>5, <1>6, <2>1, RetrieveRest, Zenon
  <2> QED
    BY <1>3, <2>2, Zenon
<1>8. TypeOK'
  BY <1>1, <1>5, <1>6, <1>7 DEF TypeOK
<1>9. Place'
  <2> SUFFICES ASSUME Live' PROVE \E d \in 0..Len(sent) : Placed(d)'
    BY Zenon DEF Place
  <2>1. q.state_ # "kError"
    BY <1>6 DEF Live
  <2>2. PICK e \in 1..Len(sent) : /\ Ahead(q, e, sent[e], rest, After(e))
                                  /\ Through(e - 1) /\ (state_ = "kConnected" => Replied(e - 1))
    BY <1>4, <2>1, Zenon DEF Parsed
  <2>3. PICK n \in Nat : n = Len(sent)
    BY <1>1, SentTyped
  <2>4. e \in 1..n /\ e \in 0..n /\ e > 0
    BY <2>3
  <2>5. q # NewParser
    <3>1. q.state_ \in {"kHeaders", "kBody", "kComplete"}
      BY <2>2, Zenon DEF Ahead, Follows
    <3> QED
      BY <3>1 DEF NewParser
  <2>6. Over(e)' = e - 1 /\ Passed(e)' = e - 1
    BY <1>6, <2>5 DEF Over, Passed, Begun
  <2>7. At(e)'
    <3>1. After(e)' = After(e)
      BY LaidSame
    <3>2. Ahead(parser', e, sent'[e], Rest', After(e)')
      BY <1>6, <1>7, <2>2, <3>1
    <3> QED
      BY <2>4, <3>2, Zenon DEF At
  <2>8. Through(e - 1)' /\ (state_' = "kConnected" => Replied(e - 1)')
    BY <2>2, ThroughSame, RepliedSame
  <2>9. Placed(e)'
    BY <2>6, <2>7, <2>8 DEF Placed
  <2> QED
    BY <2>3, <2>4, <2>9
<1>10. Laid' /\ AnswersInOrder'
  BY <1>1, LaidSame, InOrderSame
<1> QED
  BY <1>8, <1>9, <1>10, Zenon DEF IInv

LEMMA HttpRunKeeps ==
  ASSUME IInv, HttpRun
  PROVE  IInv'
<1>1. TypeOK /\ Laid /\ Place /\ AnswersInOrder
  BY Zenon DEF IInv
<1>2. /\ UNCHANGED <<kind, whole_reads, sent, stream, ends, wire, fin, replies>>
      /\ kind = "http" /\ session = "running"
  BY DEF HttpRun, sent_vars
<1>3. Laid' /\ AnswersInOrder'
  BY <1>1, <1>2, LaidSame, InOrderSame
<1>4. CASE /\ Throws(parser, peek(input_buffer_))
           /\ input_buffer_' = retrieve(input_buffer_, 1)
           /\ Fail
           /\ UNCHANGED <<parser, serving>>
  <2>1. session' = "failed" /\ UNCHANGED <<state_, parser, serving>>
    BY <1>4 DEF Fail
  <2>2. IsBuffer(input_buffer_', Units)
    <3>1. 1 \in Nat /\ wire' = wire
      BY <1>2
    <3> QED
      BY <1>1, <1>4, <3>1, RetrieveRest, Zenon
  <2>3. TypeOK'
    BY <1>1, <1>2, <2>1, <2>2 DEF TypeOK
  <2>4. Place'
    BY <2>1 DEF Place, Live
  <2> QED
    BY <1>3, <2>3, <2>4, Zenon DEF IInv
<1>5. CASE /\ ~Returns(parser, peek(input_buffer_))
           /\ ~Throws(parser, peek(input_buffer_))
           /\ parser' = parse(parser, peek(input_buffer_))
           /\ input_buffer_' = retrieve(input_buffer_, Taken(parser, peek(input_buffer_)))
           /\ UNCHANGED <<session, serving, state_>>
  BY <1>2, <1>5, ParseKeeps
<1>6. CASE /\ parser.state_ = "kComplete"
           /\ session' = "dispatch" /\ serving' = parser.id
           /\ UNCHANGED <<parser, input_buffer_, state_>>
  <2>1. Live
    BY <1>2, <1>6 DEF Live
  <2>2. PICK d \in 0..Len(sent) : Placed(d)
    BY <1>1, <2>1, Zenon DEF Place
  <2>3. parser # NewParser
    BY <1>6 DEF NewParser
  <2>4. d > 0 /\ Ahead(parser, d, sent[d], Rest, After(d))
    BY <1>2, <2>2, <2>3, Zenon DEF Placed, At
  <2>5. parser.id \in 0..Len(sent)
    BY <2>4 DEF Ahead, Follows
  <2>6. TypeOK'
    BY <1>1, <1>2, <1>6, <2>5 DEF TypeOK
  <2>7. Place'
    <3>1. kind # "rpc"
      BY <1>2
    <3> QED
      BY <1>1, <1>2, <1>6, <3>1, PlaceSame DEF Live, Passed, Begun, Rest
  <2> QED
    BY <1>3, <2>6, <2>7, Zenon DEF IInv
<1>7. CASE /\ parser.state_ = "kError"
           /\ Leave
           /\ UNCHANGED <<parser, input_buffer_, serving>>
  <2>1. /\ session' = "done"
        /\ state_' = IF state_ = "kConnected" THEN "kDisconnecting" ELSE state_
    BY <1>7 DEF Leave
  <2>2. TypeOK'
    BY <1>1, <1>2, <1>7, <2>1 DEF TypeOK
  <2>3. Place'
    BY <2>1 DEF Place, Live
  <2> QED
    BY <1>3, <2>2, <2>3, Zenon DEF IInv
<1>8. CASE /\ parser.state_ \notin {"kComplete", "kError"}
           /\ Returns(parser, peek(input_buffer_))
           /\ LoopTop
           /\ UNCHANGED <<parser, input_buffer_, serving>>
  <2>1. /\ UNCHANGED state_
        /\ session' = IF state_ # "kConnected" THEN "done"
                      ELSE IF readable_bytes(input_buffer_) = 0 THEN "AsyncRead" ELSE "running"
    BY <1>8 DEF LoopTop
  <2>2. TypeOK'
    BY <1>1, <1>2, <1>8, <2>1 DEF TypeOK
  <2>3. Place'
    <3>1. kind # "rpc" /\ (Live' => Live) /\ Rest' = Rest
      BY <1>2, <1>8, <2>1 DEF Live, Rest
    <3>2. \A d \in 0..Len(sent) : Passed(d)' = Passed(d)
      BY <1>2, <1>8, <2>1 DEF Passed, Begun
    <3> QED
      BY <1>1, <1>2, <1>8, <2>1, <3>1, <3>2, PlaceSame
  <2> QED
    BY <1>3, <2>2, <2>3, Zenon DEF IInv
<1> QED
  BY <1>4, <1>5, <1>6, <1>7, <1>8 DEF HttpRun

LEMMA RpcRunKeeps ==
  ASSUME IInv, RpcRun
  PROVE  IInv'
<1>1. TypeOK /\ Laid /\ Place /\ AnswersInOrder
  BY Zenon DEF IInv
<1>2. /\ UNCHANGED <<kind, whole_reads, sent, stream, ends, wire, fin, parser, replies, state_>>
      /\ kind = "rpc" /\ session = "running"
  BY DEF RpcRun, sent_vars, LoopTop
<1>3. Laid' /\ AnswersInOrder'
  BY <1>1, <1>2, LaidSame, InOrderSame
<1>4. parser = NewParser /\ NewParser.state_ = "kStartLine"
  BY <1>1, <1>2 DEF TypeOK, NewParser
<1>5. CASE ~decode(peek(input_buffer_))
  <2>1. /\ UNCHANGED <<input_buffer_, serving>>
        /\ session' = IF state_ # "kConnected" THEN "done"
                      ELSE IF readable_bytes(input_buffer_) = 0 THEN "AsyncRead" ELSE "running"
    BY <1>5 DEF RpcRun, LoopTop
  <2>2. TypeOK'
    BY <1>1, <1>2, <1>4, <2>1 DEF TypeOK
  <2>3. Place'
    <3>1. (Live' => Live) /\ Rest' = Rest /\ session' \notin {"dispatch", "AsyncWrite", "written"}
      BY <1>2, <2>1 DEF Live, Rest
    <3>2. \A d \in 0..Len(sent) : Passed(d)' = Passed(d)
      BY <1>2, <2>1, <3>1 DEF Passed, Begun
    <3> QED
      BY <1>1, <1>2, <2>1, <3>1, <3>2, PlaceSame
  <2> QED
    BY <1>3, <2>2, <2>3, Zenon DEF IInv
<1>6. CASE decode(peek(input_buffer_))
  <2>1. PICK buf \in Seq(Units) : buf = peek(input_buffer_)
    BY <1>1, BufferTyped
  <2>2. wire \in Seq(Units) /\ Rest = buf \o wire /\ decode(buf) /\ buf # << >>
    BY <1>1, <1>6, <2>1, BufferTyped DEF Rest, decode
  <2>3. Live
    BY <1>2, <1>4 DEF Live
  <2>4. PICK d \in 0..Len(sent) : Placed(d)
    BY <1>1, <2>3, Zenon DEF Place
  <2>5. Rest = After(d) /\ Through(d) /\ (state_ = "kConnected" => Replied(d))
    BY <1>2, <2>4 DEF Placed, At, Over, Passed, Begun
  <2>6. PICK n \in Nat : n = Len(sent)
    BY <1>1, SentTyped
  <2>7. PICK e, r : e = d + 1 /\ r = sent[d + 1]
    OBVIOUS
  <2>8. /\ e \in 1..Len(sent) /\ e \in 0..Len(sent) /\ e \in Nat /\ r \in Requests
        /\ r \in Shapes[kind] /\ After(e) \in Seq(Units)
        /\ Rest = UnitsOf(e, r) \o After(e)
    BY <1>1, <2>1, <2>2, <2>5, <2>7, NextRequest
  <2>9. r.body \in Nat /\ ~r.bad
    BY <1>1, <1>2, <2>8, SentTyped, RequestsTyped
  <2>10. PICK a \in Seq(Units) : a = After(e)
    BY <2>8
  <2>11. buf \o wire = RpcUnits(e, r) \o a
    BY <1>2, <2>2, <2>8, <2>10 DEF UnitsOf
  <2>12. /\ buf[1] = <<IF r.last THEN "other" ELSE "request", e, r.body>>
         /\ SubSeq(buf, (r.body + 1) + 1, Len(buf)) \o wire = a
    <3>1. Message(buf, wire, e, r, a)
      BY <2>2, <2>8, <2>9, <2>11, Decoded, Zenon
    <3> QED
      BY <3>1, Zenon DEF Message
  <2>13. buf[1][1] = (IF r.last THEN "other" ELSE "request") /\ buf[1][2] = e /\ buf[1][3] = r.body
    BY <2>12
  <2>14. PICK m \in Nat : m = r.body + 1
    BY <2>9
  <2>15. /\ input_buffer_' = retrieve(input_buffer_, m)
         /\ session' = IF r.last THEN "running" ELSE "dispatch"
         /\ serving' = IF r.last THEN serving ELSE e
    BY <1>6, <2>1, <2>13, <2>14 DEF RpcRun
  <2>16. IsBuffer(input_buffer_', Units) /\ Rest' = a
    <3>1. wire' = wire
      BY <1>2
    <3>2. IsBuffer(input_buffer_', Units) /\ Rest' = SubSeq(buf, m + 1, Len(buf)) \o wire
      BY <1>1, <2>1, <2>15, <3>1, RetrieveRest, Zenon
    <3> QED
      BY <2>12, <2>14, <3>2, Zenon
  <2>17. TypeOK'
    BY <1>1, <1>2, <2>8, <2>15, <2>16 DEF TypeOK
  <2>18. Place'
    <3>1. At(e)'
      <4>1. After(e)' = a
        BY <1>2, <2>10, LaidSame
      <4>2. session' \in {"dispatch", "AsyncWrite", "written"} => e > 0 /\ serving' = e /\ ~sent'[e].last
        BY <1>2, <2>7, <2>8, <2>15
      <4> QED
        BY <1>2, <2>16, <4>1, <4>2 DEF At
    <3>2. Over(e)' = e /\ Passed(e)' = IF r.last THEN e ELSE d
      <4>1. e - 1 = d
        BY <2>6, <2>7
      <4> QED
        BY <1>2, <2>15, <4>1 DEF Over, Passed, Begun
    <3>3. Through(e)'
      <4>1. ~Closing(e) /\ ~Wrong(e)
        BY <1>2, <2>7, <2>9 DEF Closing, Wrong, NoNumber
      <4>2. \A j \in 1..e : j \in 1..d \/ j = e
        BY <2>6, <2>7
      <4>3. Through(e)
        BY <2>5, <4>1, <4>2 DEF Through
      <4> QED
        BY <1>2, <4>3, ThroughSame
    <3>4. state_ = "kConnected" => Replied(IF r.last THEN e ELSE d)
      <4>1. CASE ~r.last
        BY <2>5, <4>1
      <4>2. CASE r.last
        <5>1. ~Served(e)
          BY <1>2, <2>7, <4>2 DEF Served
        <5>2. \A i : i \in 1..e /\ Served(i) <=> i \in 1..d /\ Served(i)
          BY <2>6, <2>7, <5>1
        <5>3. {i \in 1..e : Served(i)} = {i \in 1..d : Served(i)}
          BY <5>2
        <5> QED
          BY <2>5, <4>2, <5>3 DEF Replied
      <4> QED
        BY <4>1, <4>2
    <3>5. state_' = "kConnected" => Replied(Passed(e))'
      <4>1. PICK p : p = IF r.last THEN e ELSE d
        OBVIOUS
      <4>2. state_' = "kConnected" => Replied(p)'
        BY <1>2, <3>4, <4>1, RepliedSame
      <4>3. Passed(e)' = p
        BY <3>2, <4>1
      <4> QED
        BY <4>2, <4>3 DEF Replied
    <3>6. Placed(e)'
      BY <3>1, <3>2, <3>3, <3>5 DEF Placed
    <3>7. e \in 0..Len(sent')
      BY <1>2, <2>8
    <3> QED
      BY <3>6, <3>7 DEF Place
  <2> QED
    BY <1>3, <2>17, <2>18, Zenon DEF IInv
<1> QED
  BY <1>5, <1>6

-----------------------------------------------------------------------------
(* The results *)

LEMMA StepKeeps ==
  ASSUME IInv, [Next]_vars
  PROVE  IInv'
<1>1. ASSUME NEW r \in Shapes[kind], ClientSend(r) PROVE IInv'
  BY <1>1, ClientSendKeeps
<1>2. ASSUME NEW k \in 1..Len(wire), handle_read(k) PROVE IInv'
  BY <1>2, ReadKeeps
<1>3. CASE ClientClose
  BY <1>3, ClientCloseKeeps
<1>4. CASE handle_close
  BY <1>4, CloseKeeps
<1>5. CASE handle_write
  BY <1>5, WriteKeeps
<1>6. CASE HttpRun
  BY <1>6, HttpRunKeeps
<1>7. CASE RpcRun
  BY <1>7, RpcRunKeeps
<1>8. CASE Answer
  BY <1>8, AnswerKeeps
<1>9. CASE HandlerThrows
  BY <1>9, ThrowsKeeps
<1>10. CASE AfterWrite
  BY <1>10, AfterWriteKeeps
<1>11. CASE UNCHANGED vars
  <2>1. UNCHANGED <<kind, whole_reads, sent, stream, ends, wire, fin, state_, input_buffer_,
                    session, parser, serving, replies>>
    BY <1>11 DEF vars, sent_vars, conn_vars, session_vars
  <2>2. TypeOK /\ Laid /\ Place /\ AnswersInOrder
    BY Zenon DEF IInv
  <2>3. TypeOK'
    BY <2>1, <2>2 DEF TypeOK
  <2>4. Place'
    BY <2>1, <2>2, PlaceSame DEF Live, Passed, Begun, Rest
  <2>5. Laid' /\ AnswersInOrder'
    BY <2>1, <2>2, LaidSame, InOrderSame
  <2> QED
    BY <2>3, <2>4, <2>5, Zenon DEF IInv
<1> QED
  BY <1>1, <1>2, <1>3, <1>4, <1>5, <1>6, <1>7, <1>8, <1>9, <1>10, <1>11, Zenon
     DEF Next, Read, Run

\* The inductive invariant: the session is at a request, everything before it has
\* been taken and answered, and the parser and the rest of the stream fit together.
THEOREM InductiveInvariant == Spec => []IInv
<1>1. Init => IInv
  BY InitIInv
<1>2. IInv /\ [Next]_vars => IInv'
  BY StepKeeps
<1> QED
  BY <1>1, <1>2, PTL DEF Spec

\* The variables keep their types, and the parser is complete whenever the session
\* answers.
THEOREM TypeCorrect == Spec => []TypeOK
<1>1. IInv => TypeOK
  BY Zenon DEF IInv
<1> QED
  BY <1>1, InductiveInvariant, PTL

\* Answers are in the order of the requests, one each and none left out, however the
\* stream is cut.
THEOREM AnswersKeepOrder == Spec => []AnswersInOrder
<1>1. IInv => AnswersInOrder
  BY Zenon DEF IInv
<1> QED
  BY <1>1, InductiveInvariant, PTL

\* A request is dispatched with its own body and what is left is the next request: no
\* unit of one request is taken for another's.
THEOREM FramingIsKept == Spec => []FramingKept
<1>1. IInv => FramingKept
  <2> SUFFICES ASSUME IInv, session \in {"dispatch", "AsyncWrite", "written"}
               PROVE  /\ kind = "http" => parser.body = Body(serving, sent[serving].body)
                      /\ peek(input_buffer_) \o wire = After(serving)
    BY DEF FramingKept
  <2> QED
    BY AnsweringIs DEF Rest
<1> QED
  BY <1>1, InductiveInvariant, PTL
====
