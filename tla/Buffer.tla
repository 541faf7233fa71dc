------------------------------- MODULE Buffer -------------------------------
(***************************************************************************)
(* lightnet::Buffer as operators on a record: a vector of cells and the    *)
(* two indices between which its readable part lies (0-based, as in the    *)
(* code; cell i is buffer_[i + 1]).  What a cell outside that part holds   *)
(* is never read again, so it is Free.                                     *)
(***************************************************************************)
EXTENDS Integers, Sequences

CONSTANTS kInitialSize,   \* 1024
          kCheapPrepend,  \* 8
          kMaxCapacity,   \* 64 MiB
          kExtraSize      \* of read_fd's extrabuf, 65536

ASSUME BufferAssumption ==
    /\ kInitialSize \in Nat /\ kCheapPrepend \in Nat
    /\ kMaxCapacity \in Nat /\ kExtraSize \in Nat

Free == <<"free", 0, 0>>

Blank(n) == [i \in 1..n |-> Free]

NewBuffer == [buffer_       |-> Blank(kCheapPrepend + kInitialSize),
              reader_index_ |-> kCheapPrepend,
              writer_index_ |-> kCheapPrepend]

readable_bytes(b)    == b.writer_index_ - b.reader_index_
writable_bytes(b)    == Len(b.buffer_) - b.writer_index_
prependable_bytes(b) == b.reader_index_

\* The readable part, which begins at peek().
peek(b) == SubSeq(b.buffer_, b.reader_index_ + 1, b.writer_index_)

\* A buffer with other indices: the cells that are no longer readable are Free.
WithIndices(b, reader, writer) ==
    [buffer_       |-> Blank(reader) \o SubSeq(b.buffer_, reader + 1, writer)
                                    \o Blank(Len(b.buffer_) - writer),
     reader_index_ |-> reader,
     writer_index_ |-> writer]

retrieve_all(b) == WithIndices(b, kCheapPrepend, kCheapPrepend)

retrieve(b, len) ==
    IF len < readable_bytes(b)
    THEN WithIndices(b, b.reader_index_ + len, b.writer_index_)
    ELSE retrieve_all(b)

\* buffer_.resize(new_size), with new_size >= buffer_.size().
resize(b, new_size) ==
    [buffer_       |-> b.buffer_ \o Blank(new_size - Len(b.buffer_)),
     reader_index_ |-> b.reader_index_,
     writer_index_ |-> b.writer_index_]

\* data copied into the cells from index `at' on.
Copied(b, at, data) ==
    [buffer_       |-> SubSeq(b.buffer_, 1, at) \o data
                         \o SubSeq(b.buffer_, at + Len(data) + 1, Len(b.buffer_)),
     reader_index_ |-> b.reader_index_,
     writer_index_ |-> b.writer_index_]

\* Mutant: the indices stay where they were before memmove.
make_space_m(b, len) ==
    IF writable_bytes(b) + prependable_bytes(b) < len + kCheapPrepend
    THEN LET needed == b.writer_index_ + len IN
         resize(b, IF needed > kMaxCapacity THEN kMaxCapacity ELSE needed)
    ELSE Copied(b, kCheapPrepend, peek(b))

make_space(b, len) ==
    IF writable_bytes(b) + prependable_bytes(b) < len + kCheapPrepend
    THEN LET needed == b.writer_index_ + len IN
         resize(b, IF needed > kMaxCapacity THEN kMaxCapacity ELSE needed)
    ELSE WithIndices(Copied(b, kCheapPrepend, peek(b)),
                     kCheapPrepend, kCheapPrepend + readable_bytes(b))

ensure_writable(b, len) == IF writable_bytes(b) < len THEN make_space(b, len) ELSE b

\* Copies data to begin_write() and has_written; there is room for it.
Written(b, data) ==
    [buffer_       |-> Copied(b, b.writer_index_, data).buffer_,
     reader_index_ |-> b.reader_index_,
     writer_index_ |-> b.writer_index_ + Len(data)]

append(b, data) == Written(ensure_writable(b, Len(data)), data)

\* How much one readv can return.
ReadLimit(b) ==
    writable_bytes(b) + (IF writable_bytes(b) < kExtraSize THEN kExtraSize ELSE 0)

\* read_fd when readv returns data: first into the buffer, the rest through extrabuf.
read_fd(b, data) ==
    IF Len(data) <= writable_bytes(b) THEN Written(b, data)
    ELSE append(Written(b, SubSeq(data, 1, writable_bytes(b))),
                SubSeq(data, writable_bytes(b) + 1, Len(data)))

\* A well-formed buffer of elements of S.
IsBuffer(b, S) ==
    /\ b \in [buffer_ : Seq(S), reader_index_ : Nat, writer_index_ : Nat]
    /\ kCheapPrepend <= b.reader_index_
    /\ b.reader_index_ <= b.writer_index_
    /\ b.writer_index_ <= Len(b.buffer_)
=============================================================================
