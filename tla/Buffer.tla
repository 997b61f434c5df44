------------------------------ MODULE Buffer ------------------------------
(***************************************************************************)
(* server/src/buffer: the growing byte buffer of a connection, as a record *)
(* with the class's three members and one operator per member function.    *)
(* buffer_ is indexed from 1, so that Begin(b) + readPos_ is index         *)
(* readPos_ + 1.  The asserts of the class are the preconditions of        *)
(* Retrieve and of has_written; ProtocolProofs shows what each does        *)
(* to the bytes that are readable.                                         *)
(***************************************************************************)
EXTENDS Naturals, Sequences

CONSTANTS Byte, Zero    \* the bytes, and the one resize() fills with

ASSUME ByteAssumption == Zero \in Byte

Fill(n) == [i \in 1 .. n |-> Zero]

NewBuffer(n) == [buffer_ |-> Fill(n), readPos_ |-> 0, writePos_ |-> 0]

\* The class invariant: 0 <= readPos_ <= writePos_ <= buffer_.size().
Buffers ==
    { b \in [buffer_ : Seq(Byte), readPos_ : Nat, writePos_ : Nat] :
        b.readPos_ <= b.writePos_ /\ b.writePos_ <= Len(b.buffer_) }

Readable(b) == b.writePos_ - b.readPos_
Writable(b) == Len(b.buffer_) - b.writePos_
Prependable(b) == b.readPos_

\* What peek() and readable_bytes() show to a reader of the buffer.
Contents(b) == SubSeq(b.buffer_, b.readPos_ + 1, b.writePos_)

\* A plausible bug: the readable bytes stay where they are when the indices move.
MakeSpaceNoMove(b, len) ==
    IF Writable(b) + Prependable(b) < len
    THEN [b EXCEPT !.buffer_ = b.buffer_ \o Fill(b.writePos_ + len + 1 - Len(b.buffer_))]
    ELSE [b EXCEPT !.readPos_ = 0, !.writePos_ = Readable(b)]

\* Grow the vector, or move the readable bytes to its front.
MakeSpace(b, len) ==
    IF Writable(b) + Prependable(b) < len
    THEN [b EXCEPT !.buffer_ = b.buffer_ \o Fill(b.writePos_ + len + 1 - Len(b.buffer_))]
    ELSE [buffer_ |-> Contents(b) \o SubSeq(b.buffer_, Readable(b) + 1, Len(b.buffer_)),
          readPos_ |-> 0,
          writePos_ |-> Readable(b)]

EnsureWritable(b, len) == IF Writable(b) < len THEN MakeSpace(b, len) ELSE b

\* std::copy of s to begin_write(), and has_written.
Copy(b, s) ==
    [buffer_ |-> SubSeq(b.buffer_, 1, b.writePos_) \o s
                 \o SubSeq(b.buffer_, b.writePos_ + Len(s) + 1, Len(b.buffer_)),
     readPos_ |-> b.readPos_,
     writePos_ |-> b.writePos_ + Len(s)]

AppendBytes(b, s) == Copy(EnsureWritable(b, Len(s)), s)

Retrieve(b, len) == [b EXCEPT !.readPos_ = b.readPos_ + len]

RetrieveAll(b) == [buffer_ |-> b.buffer_, readPos_ |-> 0, writePos_ |-> 0]

\* readv scatters s over the writable bytes and a second array, which is appended.
ReadFd(b, s) ==
    IF Len(s) <= Writable(b)
    THEN Copy(b, s)
    ELSE AppendBytes(Copy(b, SubSeq(s, 1, Writable(b))),
                     SubSeq(s, Writable(b) + 1, Len(s)))

\* write() takes the first n of the readable bytes.
WriteFd(b, n) == Retrieve(b, n)

============================================================================
