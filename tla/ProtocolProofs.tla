-------------------------- MODULE ProtocolProofs --------------------------
(***************************************************************************)
(* Proofs about Protocol and the Buffer it is built on.                    *)
(*                                                                         *)
(* First, what the operators of Buffer do, for a buffer of any size and    *)
(* with any contents: each keeps the class invariant (b \in Buffers), and  *)
(* each acts on Contents(b) as the same operation acts on a queue of       *)
(* bytes.  The asserts in buffer.cpp follow: make_space really makes len   *)
(* bytes of room (MakeSpaceMakesSpace), so append never writes past the    *)
(* vector.                                                                 *)
(*                                                                         *)
(* Then the responses, for any files, frames, requests and limits: every   *)
(* byte arrives, once and in order, and a connection is closed as it was   *)
(* announced.                                                              *)
(*                                                                         *)
(* Last the requests, for any script: the frames that TryDecodeMessage     *)
(* takes are the frames that were sent, however their bytes are cut; and   *)
(* the requests that HttpRequest::parse takes are the requests that were   *)
(* sent, if each comes whole and after the last answer.  For these the     *)
(* turns of parse's loop are followed: the request line, the headers one   *)
(* by one, the empty line and the body.                                    *)
(***************************************************************************)
EXTENDS Protocol, SequenceTheorems, WellFoundedInduction, TLAPS

\* A leaf is tried with Zenon first: most need no arithmetic.
USE ZenonT(5), SMTT(30)

LEMMA BufferType ==
    ASSUME NEW b \in Buffers
    PROVE  /\ b \in [buffer_ : Seq(Byte), readPos_ : Nat, writePos_ : Nat]
           /\ b.buffer_ \in Seq(Byte) /\ Len(b.buffer_) \in Nat
           /\ b.readPos_ \in Nat /\ b.writePos_ \in Nat
           /\ b.readPos_ <= b.writePos_ /\ b.writePos_ <= Len(b.buffer_)
BY DEF Buffers

LEMMA MakeBuffers ==
    ASSUME NEW f \in Seq(Byte), NEW r \in Nat, NEW w \in Nat, r <= w, w <= Len(f)
    PROVE  [buffer_ |-> f, readPos_ |-> r, writePos_ |-> w] \in Buffers
BY DEF Buffers

\* Cutting a sequence, and joining two, element by element.
LEMMA CutFacts ==
    ASSUME NEW f \in Seq(Byte), NEW r \in Nat, NEW w \in Nat, r <= w, w <= Len(f)
    PROVE  /\ SubSeq(f, r + 1, w) \in Seq(Byte) /\ Len(SubSeq(f, r + 1, w)) = w - r
           /\ \A i \in 1 .. w - r : SubSeq(f, r + 1, w)[i] = f[r + i]
<1>1. r + 1 \in Int /\ w \in Int /\ \A i \in r + 1 .. w : f[i] \in Byte
  OBVIOUS
<1>2. /\ SubSeq(f, r + 1, w) \in Seq(Byte)
      /\ Len(SubSeq(f, r + 1, w)) = IF r + 1 <= w THEN w - (r + 1) + 1 ELSE 0
      /\ \A i \in 1 .. w - (r + 1) + 1 : SubSeq(f, r + 1, w)[i] = f[(r + 1) + i - 1]
  BY ONLY <1>1, SubSeqProperties
<1>3. /\ (IF r + 1 <= w THEN w - (r + 1) + 1 ELSE 0) = w - r
      /\ w - (r + 1) + 1 = w - r
      /\ \A i \in 1 .. w - r : (r + 1) + i - 1 = r + i
  OBVIOUS
<1> QED BY <1>2, <1>3

LEMMA JoinFacts ==
    ASSUME NEW p \in Seq(Byte), NEW q \in Seq(Byte)
    PROVE  /\ p \o q \in Seq(Byte) /\ Len(p \o q) = Len(p) + Len(q)
           /\ Len(p) \in Nat /\ Len(q) \in Nat
           /\ \A i \in 1 .. Len(p) : (p \o q)[i] = p[i]
           /\ \A i \in 1 .. Len(q) : (p \o q)[Len(p) + i] = q[i]
OBVIOUS

\* The readable bytes, one by one.
LEMMA ContentsFacts ==
    ASSUME NEW b \in Buffers
    PROVE  /\ Readable(b) \in Nat
           /\ Contents(b) \in Seq(Byte) /\ Len(Contents(b)) = Readable(b)
           /\ \A i \in 1 .. Readable(b) : Contents(b)[i] = b.buffer_[b.readPos_ + i]
<1>0. /\ b.buffer_ \in Seq(Byte) /\ Len(b.buffer_) \in Nat
      /\ b.readPos_ \in Nat /\ b.writePos_ \in Nat
      /\ b.readPos_ <= b.writePos_ /\ b.writePos_ <= Len(b.buffer_)
  BY BufferType
<1>1. Readable(b) = b.writePos_ - b.readPos_ /\ Readable(b) \in Nat
  BY <1>0 DEF Readable
<1> DEFINE f == b.buffer_
           r == b.readPos_
           w == b.writePos_
<1>2. /\ f \in Seq(Byte) /\ r \in Nat /\ w \in Nat /\ r <= w /\ w <= Len(f)
      /\ Contents(b) = SubSeq(f, r + 1, w) /\ Readable(b) = w - r
  BY <1>0, <1>1 DEF Contents
<1> HIDE DEF f, r, w
<1>3. /\ SubSeq(f, r + 1, w) \in Seq(Byte) /\ Len(SubSeq(f, r + 1, w)) = w - r
      /\ \A i \in 1 .. w - r : SubSeq(f, r + 1, w)[i] = f[r + i]
  BY ONLY <1>2, CutFacts
<1>4. \A i \in 1 .. Readable(b) : Contents(b)[i] = f[r + i]
  BY ONLY <1>2, <1>3, Zenon
<1>5. Contents(b) \in Seq(Byte) /\ Len(Contents(b)) = Readable(b)
  BY ONLY <1>2, <1>3, Zenon
<1> QED BY ONLY <1>1, <1>4, <1>5, Zenon DEF f, r

\* Two buffers show the same when they agree on every readable byte.
LEMMA SameContents ==
    ASSUME NEW b \in Buffers, NEW c \in Buffers, Readable(b) = Readable(c),
           \A i \in 1 .. Readable(b) : b.buffer_[b.readPos_ + i] = c.buffer_[c.readPos_ + i]
    PROVE  Contents(b) = Contents(c)
BY ContentsFacts, SeqEqual

LEMMA NewBufferIsEmpty ==
    ASSUME NEW n \in Nat
    PROVE  NewBuffer(n) \in Buffers /\ Contents(NewBuffer(n)) = <<>>
<1>1. Fill(n) \in Seq(Byte) /\ Len(Fill(n)) = n
  BY ByteAssumption DEF Fill
<1>2. NewBuffer(n) \in Buffers
  BY <1>1, MakeBuffers DEF NewBuffer
<1>3. Contents(NewBuffer(n)) = <<>>
  BY DEF NewBuffer, Contents, Readable
<1> QED BY <1>2, <1>3

\* make_space(len), called when fewer than len bytes are writable, leaves at least
\* len writable bytes and the readable ones as they were.
LEMMA MakeSpaceMakesSpace ==
    ASSUME NEW b \in Buffers, NEW len \in Nat, Writable(b) < len
    PROVE  /\ MakeSpace(b, len) \in Buffers
           /\ Contents(MakeSpace(b, len)) = Contents(b)
           /\ Writable(MakeSpace(b, len)) >= len
<1> DEFINE m == MakeSpace(b, len)
<1> USE BufferType
<1>0. /\ b.buffer_ \in Seq(Byte) /\ Len(b.buffer_) \in Nat
      /\ b.readPos_ \in Nat /\ b.writePos_ \in Nat
      /\ b.readPos_ <= b.writePos_ /\ b.writePos_ <= Len(b.buffer_)
  BY BufferType
<1>1. CASE Writable(b) + Prependable(b) < len
  <2> DEFINE g == Fill(b.writePos_ + len + 1 - Len(b.buffer_))
  <2>1. b.writePos_ + len + 1 - Len(b.buffer_) \in Nat
    BY <1>1 DEF Writable
  <2>2. g \in Seq(Byte) /\ Len(g) = b.writePos_ + len + 1 - Len(b.buffer_)
    BY <2>1, ByteAssumption DEF Fill
  <2>3. m = [buffer_ |-> b.buffer_ \o g, readPos_ |-> b.readPos_, writePos_ |-> b.writePos_]
    BY <1>1 DEF MakeSpace
  <2> HIDE DEF g, m
  <2>4. /\ b.buffer_ \o g \in Seq(Byte)
        /\ Len(b.buffer_ \o g) = b.writePos_ + len + 1
        /\ \A i \in 1 .. Len(b.buffer_) : (b.buffer_ \o g)[i] = b.buffer_[i]
    BY <2>2
  <2>5. m \in Buffers
    <3>1. b.writePos_ <= Len(b.buffer_ \o g)
      BY <1>0, <2>4
    <3> QED BY ONLY <1>0, <2>3, <2>4, <3>1, MakeBuffers
  <2>6. Contents(m) = Contents(b)
    <3>1. /\ Readable(m) = Readable(b)
          /\ \A i \in 1 .. Readable(m) : m.buffer_[m.readPos_ + i] = b.buffer_[b.readPos_ + i]
      BY ONLY <1>0, <2>3, <2>4, SMTT(30) DEF Readable
    <3> QED BY ONLY <2>5, <3>1, b \in Buffers, SameContents
  <2>7. Writable(m) >= len
    BY <2>3, <2>4 DEF Writable
  <2> QED BY <2>5, <2>6, <2>7 DEF m
<1>2. CASE ~(Writable(b) + Prependable(b) < len)
  <2> DEFINE g == SubSeq(b.buffer_, Readable(b) + 1, Len(b.buffer_))
             f == Contents(b) \o g
  <2>1. Readable(b) \in Nat /\ b.readPos_ + Readable(b) = b.writePos_
    BY DEF Readable
  <2>a. g \in Seq(Byte) /\ Len(g) = Len(b.buffer_) - Readable(b)
    BY <1>0, <2>1
  <2> HIDE DEF g
  <2>2. f \in Seq(Byte) /\ Len(f) = Len(b.buffer_)
    <3>1. Contents(b) \in Seq(Byte) /\ Len(Contents(b)) = Readable(b)
      BY ONLY b \in Buffers, ContentsFacts
    <3>2. f \in Seq(Byte) /\ Len(f) = Len(Contents(b)) + Len(g)
      BY ONLY <2>a, <3>1, JoinFacts
    <3> HIDE DEF f
    <3> QED BY ONLY <1>0, <2>1, <2>a, <3>1, <3>2
  <2>3. m = [buffer_ |-> f, readPos_ |-> 0, writePos_ |-> Readable(b)]
    BY <1>2 DEF MakeSpace, g
  <2>4. \A i \in 1 .. Readable(b) : f[i] = b.buffer_[b.readPos_ + i]
    BY <2>1, <2>a, ContentsFacts
  <2> HIDE DEF f, m
  <2>5. m \in Buffers
    <3>1. 0 \in Nat /\ 0 <= Readable(b) /\ Readable(b) <= Len(f)
      BY <1>0, <2>1, <2>2
    <3> QED BY ONLY <2>1, <2>2, <2>3, <3>1, MakeBuffers, SMTT(30)
  <2>6. Contents(m) = Contents(b)
    BY <2>1, <2>3, <2>4, <2>5, SameContents DEF Readable
  <2>7. Writable(m) >= len
    BY <1>2, <2>1, <2>2, <2>3 DEF Writable, Prependable, Readable
  <2> QED BY <2>5, <2>6, <2>7 DEF m
<1> QED BY <1>1, <1>2

LEMMA EnsureWritableEnsures ==
    ASSUME NEW b \in Buffers, NEW len \in Nat
    PROVE  /\ EnsureWritable(b, len) \in Buffers
           /\ Contents(EnsureWritable(b, len)) = Contents(b)
           /\ Writable(EnsureWritable(b, len)) >= len
<1>1. CASE Writable(b) < len
  BY <1>1, MakeSpaceMakesSpace DEF EnsureWritable
<1>2. CASE ~(Writable(b) < len)
  BY <1>2, BufferType DEF EnsureWritable, Writable
<1> QED BY <1>1, <1>2

\* Writing s at index w of a sequence that has the room.
Written(g, w, s) == SubSeq(g, 1, w) \o s \o SubSeq(g, w + Len(s) + 1, Len(g))

LEMMA CopyFacts ==
    ASSUME NEW g \in Seq(Byte), NEW s \in Seq(Byte), NEW r \in Nat, NEW w \in Nat,
           r <= w, w + Len(s) <= Len(g)
    PROVE  /\ Written(g, w, s) \in Seq(Byte) /\ Len(Written(g, w, s)) = Len(g)
           /\ SubSeq(Written(g, w, s), r + 1, w + Len(s)) = SubSeq(g, r + 1, w) \o s
<1> DEFINE f == Written(g, w, s)
           n == Len(s)
           p == SubSeq(g, 0 + 1, w)
           q == SubSeq(g, (w + n) + 1, Len(g))
           c == SubSeq(g, r + 1, w)
           d == SubSeq(f, r + 1, w + n)
<1>1. n \in Nat /\ Len(g) \in Nat /\ w <= Len(g) /\ w + n \in Nat /\ r <= w + n
  OBVIOUS
<1>2. /\ p \in Seq(Byte) /\ Len(p) = w - 0 /\ \A i \in 1 .. w - 0 : p[i] = g[0 + i]
      /\ q \in Seq(Byte) /\ Len(q) = Len(g) - (w + n)
      /\ c \in Seq(Byte) /\ Len(c) = w - r /\ \A i \in 1 .. w - r : c[i] = g[r + i]
  <2>1. 0 \in Nat /\ 0 <= w /\ Len(g) <= Len(g) /\ w + n <= Len(g)
    BY <1>1
  <2>2. p \in Seq(Byte) /\ Len(p) = w - 0 /\ \A i \in 1 .. w - 0 : p[i] = g[0 + i]
    BY <1>1, <2>1, CutFacts
  <2>3. q \in Seq(Byte) /\ Len(q) = Len(g) - (w + n)
    BY <1>1, <2>1, CutFacts
  <2>4. c \in Seq(Byte) /\ Len(c) = w - r /\ \A i \in 1 .. w - r : c[i] = g[r + i]
    BY <1>1, CutFacts
  <2> QED BY ONLY <2>2, <2>3, <2>4
<1>3. f = (p \o s) \o q
  BY DEF Written
<1> HIDE DEF f, n, p, q, c, d
<1>4. /\ p \o s \in Seq(Byte) /\ Len(p \o s) = w + n
      /\ \A i \in 1 .. w : (p \o s)[i] = g[i]
      /\ \A i \in 1 .. n : (p \o s)[w + i] = s[i]
  <2>1. p \in Seq(Byte) /\ s \in Seq(Byte)
    BY <1>2
  <2>2. /\ p \o s \in Seq(Byte) /\ Len(p \o s) = Len(p) + n
        /\ \A i \in 1 .. Len(p) : (p \o s)[i] = p[i]
        /\ \A i \in 1 .. n : (p \o s)[Len(p) + i] = s[i]
    BY ONLY <2>1, JoinFacts DEF n
  <2>3. Len(p) = w /\ \A i \in 1 .. w : p[i] = g[i]
    BY ONLY <1>1, <1>2, w \in Nat
  <2> QED BY ONLY <2>2, <2>3, Zenon
<1>5. /\ f \in Seq(Byte) /\ Len(f) = Len(g)
      /\ \A i \in 1 .. w + n : f[i] = (p \o s)[i]
  <2>1. p \o s \in Seq(Byte) /\ q \in Seq(Byte)
    BY <1>2, <1>4
  <2>2. /\ (p \o s) \o q \in Seq(Byte) /\ Len((p \o s) \o q) = Len(p \o s) + Len(q)
        /\ \A i \in 1 .. Len(p \o s) : ((p \o s) \o q)[i] = (p \o s)[i]
    BY ONLY <2>1, JoinFacts
  <2>3. (w + n) + Len(q) = Len(g)
    BY ONLY <1>1, <1>2, w \in Nat
  <2>4. Len(p \o s) = w + n
    BY <1>4
  <2> QED BY ONLY <1>3, <2>2, <2>3, <2>4, Zenon
<1>6. /\ d \in Seq(Byte) /\ Len(d) = (w + n) - r
      /\ \A i \in 1 .. (w + n) - r : d[i] = f[r + i]
  <2>1. w + n <= Len(f)
    BY <1>1, <1>5 DEF n
  <2> QED BY <1>1, <1>5, <2>1, CutFacts DEF d
<1>7. /\ c \o s \in Seq(Byte) /\ Len(c \o s) = (w - r) + n
      /\ \A i \in 1 .. w - r : (c \o s)[i] = c[i]
      /\ \A i \in 1 .. n : (c \o s)[(w - r) + i] = s[i]
  <2>1. c \in Seq(Byte) /\ s \in Seq(Byte) /\ Len(c) = w - r
    BY <1>2
  <2>2. /\ c \o s \in Seq(Byte) /\ Len(c \o s) = Len(c) + n
        /\ \A i \in 1 .. Len(c) : (c \o s)[i] = c[i]
        /\ \A i \in 1 .. n : (c \o s)[Len(c) + i] = s[i]
    BY ONLY <2>1, JoinFacts DEF n
  <2> QED BY ONLY <2>1, <2>2, Zenon
<1>8. ASSUME NEW i \in 1 .. (w + n) - r PROVE d[i] = (c \o s)[i]
  <2>1. r + i \in 1 .. w + n /\ d[i] = (p \o s)[r + i]
    <3>1. r + i \in 1 .. w + n
      BY ONLY <1>1, i \in 1 .. (w + n) - r, r \in Nat, w \in Nat
    <3> QED BY ONLY <1>5, <1>6, <3>1, i \in 1 .. (w + n) - r, Zenon
  <2>2. CASE i <= w - r
    <3>1. i \in 1 .. w - r /\ r + i \in 1 .. w
      BY <1>1, <2>2
    <3> QED BY <1>2, <1>4, <1>7, <2>1, <3>1
  <2>3. CASE ~(i <= w - r)
    <3>1. PICK j \in 1 .. n : i = (w - r) + j
      <4>1. i - (w - r) \in 1 .. n
        BY <1>1, <2>3
      <4> QED BY <1>1, <4>1
    <3>2. r + i = w + j
      BY <1>1, <3>1
    <3> QED BY <1>4, <1>7, <2>1, <3>1, <3>2
  <2> QED BY <2>2, <2>3
<1>9. d = c \o s
  <2>1. Len(d) = Len(c \o s)
    BY <1>1, <1>6, <1>7
  <2> QED BY <1>6, <1>7, <1>8, <2>1, SeqEqual
<1> QED BY <1>5, <1>9 DEF f, c, d, n

LEMMA CopyAppends ==
    ASSUME NEW b \in Buffers, NEW s \in Seq(Byte), Writable(b) >= Len(s)
    PROVE  /\ Copy(b, s) \in Buffers
           /\ Contents(Copy(b, s)) = Contents(b) \o s
           /\ Writable(Copy(b, s)) = Writable(b) - Len(s)
<1> DEFINE c == Copy(b, s)
           f == Written(b.buffer_, b.writePos_, s)
<1>1. /\ b.buffer_ \in Seq(Byte) /\ Len(b.buffer_) \in Nat
      /\ b.readPos_ \in Nat /\ b.writePos_ \in Nat
      /\ b.readPos_ <= b.writePos_ /\ b.writePos_ <= Len(b.buffer_)
  BY BufferType
<1>2. Len(s) \in Nat /\ b.writePos_ + Len(s) \in Nat /\ b.writePos_ + Len(s) <= Len(b.buffer_)
  BY <1>1 DEF Writable
<1>3. c = [buffer_ |-> f, readPos_ |-> b.readPos_, writePos_ |-> b.writePos_ + Len(s)]
  BY DEF Copy, Written
<1>4. /\ f \in Seq(Byte) /\ Len(f) = Len(b.buffer_)
      /\ SubSeq(f, b.readPos_ + 1, b.writePos_ + Len(s))
            = SubSeq(b.buffer_, b.readPos_ + 1, b.writePos_) \o s
  <2> DEFINE g == b.buffer_
             r == b.readPos_
             w == b.writePos_
  <2>1. /\ g \in Seq(Byte) /\ s \in Seq(Byte) /\ r \in Nat /\ w \in Nat
        /\ r <= w /\ w + Len(s) <= Len(g)
        /\ f = Written(g, w, s)
    BY <1>1, <1>2
  <2> HIDE DEF f, g, r, w
  <2>2. /\ f \in Seq(Byte) /\ Len(f) = Len(g)
        /\ SubSeq(f, r + 1, w + Len(s)) = SubSeq(g, r + 1, w) \o s
    BY ONLY <2>1, CopyFacts
  <2> QED BY ONLY <2>2 DEF g, r, w
<1> HIDE DEF f, c
<1>5. c \in Buffers
  <2>1. b.readPos_ <= b.writePos_ + Len(s) /\ b.writePos_ + Len(s) <= Len(f)
    BY ONLY <1>1, <1>2, <1>4
  <2> QED BY ONLY <1>1, <1>2, <1>3, <1>4, <2>1, MakeBuffers, SMTT(30)
<1>6. Contents(c) = Contents(b) \o s
  BY ONLY <1>3, <1>4 DEF Contents
<1>7. Writable(c) = Writable(b) - Len(s)
  BY ONLY <1>1, <1>2, <1>3, <1>4 DEF Writable
<1> QED BY <1>5, <1>6, <1>7 DEF c

----------------------------------------------------------------------------
\* append(str, len) never writes outside the vector, keeps the class invariant, and
\* adds exactly the bytes of str behind those that were readable.
THEOREM AppendAppends ==
    ASSUME NEW b \in Buffers, NEW s \in Seq(Byte)
    PROVE  /\ AppendBytes(b, s) \in Buffers
           /\ Contents(AppendBytes(b, s)) = Contents(b) \o s
<1>1. Len(s) \in Nat
  OBVIOUS
<1> QED BY <1>1, EnsureWritableEnsures, CopyAppends DEF AppendBytes

\* read_fd appends what readv delivered, in order, also when it spills over the
\* writable bytes into the array on the stack and that part is appended after.
THEOREM ReadFdAppends ==
    ASSUME NEW b \in Buffers, NEW s \in Seq(Byte)
    PROVE  /\ ReadFd(b, s) \in Buffers
           /\ Contents(ReadFd(b, s)) = Contents(b) \o s
<1>1. Writable(b) \in Nat /\ Len(s) \in Nat
  BY BufferType DEF Writable
<1>2. CASE Len(s) <= Writable(b)
  BY <1>1, <1>2, CopyAppends DEF ReadFd
<1>3. CASE ~(Len(s) <= Writable(b))
  <2> DEFINE w == Writable(b)
             p == SubSeq(s, 1, w)
             q == SubSeq(s, w + 1, Len(s))
  <2> HIDE DEF w
  <2>1. w \in Nat /\ w < Len(s)
    BY <1>1, <1>3 DEF w
  <2>2. p \in Seq(Byte) /\ Len(p) = w /\ q \in Seq(Byte) /\ s = p \o q
    <3>1. p \in Seq(Byte) /\ Len(p) = w /\ q \in Seq(Byte)
      BY <2>1
    <3>2. p \o q = SubSeq(s, 1, Len(s))
      <4>1. 1 \in 1 .. Len(s) + 1 /\ w \in 1 - 1 .. Len(s) /\ Len(s) \in w .. Len(s)
        BY <1>1, <2>1
      <4> QED BY ONLY <4>1, s \in Seq(Byte), ConcatAdjacentSubSeq DEF p, q
    <3>3. SubSeq(s, 1, Len(s)) = s
      BY SubSeqFull
    <3> QED BY <3>1, <3>2, <3>3
  <2> HIDE DEF p, q
  <2>3. Copy(b, p) \in Buffers /\ Contents(Copy(b, p)) = Contents(b) \o p
    BY <2>1, <2>2, CopyAppends DEF w
  <2>4. /\ AppendBytes(Copy(b, p), q) \in Buffers
        /\ Contents(AppendBytes(Copy(b, p), q)) = (Contents(b) \o p) \o q
    BY <2>2, <2>3, AppendAppends
  <2>5. Contents(b) \in Seq(Byte)
    BY ContentsFacts
  <2>6. (Contents(b) \o p) \o q = Contents(b) \o s
    BY <2>2, <2>5
  <2>7. ReadFd(b, s) = AppendBytes(Copy(b, p), q)
    BY <1>3 DEF ReadFd, p, q, w
  <2> QED BY <2>4, <2>6, <2>7
<1> QED BY <1>2, <1>3

\* retrieve(len), under its assert, drops the first len readable bytes; so do
\* write_fd, which sent them, and retrieve_until.
THEOREM RetrieveDrops ==
    ASSUME NEW b \in Buffers, NEW len \in 0 .. Readable(b)
    PROVE  /\ Retrieve(b, len) \in Buffers
           /\ Contents(Retrieve(b, len)) = SubSeq(Contents(b), len + 1, Readable(b))
<1> USE BufferType
<1>0. /\ b.buffer_ \in Seq(Byte) /\ Len(b.buffer_) \in Nat
      /\ b.readPos_ \in Nat /\ b.writePos_ \in Nat
      /\ b.readPos_ <= b.writePos_ /\ b.writePos_ <= Len(b.buffer_)
  BY BufferType
<1>1. len \in Nat /\ b.readPos_ + len \in Nat /\ b.readPos_ + len <= b.writePos_
  BY DEF Readable
<1>2. Retrieve(b, len) = [buffer_ |-> b.buffer_, readPos_ |-> b.readPos_ + len,
                          writePos_ |-> b.writePos_]
  BY DEF Retrieve
<1>3. Retrieve(b, len) \in Buffers
  BY ONLY <1>0, <1>1, <1>2, MakeBuffers
<1>4. Contents(Retrieve(b, len)) = SubSeq(Contents(b), len + 1, Readable(b))
  <2>1. /\ Readable(Retrieve(b, len)) = Readable(b) - len /\ Readable(b) \in Nat
        /\ Len(Contents(b)) = Readable(b) /\ Contents(b) \in Seq(Byte)
    BY <1>0, <1>1, <1>2, ContentsFacts DEF Readable
  <2>2. \A i \in 1 .. Readable(b) - len : Contents(Retrieve(b, len))[i] = Contents(b)[len + i]
    <3>1. \A i \in 1 .. Readable(b) - len :
             Contents(Retrieve(b, len))[i] = b.buffer_[(b.readPos_ + len) + i]
      BY ONLY <1>2, <1>3, <2>1, ContentsFacts
    <3>2. \A i \in 1 .. Readable(b) - len : Contents(b)[len + i] = b.buffer_[b.readPos_ + (len + i)]
      BY ONLY <1>1, <2>1, b \in Buffers, ContentsFacts
    <3>3. \A i \in 1 .. Readable(b) - len : (b.readPos_ + len) + i = b.readPos_ + (len + i)
      BY ONLY <1>0, <1>1, <2>1
    <3> QED BY ONLY <3>1, <3>2, <3>3
  <2>3. /\ SubSeq(Contents(b), len + 1, Readable(b)) \in Seq(Byte)
        /\ Len(SubSeq(Contents(b), len + 1, Readable(b))) = Readable(b) - len
        /\ \A i \in 1 .. Readable(b) - len :
             SubSeq(Contents(b), len + 1, Readable(b))[i] = Contents(b)[len + i]
    <3>1. len <= Readable(b) /\ Readable(b) <= Len(Contents(b))
      BY ONLY <2>1, len \in 0 .. Readable(b)
    <3> QED BY ONLY <1>1, <2>1, <3>1, CutFacts
  <2>4. /\ Contents(Retrieve(b, len)) \in Seq(Byte)
        /\ Len(Contents(Retrieve(b, len))) = Readable(b) - len
    BY ONLY <1>3, <2>1, ContentsFacts
  <2> QED BY ONLY <2>1, <2>2, <2>3, <2>4, SeqEqual
<1> QED BY <1>3, <1>4

\* retrieve_all empties the buffer and keeps its memory.
THEOREM RetrieveAllEmpties ==
    ASSUME NEW b \in Buffers
    PROVE  RetrieveAll(b) \in Buffers /\ Contents(RetrieveAll(b)) = <<>>
<1>1. RetrieveAll(b) = [buffer_ |-> b.buffer_, readPos_ |-> 0, writePos_ |-> 0]
  BY DEF RetrieveAll
<1>2. b.buffer_ \in Seq(Byte) /\ 0 \in Nat /\ 0 <= 0 /\ 0 <= Len(b.buffer_)
  BY BufferType
<1>3. RetrieveAll(b) \in Buffers
  BY ONLY <1>1, <1>2, MakeBuffers
<1>4. Contents(RetrieveAll(b)) = <<>>
  BY <1>1 DEF Contents, Readable
<1> QED BY <1>3, <1>4

----------------------------------------------------------------------------
(* What the client sends.                                                  *)

\* Every non-empty set of natural numbers has a least element.
LEMMA LeastNatural ==
    ASSUME NEW T \in SUBSET Nat, T # {}
    PROVE  \E x \in T : \A y \in T : x <= y
<1> DEFINE R == OpToRel(<, Nat)
<1>1. PICK x \in T : \A y \in T : ~(<<y, x>> \in R)
  <2> HIDE DEF R
  <2>1. IsWellFoundedOn(R, Nat)
    BY NatLessThanWellFounded DEF R
  <2> QED BY <2>1, WFMin
<1>2. ASSUME NEW y \in T PROVE x <= y
  <2>1. x \in Nat /\ y \in Nat
    OBVIOUS
  <2>2. ~(y < x)
    BY <1>1, <2>1 DEF OpToRel
  <2> QED BY <2>1, <2>2
<1> QED BY <1>1, <1>2

\* What holds of 0, and of k if it holds of k - 1, holds up to n.
LEMMA Induction ==
    ASSUME NEW n \in Nat, NEW S, 0 \in S, \A k \in 1 .. n : k - 1 \in S => k \in S
    PROVE  \A k \in 0 .. n : k \in S
<1> DEFINE Bad == {k \in 0 .. n : k \notin S}
<1> SUFFICES ASSUME Bad # {} PROVE FALSE
  OBVIOUS
<1>1. Bad \in SUBSET Nat
  OBVIOUS
<1>2. PICK k \in Bad : \A m \in Bad : k <= m
  <2> HIDE DEF Bad
  <2> QED BY <1>1, LeastNatural
<1>3. k \in 0 .. n /\ k \notin S
  OBVIOUS
<1>4. k # 0
  BY <1>3
<1>5. k \in 1 .. n /\ k - 1 \in 0 .. n /\ ~(k <= k - 1)
  BY <1>3, <1>4
<1>6. k - 1 \in S
  BY <1>2, <1>5
<1> QED BY <1>3, <1>5, <1>6

\* f is the function that Joined defines by recursion, up to k.
IsLast(ss, k, f) ==
    f = [i \in 0 .. k |-> IF i = 0 THEN <<>> ELSE ss[Len(ss) - i + 1] \o f[i - 1]]

\* The recursive function of Joined exists ...
LEMMA LastExists ==
    ASSUME NEW ss, Len(ss) \in Nat
    PROVE  \E f : IsLast(ss, Len(ss), f)
<1> DEFINE N == Len(ss)
           S == {k \in 0 .. N : \E f : IsLast(ss, k, f)}
<1>1. 0 \in S
  <2> DEFINE f == [i \in 0 .. 0 |-> <<>>]
  <2>1. f[0] = <<>> /\ 0 \in 0 .. N
    OBVIOUS
  <2>2. IsLast(ss, 0, f)
    BY SMT DEF IsLast
  <2> QED BY <2>1, <2>2
<1>2. ASSUME NEW k \in 1 .. N, k - 1 \in S PROVE k \in S
  <2>1. PICK g : IsLast(ss, k - 1, g)
    BY <1>2
  <2> DEFINE e == ss[N - k + 1]
             f == [i \in 0 .. k |-> IF i = k THEN e \o g[k - 1] ELSE g[i]]
  <2>2. /\ k \in 0 .. k /\ k # 0 /\ k - 1 \in 0 .. k /\ k - 1 # k
        /\ \A i \in 0 .. k : i # k => i \in 0 .. k - 1 /\ (i # 0 => i - 1 \in 0 .. k /\ i - 1 # k)
    OBVIOUS
  <2>3. f[k] = e \o f[k - 1]
    BY <2>2, Zenon
  <2>4. ASSUME NEW i \in 0 .. k, i # k
        PROVE  f[i] = IF i = 0 THEN <<>> ELSE ss[N - i + 1] \o f[i - 1]
    <3>1. f[i] = g[i] /\ (i # 0 => f[i - 1] = g[i - 1])
      BY <2>2, <2>4, Zenon
    <3>2. g[i] = IF i = 0 THEN <<>> ELSE ss[N - i + 1] \o g[i - 1]
      BY <2>1, <2>2, <2>4, Zenon DEF IsLast
    <3> QED BY <3>1, <3>2, Zenon
  <2>5. f = [i \in 0 .. k |-> f[i]]
    OBVIOUS
  <2> HIDE DEF f
  <2>6. \A i \in 0 .. k : f[i] = IF i = 0 THEN <<>> ELSE ss[N - i + 1] \o f[i - 1]
    BY <2>2, <2>3, <2>4, Zenon
  <2>7. IsLast(ss, k, f)
    BY <2>5, <2>6, Zenon DEF IsLast
  <2>8. k \in 0 .. N
    OBVIOUS
  <2> QED BY <2>7, <2>8
<1>3. \A k \in 1 .. N : k - 1 \in S => k \in S
  BY <1>2
<1>4. \A k \in 0 .. N : k \in S
  <2> HIDE DEF S
  <2> QED BY <1>1, <1>3, Induction
<1>5. N \in 0 .. N
  OBVIOUS
<1> QED BY <1>4, <1>5

\* ... so what comes after the nth is the next, and the rest.
LEMMA JoinedStep ==
    ASSUME NEW ss, Len(ss) \in Nat
    PROVE  /\ Joined(ss, Len(ss)) = <<>>
           /\ \A n \in 0 .. Len(ss) - 1 : Joined(ss, n) = ss[n + 1] \o Joined(ss, n + 1)
<1> DEFINE f == CHOOSE g : IsLast(ss, Len(ss), g)
<1>1. IsLast(ss, Len(ss), f)
  BY LastExists, Zenon
<1>2. \A n : Joined(ss, n) = f[Len(ss) - n]
  BY DEF Joined, IsLast
<1> HIDE DEF f
<1>3. \A i \in 0 .. Len(ss) : f[i] = IF i = 0 THEN <<>> ELSE ss[Len(ss) - i + 1] \o f[i - 1]
  BY <1>1, Zenon DEF IsLast
<1>4. f[0] = <<>> /\ Len(ss) - Len(ss) = 0
  BY <1>3
<1>5. ASSUME NEW n \in 0 .. Len(ss) - 1
      PROVE  f[Len(ss) - n] = ss[n + 1] \o f[Len(ss) - (n + 1)]
  <2>1. /\ Len(ss) - n \in 0 .. Len(ss) /\ Len(ss) - n # 0
        /\ Len(ss) - (Len(ss) - n) + 1 = n + 1 /\ Len(ss) - n - 1 = Len(ss) - (n + 1)
    OBVIOUS
  <2> QED BY <1>3, <2>1
<1> QED BY <1>2, <1>4, <1>5

\* The bytes from the nth message on are those of the next message, and the rest.
LEMMA EncodeFromStep ==
    ASSUME NEW ms, Len(ms) \in Nat
    PROVE  /\ EncodeFrom(ms, Len(ms)) = <<>>
           /\ \A n \in 0 .. Len(ms) - 1 :
                 EncodeFrom(ms, n) = Encode(ms[n + 1]) \o EncodeFrom(ms, n + 1)
<1> DEFINE N == Len(ms)
           ss == [i \in 1 .. N |-> Encode(ms[i])]
<1>1. Len(ss) = N /\ N \in Nat
  OBVIOUS
<1>2. \A n \in 0 .. N - 1 : n + 1 \in 1 .. N
  OBVIOUS
<1>3. \A n \in 0 .. N - 1 : ss[n + 1] = Encode(ms[n + 1])
  BY <1>2, Zenon
<1>4. \A n : EncodeFrom(ms, n) = Joined(ss, n)
  BY DEF EncodeFrom
<1> HIDE DEF ss
<1>5. /\ Joined(ss, N) = <<>>
      /\ \A n \in 0 .. N - 1 : Joined(ss, n) = ss[n + 1] \o Joined(ss, n + 1)
  BY <1>1, JoinedStep
<1> QED BY <1>3, <1>4, <1>5, Zenon

\* The same for Requests.
IsFirst(ms, k, f) ==
    f = [i \in 0 .. k |-> IF i = 0 THEN <<>> ELSE AndRequest(f[i - 1], ms[i])]

\* It exists ...
LEMMA FirstExists ==
    ASSUME NEW ms, Len(ms) \in Nat
    PROVE  \E f : IsFirst(ms, Len(ms), f)
<1> DEFINE N == Len(ms)
           S == {k \in 0 .. N : \E f : IsFirst(ms, k, f)}
<1>1. 0 \in S
  <2> DEFINE f == [i \in 0 .. 0 |-> <<>>]
  <2>1. f[0] = <<>> /\ 0 \in 0 .. N
    OBVIOUS
  <2>2. IsFirst(ms, 0, f)
    BY SMT DEF IsFirst
  <2> QED BY <2>1, <2>2
<1>2. ASSUME NEW k \in 1 .. N, k - 1 \in S PROVE k \in S
  <2>1. PICK g : IsFirst(ms, k - 1, g)
    BY <1>2
  <2> DEFINE f == [i \in 0 .. k |-> IF i = k THEN AndRequest(g[k - 1], ms[k]) ELSE g[i]]
  <2>2. /\ k \in 0 .. k /\ k # 0 /\ k - 1 \in 0 .. k /\ k - 1 # k
        /\ \A i \in 0 .. k : i # k => i \in 0 .. k - 1 /\ (i # 0 => i - 1 \in 0 .. k /\ i - 1 # k)
    OBVIOUS
  <2>3. f[k] = AndRequest(f[k - 1], ms[k])
    BY <2>2, Zenon
  <2>4. ASSUME NEW i \in 0 .. k, i # k
        PROVE  f[i] = IF i = 0 THEN <<>> ELSE AndRequest(f[i - 1], ms[i])
    <3>1. f[i] = g[i] /\ (i # 0 => f[i - 1] = g[i - 1])
      BY <2>2, <2>4, Zenon
    <3>2. g[i] = IF i = 0 THEN <<>> ELSE AndRequest(g[i - 1], ms[i])
      BY <2>1, <2>2, <2>4, Zenon DEF IsFirst
    <3> QED BY <3>1, <3>2, Zenon
  <2>5. f = [i \in 0 .. k |-> f[i]]
    OBVIOUS
  <2> HIDE DEF f
  <2>6. \A i \in 0 .. k : f[i] = IF i = 0 THEN <<>> ELSE AndRequest(f[i - 1], ms[i])
    BY <2>2, <2>3, <2>4, Zenon
  <2>7. IsFirst(ms, k, f)
    BY <2>5, <2>6, Zenon DEF IsFirst
  <2>8. k \in 0 .. N
    OBVIOUS
  <2> QED BY <2>7, <2>8
<1>3. \A k \in 1 .. N : k - 1 \in S => k \in S
  BY <1>2
<1>4. \A k \in 0 .. N : k \in S
  <2> HIDE DEF S
  <2> QED BY <1>1, <1>3, Induction
<1>5. N \in 0 .. N
  OBVIOUS
<1> QED BY <1>4, <1>5

\* ... so one more message is one more request, or none.
LEMMA RequestsStep ==
    ASSUME NEW ms, Len(ms) \in Nat
    PROVE  /\ Requests(ms, 0) = <<>>
           /\ \A n \in 1 .. Len(ms) : Requests(ms, n) = AndRequest(Requests(ms, n - 1), ms[n])
<1> DEFINE f == CHOOSE g : IsFirst(ms, Len(ms), g)
<1>1. IsFirst(ms, Len(ms), f)
  BY FirstExists, Zenon
<1>2. \A n : Requests(ms, n) = f[n]
  BY DEF Requests, IsFirst
<1> HIDE DEF f
<1>3. \A i \in 0 .. Len(ms) : f[i] = IF i = 0 THEN <<>> ELSE AndRequest(f[i - 1], ms[i])
  BY <1>1, Zenon DEF IsFirst
<1>4. 0 \in 0 .. Len(ms) /\ \A n \in 1 .. Len(ms) : n \in 0 .. Len(ms) /\ n # 0
  OBVIOUS
<1> QED BY <1>2, <1>3, <1>4

\* The messages of a script, and what is left of them, are bytes.
LEMMA ScriptFacts ==
    ASSUME NEW s \in Scripts
    PROVE  /\ Len(s) \in Nat /\ DOMAIN s = 1 .. Len(s)
           /\ \A i \in 1 .. Len(s) : InBytes(s[i])
           /\ \A n \in 0 .. Len(s) : EncodeFrom(s, n) \in Seq(Byte)
<1>1. /\ Len(s) \in Nat /\ DOMAIN s = 1 .. Len(s)
      /\ \A i \in 1 .. Len(s) : InBytes(s[i])
  <2>1. Len(s) \in 0 .. MaxMessages /\ MaxMessages \in Nat
    BY ClientAssumption, Zenon
  <2>2. Len(s) \in Nat
    BY <2>1
  <2>3. DOMAIN s = 1 .. Len(s)
    BY ClientAssumption, Zenon
  <2>4. \A i \in DOMAIN s : InBytes(s[i])
    BY ClientAssumption, Zenon
  <2> QED BY <2>2, <2>3, <2>4, Zenon
<1> DEFINE S == {k \in 0 .. Len(s) : EncodeFrom(s, Len(s) - k) \in Seq(Byte)}
<1>2. 0 \in S
  <2>1. Len(s) - 0 = Len(s) /\ 0 \in 0 .. Len(s)
    BY <1>1
  <2>2. EncodeFrom(s, Len(s)) = <<>>
    BY <1>1, EncodeFromStep
  <2>3. <<>> \in Seq(Byte)
    OBVIOUS
  <2> QED BY <2>1, <2>2, <2>3
<1>3. ASSUME NEW k \in 1 .. Len(s), k - 1 \in S PROVE k \in S
  <2> DEFINE n == Len(s) - k
  <2>1. /\ n \in 0 .. Len(s) - 1 /\ n + 1 = Len(s) - (k - 1) /\ n + 1 \in 1 .. Len(s)
        /\ k \in 0 .. Len(s)
    BY <1>1
  <2>2. EncodeFrom(s, n + 1) \in Seq(Byte)
    BY <1>3, <2>1
  <2> HIDE DEF n
  <2>3. EncodeFrom(s, n) = Encode(s[n + 1]) \o EncodeFrom(s, n + 1)
    BY <1>1, <2>1, EncodeFromStep
  <2>4. EncodeFrom(s, n) \in Seq(Byte)
    BY <1>1, <2>1, <2>2, <2>3, JoinFacts DEF InBytes
  <2> QED BY <2>1, <2>4 DEF n
<1>4. \A k \in 0 .. Len(s) : k \in S
  <2>1. \A k \in 1 .. Len(s) : k - 1 \in S => k \in S
    BY <1>3
  <2> HIDE DEF S
  <2> QED BY <1>1, <1>2, <2>1, Induction
<1>5. ASSUME NEW n \in 0 .. Len(s) PROVE EncodeFrom(s, n) \in Seq(Byte)
  <2>1. Len(s) - n \in 0 .. Len(s) /\ Len(s) - (Len(s) - n) = n
    BY <1>1
  <2> QED BY <1>4, <2>1
<1> QED BY <1>1, <1>5

----------------------------------------------------------------------------
(* The loop of HttpRequest::parse.                                         *)

\* std::search finds the first CRLF, or the end.
LEMMA LineEndFacts ==
    ASSUME NEW c, Len(c) \in Nat
    PROVE  /\ LineEnd(c) \in 1 .. Len(c) + 1
           /\ LineEnd(c) = Len(c) + 1 \/ EndsAt(c, LineEnd(c))
           /\ \A j \in 1 .. LineEnd(c) - 1 : ~EndsAt(c, j)
<1> DEFINE T == {i \in 1 .. Len(c) + 1 : i = Len(c) + 1 \/ EndsAt(c, i)}
<1>1. T \in SUBSET Nat /\ Len(c) + 1 \in T
  OBVIOUS
<1>2. PICK i \in T : \A j \in T : i <= j
  <2> HIDE DEF T
  <2> QED BY <1>1, LeastNatural
<1>3. i \in 1 .. Len(c) + 1 /\ (i = Len(c) + 1 \/ EndsAt(c, i))
  OBVIOUS
<1>4. ASSUME NEW j \in 1 .. i - 1 PROVE ~EndsAt(c, j)
  <2>1. j \in 1 .. Len(c) + 1 /\ ~(i <= j)
    BY <1>3
  <2> QED BY <1>2, <2>1
<1> QED BY <1>3, <1>4, Zenon DEF LineEnd

LEMMA LineEndIs ==
    ASSUME NEW c, Len(c) \in Nat, NEW i \in 1 .. Len(c) + 1,
           i = Len(c) + 1 \/ EndsAt(c, i), \A j \in 1 .. i - 1 : ~EndsAt(c, j)
    PROVE  LineEnd(c) = i
<1> DEFINE e == LineEnd(c)
<1>1. /\ e \in 1 .. Len(c) + 1 /\ (e = Len(c) + 1 \/ EndsAt(c, e))
      /\ \A j \in 1 .. e - 1 : ~EndsAt(c, j)
  BY LineEndFacts
<1> HIDE DEF e
<1>2. ~(e < i)
  <2> SUFFICES ASSUME e < i PROVE FALSE
    OBVIOUS
  <2>1. e \in 1 .. i - 1 /\ e # Len(c) + 1
    BY <1>1
  <2> QED BY <1>1, <2>1
<1>3. ~(i < e)
  <2> SUFFICES ASSUME i < e PROVE FALSE
    OBVIOUS
  <2>1. i \in 1 .. e - 1 /\ i # Len(c) + 1
    BY <1>1
  <2> QED BY <1>1, <2>1
<1>4. e = i
  BY <1>1, <1>2, <1>3
<1> QED BY <1>4 DEF e

\* A parser has a buffer, and knows nothing of the request before its first line.
IsParser(p) ==
    /\ p = [state_ |-> p.state_, buff |-> p.buff, req |-> p.req, form |-> p.form]
    /\ p.req = [method |-> p.req.method, path |-> p.req.path, version |-> p.req.version,
                headers |-> p.req.headers, body |-> p.req.body]
    /\ p.buff \in Buffers
    /\ ~Parsed(p) => p.req = InitRequest /\ ~p.form

LEMMA SkipLineSkips ==
    ASSUME NEW b \in Buffers
    PROVE  SkipLine(b) \in Buffers
<1> DEFINE c == Contents(b)
           e == LineEnd(c)
<1>1. Len(c) = Readable(b) /\ Len(c) \in Nat
  BY ContentsFacts
<1>2. e \in 1 .. Len(c) + 1 /\ (e = Len(c) + 1 \/ EndsAt(c, e))
  BY <1>1, LineEndFacts
<1>3. SkipLine(b) = IF e > Readable(b) THEN RetrieveAll(b) ELSE Retrieve(b, e + 1)
  BY DEF SkipLine
<1> HIDE DEF e, c
<1>4. CASE e > Readable(b)
  BY <1>3, <1>4, RetrieveAllEmpties
<1>5. CASE ~(e > Readable(b))
  <2>1. e < Len(c)
    BY <1>1, <1>2, <1>5 DEF EndsAt
  <2>2. e + 1 \in 0 .. Readable(b)
    BY <1>1, <1>2, <2>1
  <2> QED BY <1>3, <1>5, <2>2, RetrieveDrops
<1> QED BY <1>4, <1>5

\* A turn in which something is parsed.
LEMMA ParseLineIs ==
    ASSUME NEW p, IsParser(p), NEW line, line = FirstLine(p.buff), Readable(p.buff) # 0
    PROVE  /\ p.state_ = "REQUEST_LINE" /\ ~IsRequestLine(line) => ParseLine(p) = p
           /\ p.state_ = "REQUEST_LINE" /\ IsRequestLine(line) =>
                 ParseLine(p) =
                    [state_ |-> "HEADERS", buff |-> SkipLine(p.buff),
                     req |-> [method |-> SubSeq(line, 1, 2), path |-> ParsePath(line[3].text),
                              version |-> IF Len(line) = 4 THEN line[4].text ELSE "other",
                              headers |-> {}, body |-> <<>>],
                     form |-> p.form]
           /\ p.state_ = "HEADERS" =>
                 ParseLine(p) =
                    [state_ |-> IF IsHeader(line) THEN "HEADERS" ELSE "BODY",
                     buff |-> SkipLine(p.buff),
                     req |-> [method |-> p.req.method, path |-> p.req.path,
                              version |-> p.req.version,
                              headers |-> IF IsHeader(line)
                                          THEN p.req.headers \cup {line[1].header}
                                          ELSE p.req.headers,
                              body |-> p.req.body],
                     form |-> p.form]
           /\ p.state_ \notin {"REQUEST_LINE", "HEADERS", "FINISH"} =>
                 ParseLine(p) =
                    [state_ |-> "FINISH", buff |-> SkipLine(p.buff),
                     req |-> [method |-> p.req.method, path |-> p.req.path,
                              version |-> p.req.version, headers |-> p.req.headers,
                              body |-> line],
                     form |-> IsForm(p.req)]
<1> DEFINE s == p.state_
           b == p.buff
           q == p.req
           f == p.form
           z == SkipLine(b)
<1>1. p = [state_ |-> s, buff |-> b, req |-> q, form |-> f]
  BY DEF IsParser
<1>2. q = [method |-> q.method, path |-> q.path, version |-> q.version,
           headers |-> q.headers, body |-> q.body]
  BY DEF IsParser
<1>3. CASE s = "REQUEST_LINE" /\ ~IsRequestLine(line)
  <2>1. ParseRequestLine(p, line) = p
    BY <1>3 DEF ParseRequestLine
  <2> QED BY <1>3, <2>1 DEF ParseLine
<1>4. CASE s = "REQUEST_LINE" /\ IsRequestLine(line)
  <2> DEFINE r == [method |-> SubSeq(line, 1, 2), path |-> ParsePath(line[3].text),
                   version |-> IF Len(line) = 4 THEN line[4].text ELSE "other",
                   headers |-> {}, body |-> <<>>]
  <2>1. ParseRequestLine(p, line) = [p EXCEPT !.state_ = "HEADERS", !.req = r]
    BY <1>4 DEF ParseRequestLine
  <2> HIDE DEF r, q, f, b, s
  <2>2. ParseRequestLine(p, line) = [state_ |-> "HEADERS", buff |-> b, req |-> r, form |-> f]
    BY <1>1, <2>1
  <2>3. ParseLine(p) = [ParseRequestLine(p, line) EXCEPT !.buff = z]
    BY <1>4, <2>2 DEF ParseLine, s, b
  <2>4. ParseLine(p) = [state_ |-> "HEADERS", buff |-> z, req |-> r, form |-> f]
    BY <2>2, <2>3
  <2> QED BY <1>4, <2>4 DEF r, f, b, s
<1>5. CASE s = "HEADERS"
  <2> DEFINE h == q.headers \cup {line[1].header}
             r == [q EXCEPT !.headers = h]
  <2>1. ParseHeader(p, line) = IF IsHeader(line) THEN [p EXCEPT !.req = r]
                               ELSE [p EXCEPT !.state_ = "BODY"]
    BY DEF ParseHeader
  <2>2. r = [method |-> q.method, path |-> q.path, version |-> q.version, headers |-> h,
             body |-> q.body]
    <3> HIDE DEF q, h
    <3> QED BY <1>2
  <2> HIDE DEF r, q, f, b, s
  <2>3. ParseHeader(p, line) = [state_ |-> IF IsHeader(line) THEN s ELSE "BODY", buff |-> b,
                                req |-> IF IsHeader(line) THEN r ELSE q, form |-> f]
    BY <1>1, <2>1
  <2>4. ParseLine(p) = [ParseHeader(p, line) EXCEPT !.buff = z]
    BY <1>5, <2>3 DEF ParseLine, s, b
  <2>5. ParseLine(p) = [state_ |-> IF IsHeader(line) THEN s ELSE "BODY", buff |-> z,
                        req |-> IF IsHeader(line) THEN r ELSE q, form |-> f]
    BY <2>3, <2>4
  <2>6. (IF IsHeader(line) THEN r ELSE q) =
           [method |-> q.method, path |-> q.path, version |-> q.version,
            headers |-> IF IsHeader(line) THEN h ELSE q.headers, body |-> q.body]
    BY <1>2, <2>2
  <2> QED BY <1>5, <2>5, <2>6 DEF q, f, b, s
<1>6. CASE s \notin {"REQUEST_LINE", "HEADERS", "FINISH"}
  <2> DEFINE r == [q EXCEPT !.body = line]
  <2>1. ParseBody(p, line) = [p EXCEPT !.state_ = "FINISH", !.req = r, !.form = IsForm(q)]
    BY DEF ParseBody
  <2>2. r = [method |-> q.method, path |-> q.path, version |-> q.version,
             headers |-> q.headers, body |-> line]
    <3> HIDE DEF q
    <3> QED BY <1>2
  <2> HIDE DEF r, q, f, b, s
  <2>3. ParseBody(p, line) = [state_ |-> "FINISH", buff |-> b, req |-> r, form |-> IsForm(q)]
    BY <1>1, <2>1
  <2>4. ParseLine(p) = [ParseBody(p, line) EXCEPT !.buff = z]
    BY <1>6, <2>3 DEF ParseLine, s, b
  <2>5. ParseLine(p) = [state_ |-> "FINISH", buff |-> z, req |-> r, form |-> IsForm(q)]
    BY <2>3, <2>4
  <2> QED BY <1>6, <2>2, <2>5 DEF q, f, b, s
<1> QED BY <1>3, <1>4, <1>5, <1>6

\* A turn leaves a parser.
LEMMA ParseLineKeeps ==
    ASSUME NEW p, IsParser(p)
    PROVE  IsParser(ParseLine(p))
<1> DEFINE line == FirstLine(p.buff)
           z == SkipLine(p.buff)
<1>1. z \in Buffers
  BY SkipLineSkips DEF IsParser
<1>2. ASSUME ParseLine(p) = p PROVE IsParser(ParseLine(p))
  BY <1>2
<1>3. CASE Readable(p.buff) = 0 \/ p.state_ = "FINISH"
  BY <1>2, <1>3 DEF ParseLine
<1>4. CASE Readable(p.buff) # 0 /\ p.state_ # "FINISH"
  <2> HIDE DEF z, line
  <2>1. ASSUME NEW s, s # "REQUEST_LINE", NEW m, NEW w, NEW v, NEW h, NEW y, NEW f,
               ParseLine(p) = [state_ |-> s, buff |-> z,
                               req |-> [method |-> m, path |-> w, version |-> v,
                                        headers |-> h, body |-> y], form |-> f]
        PROVE  IsParser(ParseLine(p))
    BY <1>1, <2>1 DEF IsParser, Parsed
  <2>2. CASE p.state_ = "REQUEST_LINE"
    BY <1>2, <1>4, <2>1, <2>2, ParseLineIs DEF z, line
  <2>3. CASE p.state_ = "HEADERS"
    <3>1. (IF IsHeader(line) THEN "HEADERS" ELSE "BODY") # "REQUEST_LINE"
      OBVIOUS
    <3> QED BY <1>4, <2>1, <2>3, <3>1, ParseLineIs DEF z, line
  <2>4. CASE p.state_ \notin {"REQUEST_LINE", "HEADERS"}
    BY <1>4, <2>1, <2>4, ParseLineIs DEF z, line
  <2> QED BY <2>2, <2>3, <2>4
<1> QED BY <1>3, <1>4

\* f is the function that Parse defines by recursion, up to k.
IsTurns(b, k, f) ==
    f = [i \in 0 .. k |-> IF i = 0 THEN NewParser(b)
                          ELSE CHOOSE q \in {ParseLine(p) : p \in {f[i - 1]}} : TRUE]

LEMMA OneTurn ==
    ASSUME NEW x
    PROVE  (CHOOSE q \in {ParseLine(p) : p \in {x}} : TRUE) = ParseLine(x)
OBVIOUS

\* It exists ...
LEMMA TurnsExist ==
    ASSUME NEW b, NEW N \in Nat
    PROVE  \E f : IsTurns(b, N, f)
<1> DEFINE S == {k \in 0 .. N : \E f : IsTurns(b, k, f)}
           Turn(x) == CHOOSE q \in {ParseLine(p) : p \in {x}} : TRUE
<1>1. 0 \in S
  <2> DEFINE f == [i \in 0 .. 0 |-> NewParser(b)]
  <2>1. f[0] = NewParser(b) /\ 0 \in 0 .. N
    OBVIOUS
  <2>2. IsTurns(b, 0, f)
    BY SMT DEF IsTurns
  <2> QED BY <2>1, <2>2
<1>2. ASSUME NEW k \in 1 .. N, k - 1 \in S PROVE k \in S
  <2>1. PICK g : IsTurns(b, k - 1, g)
    BY <1>2
  <2> DEFINE f == [i \in 0 .. k |-> IF i = k THEN Turn(g[k - 1]) ELSE g[i]]
  <2>2. /\ k \in 0 .. k /\ k # 0 /\ k - 1 \in 0 .. k /\ k - 1 # k
        /\ \A i \in 0 .. k : i # k => i \in 0 .. k - 1 /\ (i # 0 => i - 1 \in 0 .. k /\ i - 1 # k)
    OBVIOUS
  <2>3. f[k] = Turn(f[k - 1])
    BY <2>2, Zenon
  <2>4. ASSUME NEW i \in 0 .. k, i # k
        PROVE  f[i] = IF i = 0 THEN NewParser(b) ELSE Turn(f[i - 1])
    <3>1. f[i] = g[i] /\ (i # 0 => f[i - 1] = g[i - 1])
      BY <2>2, <2>4, Zenon
    <3>2. g[i] = IF i = 0 THEN NewParser(b) ELSE Turn(g[i - 1])
      BY <2>1, <2>2, <2>4, Zenon DEF IsTurns
    <3> QED BY <3>1, <3>2, Zenon
  <2>5. f = [i \in 0 .. k |-> f[i]]
    OBVIOUS
  <2> HIDE DEF f
  <2>6. \A i \in 0 .. k : f[i] = IF i = 0 THEN NewParser(b) ELSE Turn(f[i - 1])
    BY <2>2, <2>3, <2>4, Zenon
  <2>7. IsTurns(b, k, f)
    BY <2>5, <2>6, Zenon DEF IsTurns
  <2>8. k \in 0 .. N
    OBVIOUS
  <2> QED BY <2>7, <2>8
<1>3. \A k \in 1 .. N : k - 1 \in S => k \in S
  BY <1>2
<1>4. \A k \in 0 .. N : k \in S
  <2> HIDE DEF S
  <2> QED BY <1>1, <1>3, Induction
<1>5. N \in 0 .. N
  OBVIOUS
<1> QED BY <1>4, <1>5

\* t has the parser after each turn of the loop.
Turns(b, t) ==
    /\ t[0] = NewParser(b) /\ Parse(b) = t[Readable(b)]
    /\ \A k \in 1 .. Readable(b) : t[k] = ParseLine(t[k - 1])

\* ... so Parse is what the turns of the loop make of a new parser.
LEMMA ParseTurns ==
    ASSUME NEW b, Readable(b) \in Nat
    PROVE  \E t : Turns(b, t)
<1> DEFINE N == Readable(b)
           f == CHOOSE g : IsTurns(b, N, g)
<1>1. IsTurns(b, N, f)
  BY TurnsExist, Zenon
<1>2. Parse(b) = f[N]
  BY DEF Parse, IsTurns
<1> HIDE DEF f
<1>3. \A i \in 0 .. N : f[i] = IF i = 0 THEN NewParser(b)
                               ELSE CHOOSE q \in {ParseLine(p) : p \in {f[i - 1]}} : TRUE
  BY <1>1, Zenon DEF IsTurns
<1>4. 0 \in 0 .. N /\ \A k \in 1 .. N : k \in 0 .. N /\ k # 0
  OBVIOUS
<1>5. f[0] = NewParser(b)
  BY <1>3, <1>4, Zenon
<1>6. \A k \in 1 .. N : f[k] = ParseLine(f[k - 1])
  BY <1>3, <1>4, OneTurn, Zenon
<1> QED BY <1>2, <1>5, <1>6 DEF Turns

\* A request that does not parse has no path, and no form.
LEMMA ParseFacts ==
    ASSUME NEW b \in Buffers
    PROVE  IsParser(Parse(b))
<1> DEFINE N == Readable(b)
<1>1. N \in Nat
  BY ContentsFacts
<1>2. PICK t : Turns(b, t)
  BY <1>1, ParseTurns
<1> DEFINE S == {k \in 0 .. N : IsParser(t[k])}
<1>3. 0 \in S
  <2>1. IsParser(NewParser(b))
    BY DEF IsParser, NewParser, InitRequest, Parsed
  <2> QED BY <1>1, <1>2, <2>1 DEF Turns
<1>4. \A k \in 1 .. N : k - 1 \in S => k \in S
  <2> SUFFICES ASSUME NEW k \in 1 .. N, k - 1 \in S PROVE k \in S
    OBVIOUS
  <2>1. IsParser(t[k - 1]) /\ k \in 0 .. N
    BY <1>1
  <2> QED BY <1>2, <2>1, ParseLineKeeps DEF Turns
<1>5. \A k \in 0 .. N : k \in S
  <2> HIDE DEF S, N
  <2> QED BY <1>1, <1>3, <1>4, Induction
<1>6. N \in 0 .. N
  BY <1>1
<1> QED BY <1>2, <1>5, <1>6 DEF Turns

\* What requests consist of, and what a buffer may hold.
Symbol ==
    Byte \cup {CR, LF} \cup {Text(t) : t \in {"GE", "T", "PO", "ST"}}
         \cup {[header |-> h] : h \in STRING} \cup {Text(t) : t \in STRING}

LEMMA JoinSymbols ==
    ASSUME NEW p \in Seq(Symbol), NEW q \in Seq(Symbol)
    PROVE  /\ p \o q \in Seq(Symbol) /\ Len(p \o q) = Len(p) + Len(q)
           /\ Len(p) \in Nat /\ Len(q) \in Nat
           /\ \A i \in 1 .. Len(p) : (p \o q)[i] = p[i]
           /\ \A i \in 1 .. Len(q) : (p \o q)[Len(p) + i] = q[i]
OBVIOUS

\* What b begins with is a line, and what follows it is left.
LEMMA TakeLine ==
    ASSUME NEW x \in Seq(Symbol), NEW y \in Seq(Symbol), \A i \in 1 .. Len(x) : x[i] # CR,
           NEW b \in Buffers, Contents(b) = x \o (CRLF \o y)
    PROVE  /\ FirstLine(b) = x /\ Readable(b) # 0
           /\ SkipLine(b) \in Buffers /\ Contents(SkipLine(b)) = y
<1> DEFINE c == Contents(b)
           d == CRLF \o y
           n == Len(x)
           k == Len(y)
<1>1. n \in Nat /\ k \in Nat
  OBVIOUS
<1>2. d \in Seq(Symbol) /\ Len(d) = 2 + k /\ d[1] = CR /\ d[2] = LF
      /\ \A i \in 1 .. k : d[2 + i] = y[i]
  <2> DEFINE a == CR
             z == LF
  <2>1. a \in Symbol /\ z \in Symbol /\ d = <<a, z>> \o y
    BY DEF CRLF, Symbol
  <2> HIDE DEF a, z, d
  <2>2. <<a, z>> \in Seq(Symbol) /\ Len(<<a, z>>) = 2 /\ <<a, z>>[1] = a /\ <<a, z>>[2] = z
    BY <2>1
  <2> QED BY <1>1, <2>1, <2>2, ConcatProperties DEF a, z
<1>3. c = x \o d /\ c \in Seq(Byte) /\ Len(c) = Readable(b)
  BY ContentsFacts
<1> HIDE DEF c, d
<1>4. Len(c) = n + (2 + k) /\ (\A i \in 1 .. n : c[i] = x[i])
      /\ \A i \in 1 .. 2 + k : c[n + i] = d[i]
  <2>1. x \in Seq(Symbol) /\ d \in Seq(Symbol) /\ Len(d) = 2 + k
    BY <1>2
  <2> HIDE DEF k
  <2>2. /\ Len(x \o d) = Len(x) + Len(d)
        /\ \A i \in 1 .. Len(x) : (x \o d)[i] = x[i]
        /\ \A i \in 1 .. Len(d) : (x \o d)[Len(x) + i] = d[i]
    BY ONLY <2>1, JoinSymbols
  <2> QED BY ONLY <1>3, <2>1, <2>2, Zenon
<1> HIDE DEF n, k
<1>5. c[n + 1] = CR /\ c[n + 1 + 1] = LF /\ \A i \in 1 .. k : c[n + 2 + i] = y[i]
  <2>1. 1 \in 1 .. 2 + k /\ 2 \in 1 .. 2 + k /\ n + 1 + 1 = n + 2
    BY <1>1
  <2>2. \A i \in 1 .. k : 2 + i \in 1 .. 2 + k /\ n + (2 + i) = n + 2 + i
    BY <1>1
  <2> QED BY <1>2, <1>4, <2>1, <2>2
<1>6. LineEnd(c) = n + 1
  <2>1. n + 1 \in 1 .. Len(c) + 1 /\ n + 1 < Len(c) /\ Len(c) \in Nat /\ n + 1 - 1 = n
    BY <1>1, <1>4
  <2>2. EndsAt(c, n + 1)
    BY <1>5, <2>1 DEF EndsAt
  <2>3. \A j \in 1 .. n + 1 - 1 : ~EndsAt(c, j)
    BY <1>4, <2>1 DEF EndsAt, n
  <2>4. ASSUME NEW e, e = n + 1 PROVE LineEnd(c) = e
    <3>1. /\ Len(c) \in Nat /\ e \in 1 .. Len(c) + 1 /\ EndsAt(c, e)
          /\ \A j \in 1 .. e - 1 : ~EndsAt(c, j)
      BY ONLY <1>1, <2>1, <2>2, <2>3, <2>4, SMT
    <3> QED BY ONLY <3>1, LineEndIs
  <2> QED BY <2>4
<1>7. SubSeq(c, 0 + 1, n) = x
  <2>1. 0 \in Nat /\ 0 <= n /\ n <= Len(c) /\ n - 0 = n
    BY <1>1, <1>4
  <2>2. /\ SubSeq(c, 0 + 1, n) \in Seq(Byte) /\ Len(SubSeq(c, 0 + 1, n)) = n
        /\ \A i \in 1 .. n : SubSeq(c, 0 + 1, n)[i] = c[0 + i]
    BY <1>1, <1>3, <2>1, CutFacts
  <2>3. \A i \in 1 .. n : 0 + i = i
    BY <1>1
  <2>4. x \in Seq(Byte)
    <3>1. \A i \in 1 .. n : x[i] \in Byte
      <4>1. \A i \in 1 .. n : i \in 1 .. Len(c)
        BY <1>1, <1>4
      <4>2. \A i \in 1 .. Len(c) : c[i] \in Byte
        BY ONLY <1>3, ElementOfSeq
      <4> QED BY <1>4, <4>1, <4>2, Zenon
    <3> QED BY <3>1 DEF n
  <2> QED BY <1>4, <2>2, <2>3, <2>4, SeqEqual DEF n
<1>8. FirstLine(b) = x
  <2>1. n + 1 - 1 = n /\ 0 + 1 = 1
    BY <1>1
  <2>2. FirstLine(b) = SubSeq(c, 1, LineEnd(c) - 1)
    BY DEF FirstLine, c
  <2>3. LineEnd(c) - 1 = n
    BY ONLY <1>1, <1>6, <2>1
  <2> QED BY ONLY <1>7, <2>1, <2>2, <2>3, Zenon
<1>9. SkipLine(b) = Retrieve(b, n + 2) /\ n + 2 \in 0 .. Readable(b) /\ Readable(b) # 0
  <2>1. ~(n + 1 > Readable(b)) /\ n + 1 + 1 = n + 2 /\ n + 2 \in 0 .. Readable(b)
        /\ Readable(b) # 0
    BY <1>1, <1>3, <1>4
  <2> QED BY <1>6, <2>1 DEF SkipLine, c
<1>10. /\ SkipLine(b) \in Buffers
       /\ Contents(SkipLine(b)) = SubSeq(c, (n + 2) + 1, Len(c))
  BY <1>3, <1>9, RetrieveDrops DEF c
<1>11. SubSeq(c, (n + 2) + 1, Len(c)) = y
  <2>1. n + 2 \in Nat /\ Len(c) \in Nat /\ n + 2 <= Len(c) /\ Len(c) <= Len(c)
        /\ Len(c) - (n + 2) = k
    BY <1>1, <1>4
  <2>2. /\ SubSeq(c, (n + 2) + 1, Len(c)) \in Seq(Byte)
        /\ Len(SubSeq(c, (n + 2) + 1, Len(c))) = k
        /\ \A i \in 1 .. k : SubSeq(c, (n + 2) + 1, Len(c))[i] = c[(n + 2) + i]
    <3> DEFINE r == n + 2
               w == Len(c)
    <3>1. r \in Nat /\ w \in Nat /\ r <= w /\ w <= Len(c) /\ w - r = k
      BY <2>1
    <3> HIDE DEF r, w
    <3>2. /\ SubSeq(c, r + 1, w) \in Seq(Byte) /\ Len(SubSeq(c, r + 1, w)) = w - r
          /\ \A i \in 1 .. w - r : SubSeq(c, r + 1, w)[i] = c[r + i]
      BY ONLY <1>3, <3>1, CutFacts
    <3> QED BY <3>1, <3>2 DEF r, w
  <2>3. y \in Seq(Byte)
    <3>1. \A i \in 1 .. k : y[i] \in Byte
      <4>1. \A i \in 1 .. k : n + 2 + i \in 1 .. Len(c)
        BY <1>1, <1>4
      <4>2. \A i \in 1 .. Len(c) : c[i] \in Byte
        BY ONLY <1>3, ElementOfSeq
      <4> QED BY <1>5, <4>1, <4>2, Zenon
    <3> QED BY <3>1 DEF k
  <2> DEFINE r == SubSeq(c, (n + 2) + 1, Len(c))
  <2>4. r \in Seq(Byte) /\ Len(r) = Len(y) /\ \A i \in 1 .. Len(r) : r[i] = y[i]
    BY <1>5, <2>2 DEF k
  <2> HIDE DEF r
  <2>5. r = y
    BY ONLY <2>3, <2>4, SeqEqual
  <2> QED BY <2>5 DEF r
<1> QED BY <1>8, <1>9, <1>10, <1>11

\* The header lines after the nth, the empty line and the body.
Rest(m, n) == Joined(HeaderLines(m), n) \o (CRLF \o m.body)

LEMMA FourSymbols ==
    ASSUME NEW p \in Symbol, NEW q \in Symbol, NEW r \in Symbol, NEW s \in Symbol
    PROVE  /\ <<p, q>> \o <<r, s>> = <<p, q, r, s>>
           /\ SubSeq(<<p, q, r, s>>, 1, 2) = <<p, q>>
           /\ <<p, q, r, s>> \in Seq(Symbol)
<1> DEFINE a == <<p, q>>
           z == <<r, s>>
           f == <<p, q, r, s>>
<1>1. /\ a \in Seq(Symbol) /\ z \in Seq(Symbol) /\ f \in Seq(Symbol)
      /\ Len(a) = 2 /\ Len(z) = 2 /\ Len(f) = 4
  OBVIOUS
<1>2. a[1] = p /\ a[2] = q /\ z[1] = r /\ z[2] = s
      /\ f[1] = p /\ f[2] = q /\ f[3] = r /\ f[4] = s
  OBVIOUS
<1> HIDE DEF a, z, f
<1>4. a \o z \in Seq(Symbol) /\ Len(a \o z) = 4 /\ (\A i \in 1 .. 2 : (a \o z)[i] = a[i])
      /\ \A i \in 1 .. 2 : (a \o z)[2 + i] = z[i]
  <2>1. /\ a \o z \in Seq(Symbol) /\ Len(a \o z) = Len(a) + Len(z)
        /\ \A i \in 1 .. Len(a) : (a \o z)[i] = a[i]
        /\ \A i \in 1 .. Len(z) : (a \o z)[Len(a) + i] = z[i]
    BY ONLY <1>1, JoinSymbols
  <2>2. 2 + 2 = 4
    OBVIOUS
  <2> QED BY ONLY <1>1, <2>1, <2>2, Zenon
<1>5. (\A i \in 1 .. 4 : i = 1 \/ i = 2 \/ i = 2 + 1 \/ i = 2 + 2) /\ 2 + 1 = 3 /\ 2 + 2 = 4
      /\ 1 \in 1 .. 2 /\ 2 \in 1 .. 2
  OBVIOUS
<1>6. \A i \in 1 .. 4 : (a \o z)[i] = f[i]
  BY <1>2, <1>4, <1>5, Zenon
<1>7. a \o z = f
  BY <1>1, <1>4, <1>6, SeqEqual
<1>8. SubSeq(f, 1, 2) = a
  <2>1. SubSeq(f, 1, 2) \in Seq(Symbol) /\ Len(SubSeq(f, 1, 2)) = 2
        /\ \A i \in 1 .. 2 : SubSeq(f, 1, 2)[i] = f[i]
    <3>1. 1 \in Int /\ 2 \in Int /\ \A i \in 1 .. 2 : f[i] \in Symbol
      <4>1. \A i \in 1 .. 2 : i \in 1 .. 4
        OBVIOUS
      <4>2. \A i \in 1 .. 4 : f[i] \in Symbol
        BY <1>1, ElementOfSeq
      <4> QED BY <4>1, <4>2
    <3>2. /\ SubSeq(f, 1, 2) \in Seq(Symbol)
          /\ Len(SubSeq(f, 1, 2)) = IF 1 <= 2 THEN 2 - 1 + 1 ELSE 0
          /\ \A i \in 1 .. 2 - 1 + 1 : SubSeq(f, 1, 2)[i] = f[1 + i - 1]
      BY ONLY <3>1, SubSeqProperties
    <3>3. 2 - 1 + 1 = 2 /\ 1 <= 2 /\ \A i \in 1 .. 2 : 1 + i - 1 = i
      OBVIOUS
    <3> QED BY <3>2, <3>3
  <2>2. \A i \in 1 .. 2 : i = 1 \/ i = 2
    OBVIOUS
  <2>3. \A i \in 1 .. 2 : SubSeq(f, 1, 2)[i] = a[i]
    BY <1>2, <2>1, <2>2, Zenon
  <2> QED BY <1>1, <2>1, <2>3, SeqEqual
<1> QED BY <1>1, <1>7, <1>8 DEF a, z, f

LEMMA RequestLineFacts ==
    ASSUME NEW m, IsRequest(m)
    PROVE  /\ RequestLine(m) \in Seq(Symbol) /\ Len(RequestLine(m)) = 4
           /\ IsRequestLine(RequestLine(m))
           /\ \A i \in 1 .. 4 : RequestLine(m)[i] # CR
           /\ SubSeq(RequestLine(m), 1, 2) = m.method
           /\ m.method = <<RequestLine(m)[1], RequestLine(m)[2]>>
           /\ RequestLine(m)[3].text = m.path /\ RequestLine(m)[4].text = m.version
<1> DEFINE x == RequestLine(m)
<1>1. PICK a \in {"GE", "PO"}, b \in {"T", "ST"} : m.method = <<Text(a), Text(b)>>
  <2>1. m.method = Get \/ m.method = Post
    BY DEF IsRequest
  <2> QED BY <2>1 DEF Get, Post
<1>0. Text(a) \in Symbol /\ Text(b) \in Symbol /\ Text(m.path) \in Symbol
      /\ Text(m.version) \in Symbol
  <2>1. \A t \in STRING : Text(t) \in Symbol
    BY DEF Symbol
  <2>2. \A t \in {"GE", "T", "PO", "ST"} : Text(t) \in Symbol
    BY DEF Symbol
  <2> QED BY <2>1, <2>2 DEF IsRequest
<1>2. x = <<Text(a), Text(b), Text(m.path), Text(m.version)>>
  <2> DEFINE p == Text(a)
             q == Text(b)
             r == Text(m.path)
             s == Text(m.version)
  <2>1. x = <<p, q>> \o <<r, s>> /\ {p, q, r, s} \subseteq Symbol
    BY <1>0, <1>1 DEF RequestLine
  <2> HIDE DEF p, q, r, s, x
  <2>2. <<p, q>> \o <<r, s>> = <<p, q, r, s>>
    BY <2>1, FourSymbols
  <2> QED BY <2>1, <2>2 DEF p, q, r, s
<1>3. \A t : "text" \in DOMAIN Text(t) /\ Text(t).text = t /\ Text(t) # CR
  <2>1. \A t : DOMAIN Text(t) = {"text"} /\ Text(t).text = t
    BY DEF Text
  <2>2. DOMAIN CR = {"eol"}
    BY DEF CR
  <2>3. "text" # "eol"
    OBVIOUS
  <2> QED BY <2>1, <2>2, <2>3
<1> HIDE DEF x
<1>4. /\ Len(x) = 4 /\ x[1] = Text(a) /\ x[2] = Text(b) /\ x[3] = Text(m.path)
      /\ x[4] = Text(m.version)
  <2> DEFINE p == Text(a)
             q == Text(b)
             r == Text(m.path)
             s == Text(m.version)
  <2>1. x = <<p, q, r, s>>
    BY <1>2
  <2> HIDE DEF p, q, r, s
  <2>2. Len(x) = 4 /\ x[1] = p /\ x[2] = q /\ x[3] = r /\ x[4] = s
    BY <2>1
  <2> QED BY <2>2 DEF p, q, r, s
<1>5. \A i \in 1 .. 4 : i = 1 \/ i = 2 \/ i = 3 \/ i = 4
  OBVIOUS
<1>6. \A i \in 1 .. 4 : "text" \in DOMAIN x[i] /\ x[i] # CR
  <2> TAKE i \in 1 .. 4
  <2>1. \E t : x[i] = Text(t)
    BY <1>4, <1>5
  <2> QED BY ONLY <1>3, <2>1, Zenon
<1>7. IsRequestLine(x)
  <2>1. 4 \in {4, 5} /\ 4 # 5
    OBVIOUS
  <2> QED BY <1>4, <1>6, <2>1, Zenon DEF IsRequestLine
<1>8. x \in Seq(Symbol) /\ SubSeq(x, 1, 2) = m.method
  <2> DEFINE p == Text(a)
             q == Text(b)
             r == Text(m.path)
             s == Text(m.version)
  <2>1. x = <<p, q, r, s>> /\ m.method = <<p, q>> /\ {p, q, r, s} \subseteq Symbol
    BY <1>0, <1>1, <1>2
  <2> HIDE DEF p, q, r, s
  <2>2. p \in Symbol /\ q \in Symbol /\ r \in Symbol /\ s \in Symbol
    BY ONLY <2>1
  <2>3. /\ <<p, q>> \o <<r, s>> = <<p, q, r, s>>
        /\ SubSeq(<<p, q, r, s>>, 1, 2) = <<p, q>>
        /\ <<p, q, r, s>> \in Seq(Symbol)
    BY ONLY <2>2, FourSymbols
  <2> QED BY ONLY <2>1, <2>3
<1>9. m.method = <<x[1], x[2]>>
  BY <1>1, <1>4
<1> QED BY <1>3, <1>4, <1>6, <1>7, <1>8, <1>9 DEF x

\* The header lines after the nth take three bytes each.
LEMMA RestFacts ==
    ASSUME NEW m, IsRequest(m)
    PROVE  LET H == Len(m.headers)
           IN  /\ H \in Nat /\ m.body \in Seq(Symbol)
               /\ \A n \in 0 .. H :
                     /\ Joined(HeaderLines(m), n) \in Seq(Symbol)
                     /\ Len(Joined(HeaderLines(m), n)) = 3 * (H - n)
               /\ Rest(m, H) = <<>> \o (CRLF \o m.body)
               /\ \A n \in 1 .. H :
                     /\ Rest(m, n) \in Seq(Symbol) /\ m.headers[n] \in STRING
                     /\ Rest(m, n - 1) = <<[header |-> m.headers[n]]>> \o (CRLF \o Rest(m, n))
<1> DEFINE H == Len(m.headers)
           ss == HeaderLines(m)
           J(n) == Joined(ss, n)
           h(n) == <<[header |-> m.headers[n]]>>
<1>1. /\ H \in Nat /\ m.body \in Seq(Byte)
      /\ \A n \in 1 .. H : m.headers[n] \in STRING
  BY DEF IsRequest
<1>2. m.body \in Seq(Symbol) /\ CRLF \in Seq(Symbol) /\ Len(CRLF) = 2
  <2>1. Byte \subseteq Symbol /\ CR \in Symbol /\ LF \in Symbol
    BY DEF Symbol
  <2> DEFINE a == CR
             z == LF
             y == m.body
  <2> HIDE DEF a, z, y
  <2>2. <<a, z>> \in Seq(Symbol) /\ Len(<<a, z>>) = 2
    BY <2>1 DEF a, z
  <2>3. y \in Seq(Symbol)
    BY <1>1, <2>1 DEF y
  <2> QED BY <2>2, <2>3 DEF CRLF, a, z, y
<1>3. \A n \in 1 .. H : h(n) \in Seq(Symbol) /\ Len(h(n)) = 1
  <2> SUFFICES ASSUME NEW n \in 1 .. H PROVE h(n) \in Seq(Symbol) /\ Len(h(n)) = 1
    OBVIOUS
  <2> DEFINE x == [header |-> m.headers[n]]
  <2>1. x \in Symbol
    BY <1>1 DEF Symbol
  <2> HIDE DEF x
  <2>2. <<x>> \in Seq(Symbol) /\ Len(<<x>>) = 1
    BY <2>1
  <2> QED BY <2>2 DEF x
<1>4. Len(ss) = H /\ \A n \in 1 .. H : ss[n] = h(n) \o CRLF
  <2>1. ss = [n \in 1 .. H |-> h(n) \o CRLF]
    BY DEF HeaderLines
  <2> HIDE DEF h, ss, H
  <2>2. Len(ss) = H
    BY <1>1, <2>1
  <2> QED BY <2>1, <2>2, Zenon
<1> HIDE DEF ss, H
<1>5. J(H) = <<>> /\ \A n \in 1 .. H : J(n - 1) = (h(n) \o CRLF) \o J(n)
  <2>1. /\ Joined(ss, H) = <<>>
        /\ \A n \in 0 .. H - 1 : Joined(ss, n) = ss[n + 1] \o Joined(ss, n + 1)
    BY <1>1, <1>4, JoinedStep
  <2>2. \A n \in 1 .. H : n - 1 \in 0 .. H - 1 /\ n - 1 + 1 = n
    BY <1>1
  <2>3. \A n \in 1 .. H : Joined(ss, n - 1) = ss[n] \o Joined(ss, n)
    BY <2>1, <2>2
  <2> QED BY <1>4, <2>1, <2>3
<1> HIDE DEF J, h
<1>6. \A n \in 1 .. H : h(n) \o CRLF \in Seq(Symbol) /\ Len(h(n) \o CRLF) = 3
  <2> SUFFICES ASSUME NEW n \in 1 .. H
               PROVE  h(n) \o CRLF \in Seq(Symbol) /\ Len(h(n) \o CRLF) = 3
    OBVIOUS
  <2> DEFINE a == h(n)
             z == CRLF
  <2>1. a \in Seq(Symbol) /\ z \in Seq(Symbol) /\ Len(a) = 1 /\ Len(z) = 2
    BY <1>2, <1>3
  <2> HIDE DEF a, z
  <2>2. a \o z \in Seq(Symbol) /\ Len(a \o z) = Len(a) + Len(z)
    BY ONLY <2>1, JoinSymbols
  <2>3. 1 + 2 = 3
    OBVIOUS
  <2> QED BY <2>1, <2>2, <2>3 DEF a, z
<1>7. \A n \in 0 .. H : J(n) \in Seq(Symbol) /\ Len(J(n)) = 3 * (H - n)
  <2> DEFINE S == {k \in 0 .. H : J(H - k) \in Seq(Symbol) /\ Len(J(H - k)) = 3 * k}
  <2>1. 0 \in S
    <3>1. H - 0 = H /\ 3 * 0 = 0 /\ 0 \in 0 .. H
      BY <1>1
    <3>2. <<>> \in Seq(Symbol) /\ Len(<<>>) = 0
      OBVIOUS
    <3> QED BY <1>5, <3>1, <3>2
  <2>2. \A k \in 1 .. H : k - 1 \in S => k \in S
    <3> SUFFICES ASSUME NEW k \in 1 .. H, k - 1 \in S PROVE k \in S
      OBVIOUS
    <3> DEFINE n == H - (k - 1)
    <3>1. n \in 1 .. H /\ n - 1 = H - k /\ k \in 0 .. H
      BY <1>1
    <3>2. J(n) \in Seq(Symbol) /\ Len(J(n)) = 3 * (k - 1)
      OBVIOUS
    <3> HIDE DEF n
    <3>3. J(n - 1) = (h(n) \o CRLF) \o J(n)
      BY <1>5, <3>1
    <3>4. J(n - 1) \in Seq(Symbol) /\ Len(J(n - 1)) = 3 + 3 * (k - 1)
      <4> DEFINE g == h(n) \o CRLF
      <4>1. g \in Seq(Symbol) /\ Len(g) = 3 /\ J(n - 1) = g \o J(n)
        BY <1>6, <3>1, <3>3
      <4> HIDE DEF g
      <4>2. g \o J(n) \in Seq(Symbol) /\ Len(g \o J(n)) = Len(g) + Len(J(n))
        BY <3>2, <4>1, JoinSymbols
      <4> QED BY ONLY <3>2, <4>1, <4>2, Zenon
    <3>5. 3 + 3 * (k - 1) = 3 * k
      OBVIOUS
    <3> QED BY <3>1, <3>4, <3>5
  <2>3. \A k \in 0 .. H : k \in S
    <3> HIDE DEF S
    <3> QED BY <1>1, <2>1, <2>2, Induction
  <2> SUFFICES ASSUME NEW n \in 0 .. H PROVE J(n) \in Seq(Symbol) /\ Len(J(n)) = 3 * (H - n)
    OBVIOUS
  <2>4. H - n \in 0 .. H /\ H - (H - n) = n
    BY <1>1
  <2> QED BY <2>3, <2>4
<1> DEFINE y == CRLF \o m.body
<1>8. y \in Seq(Symbol)
  BY <1>2, JoinSymbols
<1>9. \A n : Rest(m, n) = J(n) \o y
  BY DEF Rest, J, ss
<1> HIDE DEF y
<1>10. \A n \in 0 .. H : Rest(m, n) \in Seq(Symbol)
  BY <1>7, <1>8, <1>9, JoinSymbols
<1>11. ASSUME NEW n \in 1 .. H PROVE Rest(m, n - 1) = h(n) \o (CRLF \o Rest(m, n))
  <2> DEFINE a == h(n)
             k == J(n)
  <2>1. a \in Seq(Symbol) /\ k \in Seq(Symbol) /\ n \in 0 .. H
    BY <1>1, <1>3, <1>7
  <2>2. Rest(m, n - 1) = ((a \o CRLF) \o k) \o y /\ Rest(m, n) = k \o y
    BY <1>5, <1>9
  <2> HIDE DEF a, k
  <2>3. ((a \o CRLF) \o k) \o y = a \o (CRLF \o (k \o y))
    <3> DEFINE e == CRLF
    <3>1. e \in Seq(Symbol)
      BY <1>2
    <3> HIDE DEF e
    <3>2. \A p, q, r \in Seq(Symbol) : (p \o q) \o r = p \o (q \o r) /\ p \o q \in Seq(Symbol)
      BY ConcatAssociative, JoinSymbols
    <3>3. ((a \o e) \o k) \o y = a \o (e \o (k \o y))
      <4>1. a \o e \in Seq(Symbol) /\ k \o y \in Seq(Symbol)
        BY <1>8, <2>1, <3>1, JoinSymbols
      <4>2. ((a \o e) \o k) \o y = (a \o e) \o (k \o y)
        <5> DEFINE v == a \o e
        <5>1. v \in Seq(Symbol)
          BY <4>1
        <5> HIDE DEF v
        <5>2. (v \o k) \o y = v \o (k \o y)
          BY ONLY <1>8, <2>1, <3>2, <5>1, SMTT(30)
        <5> QED BY <5>2 DEF v
      <4>3. (a \o e) \o (k \o y) = a \o (e \o (k \o y))
        <5> DEFINE w == k \o y
        <5>1. w \in Seq(Symbol)
          BY <4>1
        <5> HIDE DEF w
        <5>2. (a \o e) \o w = a \o (e \o w)
          BY ONLY <2>1, <3>1, <3>2, <5>1, SMTT(30)
        <5> QED BY <5>2 DEF w
      <4> QED BY <4>2, <4>3
    <3> QED BY <3>3 DEF e
  <2> QED BY <2>2, <2>3 DEF a
<1>12. \A n \in 1 .. H : n \in 0 .. H
  BY <1>1
<1> QED BY <1>1, <1>2, <1>5, <1>7, <1>9, <1>10, <1>11, <1>12 DEF J, h, H, ss, y

\* What parse knows of a request after its line and n headers.
Known(m, n) ==
    [method |-> m.method, path |-> ParsePath(m.path), version |-> m.version,
     headers |-> {m.headers[i] : i \in 1 .. n}, body |-> <<>>]

\* The parser p of a request m is after n headers; at the body; done.
AfterHeaders(p, m, n) ==
    /\ p = [state_ |-> "HEADERS", buff |-> p.buff, req |-> Known(m, n), form |-> FALSE]
    /\ p.buff \in Buffers /\ Contents(p.buff) = Rest(m, n)

AtBody(p, m) ==
    /\ p = [state_ |-> "BODY", buff |-> p.buff, req |-> Known(m, Len(m.headers)),
            form |-> FALSE]
    /\ p.buff \in Buffers /\ Contents(p.buff) = m.body

Done(p, m) == p.buff \in Buffers /\ Contents(p.buff) = <<>> /\ p.req = MeantBy(m)

LEMMA TakesRequestLine ==
    ASSUME NEW m, IsRequest(m), NEW b \in Buffers, Contents(b) = EncodeRequest(m)
    PROVE  AfterHeaders(ParseLine(NewParser(b)), m, 0)
<1> DEFINE p == NewParser(b)
           x == RequestLine(m)
           y == Rest(m, 0)
           z == SkipLine(b)
<1>1. IsParser(p) /\ p.buff = b /\ p.state_ = "REQUEST_LINE" /\ p.form = FALSE
  BY DEF IsParser, NewParser, InitRequest, Parsed
<1>2. /\ x \in Seq(Symbol) /\ Len(x) = 4 /\ IsRequestLine(x) /\ \A i \in 1 .. 4 : x[i] # CR
      /\ SubSeq(x, 1, 2) = m.method /\ x[3].text = m.path /\ x[4].text = m.version
  BY RequestLineFacts
<1>3. y \in Seq(Symbol)
  <2>1. /\ Len(m.headers) \in Nat /\ m.body \in Seq(Symbol) /\ 0 \in 0 .. Len(m.headers)
        /\ \A n \in 0 .. Len(m.headers) : Joined(HeaderLines(m), n) \in Seq(Symbol)
    BY RestFacts
  <2>2. CRLF \in Seq(Symbol)
    BY DEF CRLF, Symbol
  <2>3. CRLF \o m.body \in Seq(Symbol)
    BY <2>1, <2>2, JoinSymbols
  <2>4. Joined(HeaderLines(m), 0) \in Seq(Symbol)
    BY <2>1
  <2> QED BY <2>3, <2>4, JoinSymbols DEF Rest
<1>4. Contents(b) = x \o (CRLF \o y)
  BY DEF EncodeRequest, Rest
<1> HIDE DEF p, x, y
<1>5. /\ FirstLine(b) = x /\ Readable(b) # 0 /\ z \in Buffers /\ Contents(z) = y
  BY <1>2, <1>3, <1>4, TakeLine
<1> HIDE DEF z
<1>6. ParseLine(p) = [state_ |-> "HEADERS", buff |-> z,
                      req |-> [method |-> m.method, path |-> ParsePath(m.path),
                               version |-> m.version, headers |-> {}, body |-> <<>>],
                      form |-> FALSE]
  <2>1. ParseLine(p) =
           [state_ |-> "HEADERS", buff |-> SkipLine(p.buff),
            req |-> [method |-> SubSeq(x, 1, 2), path |-> ParsePath(x[3].text),
                     version |-> IF Len(x) = 4 THEN x[4].text ELSE "other",
                     headers |-> {}, body |-> <<>>],
            form |-> p.form]
    BY <1>1, <1>2, <1>5, ParseLineIs
  <2> QED BY <1>1, <1>2, <2>1 DEF z
<1>7. Known(m, 0) = [method |-> m.method, path |-> ParsePath(m.path), version |-> m.version,
                     headers |-> {}, body |-> <<>>]
  <2>1. {m.headers[i] : i \in 1 .. 0} = {}
    OBVIOUS
  <2> QED BY <2>1 DEF Known
<1>8. ParseLine(p).buff = z
  BY <1>6
<1> QED BY <1>5, <1>6, <1>7, <1>8 DEF AfterHeaders, p, y

LEMMA TakesHeader ==
    ASSUME NEW m, IsRequest(m), NEW n \in 1 .. Len(m.headers), NEW p, AfterHeaders(p, m, n - 1)
    PROVE  AfterHeaders(ParseLine(p), m, n)
<1> DEFINE h == m.headers[n]
           x == <<[header |-> h]>>
           y == Rest(m, n)
           b == p.buff
           z == SkipLine(b)
           r == Known(m, n - 1)
<1>1. /\ p = [state_ |-> "HEADERS", buff |-> b, req |-> r, form |-> FALSE]
      /\ b \in Buffers /\ Contents(b) = Rest(m, n - 1)
  BY DEF AfterHeaders
<1>2. y \in Seq(Symbol) /\ Contents(b) = x \o (CRLF \o y) /\ h \in STRING
  BY <1>1, RestFacts
<1>3. /\ x \in Seq(Symbol) /\ Len(x) = 1 /\ (\A i \in 1 .. Len(x) : x[i] # CR)
      /\ IsHeader(x) /\ x[1].header = h
  <2> DEFINE g == [header |-> h]
  <2>1. g \in Symbol
    BY <1>2 DEF Symbol
  <2>2. DOMAIN g = {"header"} /\ g.header = h
    OBVIOUS
  <2>3. g # CR
    <3>1. DOMAIN CR = {"eol"} /\ "header" # "eol"
      BY DEF CR
    <3> QED BY <2>2, <3>1
  <2> HIDE DEF g, h
  <2>4. x = <<g>>
    BY DEF g
  <2>5. <<g>> \in Seq(Symbol) /\ Len(<<g>>) = 1 /\ <<g>>[1] = g
    BY <2>1
  <2>6. \A i \in 1 .. 1 : i = 1
    OBVIOUS
  <2> HIDE DEF x
  <2>7. x \in Seq(Symbol) /\ Len(x) = 1 /\ x[1] = g
    BY <2>4, <2>5
  <2> QED BY <2>2, <2>3, <2>6, <2>7, Zenon DEF IsHeader
<1> HIDE DEF x, y, h
<1>4. FirstLine(b) = x /\ Readable(b) # 0 /\ z \in Buffers /\ Contents(z) = y
  BY <1>1, <1>2, <1>3, TakeLine
<1>5. IsParser(p) /\ p.state_ = "HEADERS" /\ p.req = r /\ p.form = FALSE
  <2>1. p.state_ = "HEADERS" /\ p.req = r /\ p.form = FALSE
    BY <1>1
  <2>2. r = [method |-> r.method, path |-> r.path, version |-> r.version,
             headers |-> r.headers, body |-> r.body]
    BY DEF Known
  <2> HIDE DEF r, b
  <2>3. "HEADERS" # "REQUEST_LINE"
    OBVIOUS
  <2> QED BY <1>1, <2>1, <2>2, <2>3 DEF IsParser, Parsed, b
<1>6. ParseLine(p) =
         [state_ |-> "HEADERS", buff |-> z,
          req |-> [method |-> r.method, path |-> r.path, version |-> r.version,
                   headers |-> r.headers \cup {h}, body |-> r.body],
          form |-> FALSE]
  <2> HIDE DEF r
  <2>1. ParseLine(p) =
           [state_ |-> IF IsHeader(x) THEN "HEADERS" ELSE "BODY", buff |-> SkipLine(p.buff),
            req |-> [method |-> p.req.method, path |-> p.req.path, version |-> p.req.version,
                     headers |-> IF IsHeader(x) THEN p.req.headers \cup {x[1].header}
                                 ELSE p.req.headers,
                     body |-> p.req.body],
            form |-> p.form]
    BY <1>4, <1>5, ParseLineIs
  <2> QED BY <1>3, <1>5, <2>1, Zenon
<1>7. Known(m, n) = [method |-> r.method, path |-> r.path, version |-> r.version,
                     headers |-> r.headers \cup {h}, body |-> r.body]
  <2>1. {m.headers[i] : i \in 1 .. n} = {m.headers[i] : i \in 1 .. n - 1} \cup {m.headers[n]}
    <3>1. \A i : i \in 1 .. n <=> i \in 1 .. n - 1 \/ i = n
      BY RestFacts
    <3> QED BY <3>1
  <2> QED BY <2>1 DEF Known, h
<1>8. ParseLine(p).buff = z
  BY <1>6
<1> QED BY <1>4, <1>6, <1>7, <1>8 DEF AfterHeaders, y

LEMMA TakesEmptyLine ==
    ASSUME NEW m, IsRequest(m), NEW p, AfterHeaders(p, m, Len(m.headers))
    PROVE  AtBody(ParseLine(p), m)
<1> DEFINE H == Len(m.headers)
           x == <<>>
           y == m.body
           b == p.buff
           z == SkipLine(b)
           r == Known(m, H)
<1>1. /\ p = [state_ |-> "HEADERS", buff |-> b, req |-> r, form |-> FALSE]
      /\ b \in Buffers /\ Contents(b) = Rest(m, H)
  BY DEF AfterHeaders
<1>2. y \in Seq(Symbol) /\ Contents(b) = x \o (CRLF \o y)
  BY <1>1, RestFacts
<1>3. x \in Seq(Symbol) /\ Len(x) = 0 /\ (\A i \in 1 .. Len(x) : x[i] # CR) /\ ~IsHeader(x)
  BY DEF IsHeader
<1> HIDE DEF x, y
<1>4. FirstLine(b) = x /\ Readable(b) # 0 /\ z \in Buffers /\ Contents(z) = y
  BY <1>1, <1>2, <1>3, TakeLine
<1>5. IsParser(p) /\ p.state_ = "HEADERS" /\ p.req = r /\ p.form = FALSE
  <2>1. p.state_ = "HEADERS" /\ p.req = r /\ p.form = FALSE
    BY <1>1
  <2>2. r = [method |-> r.method, path |-> r.path, version |-> r.version,
             headers |-> r.headers, body |-> r.body]
    BY DEF Known
  <2> HIDE DEF r, b
  <2>3. "HEADERS" # "REQUEST_LINE"
    OBVIOUS
  <2> QED BY <1>1, <2>1, <2>2, <2>3 DEF IsParser, Parsed, b
<1>6. ParseLine(p) =
         [state_ |-> "BODY", buff |-> z,
          req |-> [method |-> r.method, path |-> r.path, version |-> r.version,
                   headers |-> r.headers, body |-> r.body],
          form |-> FALSE]
  <2> HIDE DEF r
  <2>1. ParseLine(p) =
           [state_ |-> IF IsHeader(x) THEN "HEADERS" ELSE "BODY", buff |-> SkipLine(p.buff),
            req |-> [method |-> p.req.method, path |-> p.req.path, version |-> p.req.version,
                     headers |-> IF IsHeader(x) THEN p.req.headers \cup {x[1].header}
                                 ELSE p.req.headers,
                     body |-> p.req.body],
            form |-> p.form]
    BY <1>4, <1>5, ParseLineIs
  <2> QED BY <1>3, <1>5, <2>1, Zenon
<1>7. Known(m, H) = [method |-> r.method, path |-> r.path, version |-> r.version,
                     headers |-> r.headers, body |-> r.body]
  BY DEF Known
<1>8. ParseLine(p).buff = z
  BY <1>6
<1> QED BY <1>4, <1>6, <1>7, <1>8 DEF AtBody, y

LEMMA KnownIsMeant ==
    ASSUME NEW m, IsRequest(m)
    PROVE  MeantBy(m) = [method |-> m.method, path |-> ParsePath(m.path),
                         version |-> m.version,
                         headers |-> {m.headers[i] : i \in 1 .. Len(m.headers)},
                         body |-> m.body]
<1>1. DOMAIN m.headers = 1 .. Len(m.headers) /\ ~IsFrame(m)
  BY DEF IsRequest
<1>2. Range(m.headers) = {m.headers[i] : i \in 1 .. Len(m.headers)}
  BY <1>1, Zenon DEF Range
<1> QED BY <1>1, <1>2 DEF MeantBy

\* A turn with nothing to read changes nothing.
LEMMA ParseIdles ==
    ASSUME NEW p, p.buff \in Buffers, Contents(p.buff) = <<>>
    PROVE  ParseLine(p) = p
<1>1. Readable(p.buff) = 0
  BY ContentsFacts
<1> QED BY <1>1 DEF ParseLine

LEMMA TakesBody ==
    ASSUME NEW m, IsRequest(m), NEW p, AtBody(p, m)
    PROVE  Done(ParseLine(p), m)
<1> DEFINE H == Len(m.headers)
           y == m.body
           b == p.buff
           r == Known(m, H)
<1>1. /\ p = [state_ |-> "BODY", buff |-> b, req |-> r, form |-> FALSE]
      /\ b \in Buffers /\ Contents(b) = y
  BY DEF AtBody
<1>2. MeantBy(m) = [method |-> r.method, path |-> r.path, version |-> r.version,
                    headers |-> r.headers, body |-> y]
  BY KnownIsMeant DEF Known
<1>3. r = [method |-> r.method, path |-> r.path, version |-> r.version,
           headers |-> r.headers, body |-> <<>>]
  BY DEF Known
<1>4. p.state_ = "BODY" /\ p.req = r /\ p.form = FALSE
  BY <1>1
<1>5. y \in Seq(Byte) /\ Len(y) \in Nat /\ \A i \in 1 .. Len(y) : y[i] # CR
  BY DEF IsRequest
<1> HIDE DEF r, y
<1>6. CASE y = <<>>
  <2>1. ParseLine(p) = p
    BY <1>1, <1>6, ParseIdles
  <2> QED BY <1>1, <1>2, <1>3, <1>4, <1>6, <2>1 DEF Done
<1>7. CASE y # <<>>
  <2>1. Readable(b) # 0 /\ Len(y) = Readable(b) /\ Len(y) # 0
    BY <1>1, <1>5, <1>7, ContentsFacts, EmptySeq
  <2>2. LineEnd(y) = Len(y) + 1
    <3> DEFINE e == Len(y) + 1
    <3>1. e \in 1 .. Len(y) + 1 /\ e = Len(y) + 1 /\ \A j \in 1 .. e - 1 : j \in 1 .. Len(y)
      BY <1>5
    <3>2. \A j \in 1 .. e - 1 : ~EndsAt(y, j)
      BY <1>5, <3>1, Zenon DEF EndsAt
    <3> HIDE DEF e
    <3>3. LineEnd(y) = e
      BY <1>5, <3>1, <3>2, LineEndIs
    <3> QED BY <3>3 DEF e
  <2>3. FirstLine(b) = y
    <3>1. Len(y) + 1 - 1 = Len(y)
      BY <1>5
    <3>2. FirstLine(b) = SubSeq(y, 1, Len(y))
      BY <1>1, <2>2, <3>1 DEF FirstLine
    <3> QED BY <1>5, <3>2
  <2>4. SkipLine(b) = RetrieveAll(b)
    <3>1. Len(y) + 1 > Readable(b)
      BY <1>5, <2>1
    <3> QED BY <1>1, <2>2, <3>1 DEF SkipLine
  <2>5. RetrieveAll(b) \in Buffers /\ Contents(RetrieveAll(b)) = <<>>
    BY <1>1, RetrieveAllEmpties
  <2>6. IsParser(p)
    <3>1. "BODY" # "REQUEST_LINE"
      OBVIOUS
    <3> QED BY <1>1, <1>3, <1>4, <3>1 DEF IsParser, Parsed
  <2>7. p.state_ \notin {"REQUEST_LINE", "HEADERS", "FINISH"}
    BY <1>4
  <2>8. ParseLine(p) =
           [state_ |-> "FINISH", buff |-> SkipLine(b),
            req |-> [method |-> p.req.method, path |-> p.req.path, version |-> p.req.version,
                     headers |-> p.req.headers, body |-> y],
            form |-> IsForm(p.req)]
    BY <2>1, <2>3, <2>6, <2>7, ParseLineIs
  <2>9. ParseLine(p).buff = SkipLine(b)
        /\ ParseLine(p).req = [method |-> r.method, path |-> r.path, version |-> r.version,
                               headers |-> r.headers, body |-> y]
    BY <1>4, <2>8
  <2> QED BY <1>2, <2>4, <2>5, <2>9 DEF Done
<1> QED BY <1>6, <1>7

LEMMA EncodeRequestLength ==
    ASSUME NEW m, IsRequest(m)
    PROVE  Len(EncodeRequest(m)) \in Nat /\ Len(EncodeRequest(m)) >= Len(m.headers) + 3
<1> DEFINE H == Len(m.headers)
           x == RequestLine(m)
           e == CRLF
           j == Joined(HeaderLines(m), 0)
           y == m.body
<1>1. x \in Seq(Symbol) /\ Len(x) = 4
  BY RequestLineFacts
<1>2. H \in Nat /\ y \in Seq(Symbol) /\ j \in Seq(Symbol) /\ Len(j) = 3 * (H - 0)
  BY RestFacts
<1>3. e \in Seq(Symbol) /\ Len(e) = 2
  BY DEF CRLF, Symbol
<1>4. EncodeRequest(m) = x \o (e \o (j \o (e \o y)))
  BY DEF EncodeRequest
<1> HIDE DEF x, e, j, y, H
<1> DEFINE a1 == e \o y
<1>5. a1 \in Seq(Symbol) /\ Len(a1) = Len(e) + Len(y) /\ Len(y) \in Nat
  BY ONLY <1>2, <1>3, JoinSymbols
<1> HIDE DEF a1
<1> DEFINE a2 == j \o a1
<1>6. a2 \in Seq(Symbol) /\ Len(a2) = Len(j) + Len(a1)
  BY ONLY <1>2, <1>5, JoinSymbols
<1> HIDE DEF a2
<1> DEFINE a3 == e \o a2
<1>7. a3 \in Seq(Symbol) /\ Len(a3) = Len(e) + Len(a2)
  BY ONLY <1>3, <1>6, JoinSymbols
<1> HIDE DEF a3
<1>8. Len(x \o a3) = Len(x) + Len(a3)
  BY ONLY <1>1, <1>7, JoinSymbols
<1>9. Len(x \o a3) \in Nat /\ Len(x \o a3) >= H + 3
  BY ONLY <1>1, <1>2, <1>3, <1>5, <1>6, <1>7, <1>8, SMT
<1> QED BY <1>4, <1>9 DEF a1, a2, a3, H

\* Parse takes the request that the buffer holds, and the buffer is empty after it.
LEMMA WholeRequest ==
    ASSUME NEW m, IsRequest(m), NEW b \in Buffers, Contents(b) = EncodeRequest(m)
    PROVE  Done(Parse(b), m)
<1> DEFINE H == Len(m.headers)
           N == Readable(b)
<1>1. H \in Nat /\ N \in Nat /\ N >= H + 3
  BY ContentsFacts, EncodeRequestLength, RestFacts
<1>2. PICK t : Turns(b, t)
  BY <1>1, ParseTurns
<1>3. t[0] = NewParser(b) /\ Parse(b) = t[N] /\ \A k \in 1 .. N : t[k] = ParseLine(t[k - 1])
  BY <1>2 DEF Turns
<1> HIDE DEF N, H
<1>0. \A i \in 1 .. N : \A j : j = i - 1 => t[i] = ParseLine(t[j])
  BY <1>3
<1> DEFINE S == {k \in 0 .. H : AfterHeaders(t[k + 1], m, k)}
<1>4. 0 \in S
  <2>1. 1 \in 1 .. N /\ 1 - 1 = 0 /\ 0 \in 0 .. H /\ 0 + 1 = 1
    BY <1>1
  <2>2. t[1] = ParseLine(NewParser(b))
    BY <1>3, <2>1
  <2>3. AfterHeaders(t[1], m, 0)
    BY <2>2, TakesRequestLine
  <2> QED BY <2>1, <2>3
<1>5. \A k \in 1 .. H : k - 1 \in S => k \in S
  <2> SUFFICES ASSUME NEW k \in 1 .. H, k - 1 \in S PROVE k \in S
    OBVIOUS
  <2>1. k + 1 \in 1 .. N /\ k + 1 - 1 = k /\ (k - 1) + 1 = k /\ k \in 0 .. H
    BY <1>1
  <2>2. AfterHeaders(t[k], m, k - 1)
    BY <2>1
  <2>3. AfterHeaders(ParseLine(t[k]), m, k)
    BY <2>2, TakesHeader DEF H
  <2>4. t[k + 1] = ParseLine(t[k])
    BY <1>3, <2>1
  <2> QED BY <2>1, <2>3, <2>4
<1>6. AfterHeaders(t[H + 1], m, H)
  <2>1. \A k \in 0 .. H : k \in S
    <3> HIDE DEF S
    <3> QED BY <1>1, <1>4, <1>5, Induction
  <2>2. H \in 0 .. H
    BY <1>1
  <2> QED BY <2>1, <2>2
<1>7. Done(t[H + 3], m)
  <2>1. /\ H + 2 \in 1 .. N /\ H + 2 - 1 = H + 1 /\ H + 3 \in 1 .. N /\ H + 3 - 1 = H + 2
    BY <1>1
  <2>2. t[H + 2] = ParseLine(t[H + 1]) /\ t[H + 3] = ParseLine(t[H + 2])
    <3> DEFINE i1 == H + 1
               i2 == H + 2
               i3 == H + 3
    <3>1. i2 \in 1 .. N /\ i1 = i2 - 1 /\ i3 \in 1 .. N /\ i2 = i3 - 1
      BY <1>1
    <3> HIDE DEF i1, i2, i3
    <3>2. t[i2] = ParseLine(t[i1]) /\ t[i3] = ParseLine(t[i2])
      BY ONLY <1>0, <3>1
    <3> QED BY <3>2 DEF i1, i2, i3
  <2>3. AtBody(t[H + 2], m)
    BY <1>6, <2>2, TakesEmptyLine DEF H
  <2> QED BY <2>2, <2>3, TakesBody
<1> DEFINE M == N - (H + 3)
           D == {k \in 0 .. M : Done(t[H + 3 + k], m)}
<1>8. M \in Nat /\ H + 3 + M = N /\ M \in 0 .. M
  BY <1>1
<1>9. 0 \in D
  <2>1. 0 \in 0 .. M /\ H + 3 + 0 = H + 3
    BY <1>1, <1>8
  <2> QED BY <1>7, <2>1
<1>10. \A k \in 1 .. M : k - 1 \in D => k \in D
  <2> SUFFICES ASSUME NEW k \in 1 .. M, k - 1 \in D PROVE k \in D
    OBVIOUS
  <2>1. H + 3 + k \in 1 .. N /\ H + 3 + k - 1 = H + 3 + (k - 1) /\ k \in 0 .. M
    BY <1>1
  <2>2. Done(t[H + 3 + (k - 1)], m)
    OBVIOUS
  <2>3. ParseLine(t[H + 3 + (k - 1)]) = t[H + 3 + (k - 1)]
    BY <2>2, ParseIdles DEF Done
  <2>4. t[H + 3 + k] = ParseLine(t[H + 3 + (k - 1)])
    <3> DEFINE i == H + 3 + k
               j == H + 3 + (k - 1)
    <3>1. i \in 1 .. N /\ j = i - 1
      BY <1>1
    <3> HIDE DEF i, j
    <3>2. t[i] = ParseLine(t[j])
      BY ONLY <1>0, <3>1
    <3> QED BY <3>2 DEF i, j
  <2> QED BY <2>1, <2>2, <2>3, <2>4
<1>11. \A k \in 0 .. M : k \in D
  <2> HIDE DEF D, M
  <2> QED BY <1>8, <1>9, <1>10, Induction
<1>12. Done(t[H + 3 + M], m)
  <2> HIDE DEF M
  <2> QED BY <1>8, <1>11
<1> QED BY <1>3, <1>8, <1>12

----------------------------------------------------------------------------
(* The responses, from the handlers to the client.                         *)

\* The bytes that a header which announces the end of the connection begins with.
Closing == {Status(c, FALSE) : c \in {200, 403, 404}}

Closes(s) == \E i \in DOMAIN s : s[i] \in Closing

\* The first iovec is what is readable in write_buff_, the second a suffix of the file.
IovOK ==
    /\ iov_ \in [base : Nat, len0 : Nat, file : DOMAIN Resources \cup {NoFile},
                 at : Nat, len1 : Nat]
    /\ iov_.at + iov_.len1 = FileLen(iov_.file)
    /\ conn_type_ = "HTTP" => /\ iov_.len0 = Readable(write_buff_)
                              /\ iov_.len0 > 0 => iov_.base = write_buff_.readPos_

\* What was received and what is unsent is what was answered; the socket is awaited
\* for output exactly while something is unsent.
Transfer ==
    /\ conn \in {"in", "out", "closed"} /\ conn_type_ \in {"NONE", "HTTP", "PROTOBUF"}
    /\ conn_type_ = "NONE" => conn = "in"
    /\ write_buff_ \in Buffers /\ IovOK
    /\ received \in Seq(Byte) /\ received \o Unsent = answers
    /\ conn = "in" => Unsent = <<>>
    /\ conn = "out" => Unsent # <<>>

\* A closing header has been answered if and only if it was the last answer: the
\* connection is not read again.
Announced ==
    is_et =>
        /\ conn = "closed" => Unsent = <<>> /\ conn_type_ = "HTTP" /\ ~IsKeepAlive(request_)
        /\ Closes(answers) <=> conn # "in" /\ conn_type_ = "HTTP" /\ ~IsKeepAlive(request_)

\* A prefix of what is unsent goes to the client.
LEMMA SendPrefix ==
    ASSUME NEW a \in Seq(Byte), NEW u \in Seq(Byte), NEW n \in 1 .. Len(u)
    PROVE  /\ a \o SubSeq(u, 1, n) \in Seq(Byte)
           /\ (a \o SubSeq(u, 1, n)) \o SubSeq(u, n + 1, Len(u)) = a \o u
           /\ SubSeq(u, n + 1, Len(u)) = <<>> <=> Len(u) - n = 0
<1> DEFINE p == SubSeq(u, 1, n)
           q == SubSeq(u, n + 1, Len(u))
<1>1. n \in Nat /\ n <= Len(u) /\ Len(u) \in Nat /\ 0 \in Nat /\ 0 <= n /\ Len(u) <= Len(u)
  OBVIOUS
<1>2. p \in Seq(Byte)
  <2>1. SubSeq(u, 0 + 1, n) \in Seq(Byte)
    BY <1>1, CutFacts
  <2> QED BY <2>1
<1>3. q \in Seq(Byte) /\ Len(q) = Len(u) - n
  BY <1>1, CutFacts
<1>4. p \o q = u
  <2>1. 1 \in 1 .. Len(u) + 1 /\ n \in 1 - 1 .. Len(u) /\ Len(u) \in n .. Len(u)
    BY <1>1
  <2>2. p \o q = SubSeq(u, 1, Len(u))
    BY ONLY <2>1, u \in Seq(Byte), ConcatAdjacentSubSeq
  <2>3. SubSeq(u, 1, Len(u)) = u
    BY SubSeqFull
  <2> QED BY <2>2, <2>3
<1> HIDE DEF p, q
<1>5. a \o p \in Seq(Byte) /\ (a \o p) \o q = a \o (p \o q)
  BY <1>2, <1>3
<1>6. q = <<>> <=> Len(q) = 0
  BY <1>3
<1> QED BY <1>3, <1>4, <1>5, <1>6 DEF p, q

\* The part of a mapped file.
LEMMA FileBytesFacts ==
    ASSUME NEW file \in DOMAIN Resources \cup {NoFile}, NEW at \in Nat, NEW len \in Nat,
           at + len = FileLen(file)
    PROVE  /\ FileBytes(file, at, len) \in Seq(Byte) /\ Len(FileBytes(file, at, len)) = len
           /\ \A i \in 1 .. len : FileBytes(file, at, len)[i] = FileByte(file, at + i)
<1>1. ASSUME NEW i \in 1 .. len PROVE FileByte(file, at + i) \in Byte
  <2>1. file \in DOMAIN Resources /\ at + len = Resources[file].size
    BY DEF FileLen
  <2>2. at + i \in 1 .. Resources[file].size
    BY <2>1
  <2>3. FileByte(file, at + i) \in AnswerByte
    <3>1. FileByte(file, at + i) \in FileData
      BY <2>1, <2>2, SMT DEF FileData
    <3> QED BY <3>1 DEF AnswerByte
  <2> QED BY <2>3, ProtocolAssumption
<1> DEFINE e(i) == FileByte(file, at + i)
<1>2. \A i \in 1 .. len : e(i) \in Byte
  BY <1>1
<1> HIDE DEF e
<1>3. [i \in 1 .. len |-> e(i)] \in Seq(Byte) /\ Len([i \in 1 .. len |-> e(i)]) = len
  BY <1>2
<1>4. FileBytes(file, at, len) = [i \in 1 .. len |-> e(i)]
  BY DEF FileBytes, e
<1> QED BY <1>3, <1>4 DEF e

\* What two iovecs point at.
Chunks(f, base, len0, file, at, len1) ==
    SubSeq(f, base + 1, base + len0) \o FileBytes(file, at, len1)

ChunksOK(f, base, len0, file, at, len1) ==
    /\ f \in Seq(Byte) /\ base \in Nat /\ len0 \in Nat /\ (len0 > 0 => base + len0 <= Len(f))
    /\ file \in DOMAIN Resources \cup {NoFile} /\ at \in Nat /\ len1 \in Nat
    /\ at + len1 = FileLen(file)

LEMMA ChunkFacts ==
    ASSUME NEW f, NEW base, NEW len0, NEW file, NEW at, NEW len1,
           ChunksOK(f, base, len0, file, at, len1)
    PROVE  /\ Chunks(f, base, len0, file, at, len1) \in Seq(Byte)
           /\ Len(Chunks(f, base, len0, file, at, len1)) = len0 + len1
           /\ \A i \in 1 .. len0 : Chunks(f, base, len0, file, at, len1)[i] = f[base + i]
           /\ \A i \in 1 .. len1 : Chunks(f, base, len0, file, at, len1)[len0 + i]
                                      = FileByte(file, at + i)
<1> DEFINE p == SubSeq(f, base + 1, base + len0)
           q == FileBytes(file, at, len1)
<1> USE DEF ChunksOK
<1>1. p \in Seq(Byte) /\ Len(p) = len0 /\ \A i \in 1 .. len0 : p[i] = f[base + i]
  <2>1. CASE len0 = 0
    <3>1. p = <<>>
      BY <2>1
    <3> QED BY <2>1, <3>1
  <2>2. CASE len0 > 0
    <3> DEFINE w == base + len0
    <3>1. /\ f \in Seq(Byte) /\ base \in Nat /\ w \in Nat /\ base <= w /\ w <= Len(f)
          /\ w - base = len0
      BY <2>2
    <3> HIDE DEF w
    <3>2. /\ SubSeq(f, base + 1, w) \in Seq(Byte) /\ Len(SubSeq(f, base + 1, w)) = w - base
          /\ \A i \in 1 .. w - base : SubSeq(f, base + 1, w)[i] = f[base + i]
      BY ONLY <3>1, CutFacts, SMTT(30)
    <3> QED BY ONLY <3>1, <3>2, SMTT(30) DEF w
  <2> QED BY <2>1, <2>2
<1>2. /\ q \in Seq(Byte) /\ Len(q) = len1
      /\ \A i \in 1 .. len1 : q[i] = FileByte(file, at + i)
  BY FileBytesFacts
<1> HIDE DEF p, q
<1>3. /\ p \o q \in Seq(Byte) /\ Len(p \o q) = Len(p) + Len(q)
      /\ \A i \in 1 .. Len(p) : (p \o q)[i] = p[i]
      /\ \A i \in 1 .. Len(q) : (p \o q)[Len(p) + i] = q[i]
  BY <1>1, <1>2, JoinFacts
<1>4. Chunks(f, base, len0, file, at, len1) = p \o q
  BY DEF Chunks, p, q
<1> QED BY <1>1, <1>2, <1>3, <1>4

\* The iovecs after n bytes point at the rest.
LEMMA ChunkAdvance ==
    ASSUME NEW f, NEW base, NEW len0, NEW file, NEW at, NEW len1,
           ChunksOK(f, base, len0, file, at, len1), NEW n \in 1 .. len0 + len1
    PROVE  SubSeq(Chunks(f, base, len0, file, at, len1), n + 1, len0 + len1)
              = IF n > len0 THEN Chunks(f, base, 0, file, at + n - len0, len1 - (n - len0))
                ELSE Chunks(f, base + n, len0 - n, file, at, len1)
<1> DEFINE u == Chunks(f, base, len0, file, at, len1)
           r == SubSeq(u, n + 1, len0 + len1)
<1>1. /\ u \in Seq(Byte) /\ Len(u) = len0 + len1
      /\ \A i \in 1 .. len0 : u[i] = f[base + i]
      /\ \A i \in 1 .. len1 : u[len0 + i] = FileByte(file, at + i)
  BY ChunkFacts
<1>a. /\ f \in Seq(Byte) /\ base \in Nat /\ len0 \in Nat /\ (len0 > 0 => base + len0 <= Len(f))
      /\ file \in DOMAIN Resources \cup {NoFile} /\ at \in Nat /\ len1 \in Nat
      /\ at + len1 = FileLen(file)
  BY DEF ChunksOK
<1> HIDE DEF u
<1>2. r \in Seq(Byte) /\ Len(r) = (len0 + len1) - n
      /\ \A i \in 1 .. (len0 + len1) - n : r[i] = u[n + i]
  <2>1. n \in Nat /\ len0 + len1 \in Nat /\ n <= len0 + len1 /\ len0 + len1 <= Len(u)
    BY <1>1, <1>a
  <2> QED BY <1>1, <2>1, CutFacts
<1> HIDE DEF r
<1>3. CASE n > len0
  <2> DEFINE d == n - len0
             v == Chunks(f, base, 0, file, at + n - len0, len1 - d)
  <2>1. /\ d \in 1 .. len1 /\ at + n - len0 \in Nat /\ len1 - d \in Nat
        /\ (at + n - len0) + (len1 - d) = FileLen(file)
        /\ at + n - len0 = at + d /\ (len0 + len1) - n = len1 - d
        /\ 0 + (len1 - d) = len1 - d
    BY <1>3, <1>a
  <2>2. /\ v \in Seq(Byte) /\ Len(v) = 0 + (len1 - d)
        /\ \A i \in 1 .. len1 - d : v[0 + i] = FileByte(file, (at + n - len0) + i)
    <3>1. ChunksOK(f, base, 0, file, at + n - len0, len1 - d)
      BY <1>a, <2>1 DEF ChunksOK
    <3> QED BY <3>1, ChunkFacts
  <2> HIDE DEF v
  <2>3. ASSUME NEW i \in 1 .. len1 - d PROVE r[i] = v[i]
    <3>1. /\ n + i = len0 + (d + i) /\ d + i \in 1 .. len1
          /\ (at + n - len0) + i = at + (d + i) /\ 0 + i = i
          /\ i \in 1 .. (len0 + len1) - n
      BY <2>1, <1>a
    <3>2. r[i] = u[len0 + (d + i)]
      BY <1>2, <3>1
    <3>3. v[i] = FileByte(file, at + (d + i))
      BY <2>2, <3>1
    <3> QED BY <1>1, <3>1, <3>2, <3>3
  <2>4. r = v
    <3>1. Len(r) = len1 - d /\ Len(v) = len1 - d
      BY <1>2, <2>1, <2>2
    <3> QED BY <1>2, <2>2, <2>3, <3>1, SeqEqual
  <2> QED BY <1>3, <2>4 DEF r, u, v
<1>4. CASE ~(n > len0)
  <2> DEFINE v == Chunks(f, base + n, len0 - n, file, at, len1)
  <2>1. /\ n \in 1 .. len0 /\ base + n \in Nat /\ len0 - n \in Nat
        /\ len0 - n > 0 => (base + n) + (len0 - n) <= Len(f)
        /\ (len0 + len1) - n = (len0 - n) + len1
    BY <1>4, <1>a
  <2>2. /\ v \in Seq(Byte) /\ Len(v) = (len0 - n) + len1
        /\ \A i \in 1 .. len0 - n : v[i] = f[(base + n) + i]
        /\ \A i \in 1 .. len1 : v[(len0 - n) + i] = FileByte(file, at + i)
    <3>1. ChunksOK(f, base + n, len0 - n, file, at, len1)
      BY <1>a, <2>1 DEF ChunksOK
    <3> QED BY <3>1, ChunkFacts
  <2> HIDE DEF v
  <2>3. ASSUME NEW i \in 1 .. (len0 - n) + len1 PROVE r[i] = v[i]
    <3>1. r[i] = u[n + i]
      BY <1>2, <2>1
    <3>2. CASE i \in 1 .. len0 - n
      <4>1. n + i \in 1 .. len0 /\ base + (n + i) = (base + n) + i
        BY <1>a, <2>1, <3>2
      <4> QED BY <1>1, <2>2, <3>1, <3>2, <4>1
    <3>3. CASE i \notin 1 .. len0 - n
      <4>1. PICK j \in 1 .. len1 : i = (len0 - n) + j
        <5>1. i - (len0 - n) \in 1 .. len1 /\ i = (len0 - n) + (i - (len0 - n))
          BY <1>a, <2>1, <3>3
        <5> QED BY <5>1
      <4>2. n + i = len0 + j
        BY <1>a, <2>1, <4>1
      <4> QED BY <1>1, <2>2, <3>1, <4>1, <4>2
    <3> QED BY <3>2, <3>3
  <2>4. r = v
    <3>1. Len(r) = Len(v)
      BY <1>2, <2>1, <2>2
    <3> QED BY <1>2, <2>1, <2>2, <2>3, <3>1, SeqEqual
  <2> QED BY <1>4, <2>4 DEF r, u, v
<1> QED BY <1>3, <1>4

\* Only the first byte of a header announces anything.
LEMMA ClosingByte ==
    /\ \A n : ContentLength(n) \notin Closing
    /\ \A c : ErrorBody(c) \notin Closing
    /\ \A p, i : FileByte(p, i) \notin Closing
    /\ \A p, r : ReplyTo(p, r) \notin Closing
<1>1. ASSUME NEW x \in Closing PROVE "code" \in DOMAIN x
  BY DEF Closing, Status
<1>2. /\ \A n : "code" \notin DOMAIN ContentLength(n)
      /\ \A c : "code" \notin DOMAIN ErrorBody(c)
      /\ \A p, i : "code" \notin DOMAIN FileByte(p, i)
      /\ \A p, r : "code" \notin DOMAIN ReplyTo(p, r)
  BY DEF ContentLength, ErrorBody, FileByte, ReplyTo
<1> QED BY <1>1, <1>2

\* A sequence of responses announces the end if one of its parts does.
LEMMA ClosesJoin ==
    ASSUME NEW a \in Seq(Byte), NEW b \in Seq(Byte)
    PROVE  Closes(a \o b) <=> Closes(a) \/ Closes(b)
<1> DEFINE f == a \o b
           n == Len(a)
           m == Len(b)
<1>1. /\ n \in Nat /\ m \in Nat
      /\ \A i \in 1 .. n : f[i] = a[i]
      /\ \A i \in 1 .. m : f[n + i] = b[i]
      /\ DOMAIN f = 1 .. n + m /\ DOMAIN a = 1 .. n /\ DOMAIN b = 1 .. m
  <2>1. f \in Seq(Byte) /\ Len(f) = n + m
    BY JoinFacts
  <2>2. DOMAIN f = 1 .. Len(f) /\ DOMAIN a = 1 .. n /\ DOMAIN b = 1 .. m
    BY <2>1
  <2> QED BY <2>1, <2>2, JoinFacts
<1> HIDE DEF f, n, m
<1>2. /\ \A i \in 1 .. n : i \in 1 .. n + m
      /\ \A i \in 1 .. m : n + i \in 1 .. n + m
      /\ \A i \in 1 .. n + m : i \in 1 .. n \/ (i - n \in 1 .. m /\ n + (i - n) = i)
  BY <1>1
<1>3. Closes(a) => Closes(f)
  BY <1>1, <1>2 DEF Closes
<1>4. Closes(b) => Closes(f)
  BY <1>1, <1>2 DEF Closes
<1>5. Closes(f) => Closes(a) \/ Closes(b)
  BY <1>1, <1>2 DEF Closes
<1> QED BY <1>3, <1>4, <1>5 DEF f

\* The bytes of a file announce nothing.
LEMMA FileNeverCloses ==
    ASSUME NEW file \in DOMAIN Resources \cup {NoFile}
    PROVE  /\ FileLen(file) \in Nat
           /\ FileBytes(file, 0, FileLen(file)) \in Seq(Byte)
           /\ ~Closes(FileBytes(file, 0, FileLen(file)))
<1>1. FileLen(file) \in Nat
  BY ProtocolAssumption DEF FileLen
<1>2. 0 + FileLen(file) = FileLen(file) /\ 0 \in Nat
  BY <1>1
<1>3. DOMAIN FileBytes(file, 0, FileLen(file)) = 1 .. FileLen(file)
  BY DEF FileBytes
<1>4. /\ FileBytes(file, 0, FileLen(file)) \in Seq(Byte)
      /\ \A i \in 1 .. FileLen(file) :
            FileBytes(file, 0, FileLen(file))[i] = FileByte(file, 0 + i)
  BY <1>1, <1>2, FileBytesFacts
<1>5. \A i \in 1 .. FileLen(file) : FileBytes(file, 0, FileLen(file))[i] \notin Closing
  BY <1>4, ClosingByte
<1> QED BY <1>1, <1>3, <1>4, <1>5 DEF Closes

\* A response begins with its code and with what it says of the connection.
LEMMA ResponseFacts ==
    ASSUME NEW path, NEW keep \in BOOLEAN, NEW code0 \in {200, 400},
           code0 = 400 => path \notin DOMAIN Resources
    PROVE  LET resp == MakeResponse(path, keep, code0)
           IN  /\ resp.file \in DOMAIN Resources \cup {NoFile}
               /\ resp.head \in Seq(Byte) /\ Len(resp.head) > 0
               /\ Closes(resp.head) <=> ~keep
<1> DEFINE code == Code(path, code0)
           page == IF code = 200 THEN path ELSE CodePath(code)
           content == AddContent(page, code)
           first == Status(code, keep)
           resp == MakeResponse(path, keep, code0)
<1>1. code \in {200, 403, 404}
  BY DEF Code
<1> HIDE DEF code
<1>2. first \in Byte /\ (first \in Closing <=> ~keep)
  <2>1. first \in AnswerByte
    BY <1>1 DEF AnswerByte, StatusBytes, Codes
  <2>2. first \in Closing <=> ~keep
    <3>1. ASSUME ~keep PROVE first \in Closing
      <4>1. first = Status(code, FALSE)
        BY ONLY <3>1, keep \in BOOLEAN, Zenon DEF Status
      <4> HIDE DEF first
      <4> DEFINE C == {200, 403, 404}
      <4>2. code \in C /\ Closing = {Status(c, FALSE) : c \in C}
        BY <1>1, Zenon DEF Closing
      <4> HIDE DEF C
      <4> QED BY ONLY <4>1, <4>2, Zenon
    <3>2. ASSUME first \in Closing PROVE ~keep
      BY <3>2, SMT DEF Closing, Status
    <3> QED BY <3>1, <3>2, Zenon
  <2> QED BY <2>1, <2>2, ProtocolAssumption
<1>3. /\ \A n \in Lengths : ContentLength(n) \in Byte
      /\ 1 \in Lengths /\ ErrorBody(code) \in Byte
  <2>1. \A n \in Lengths : ContentLength(n) \in AnswerByte
    BY DEF AnswerByte
  <2>2. ErrorBody(code) \in AnswerByte
    BY <1>1 DEF AnswerByte, Codes
  <2>3. 1 \in Lengths
    BY DEF Lengths
  <2> QED BY <2>1, <2>2, <2>3, ProtocolAssumption
<1>4. \/ /\ page \in DOMAIN Resources
         /\ content = [head |-> <<ContentLength(Resources[page].size)>>, file |-> page]
      \/ content = [head |-> <<ContentLength(1), ErrorBody(code)>>, file |-> NoFile]
  BY DEF AddContent, ErrorContent
<1>5. resp = [content EXCEPT !.head = <<first>> \o @]
  BY DEF MakeResponse, code
<1> HIDE DEF first, resp, content, page
<1>6. /\ content.head \in Seq(Byte) /\ ~Closes(content.head)
      /\ content.file \in DOMAIN Resources \cup {NoFile}
      /\ resp.head = <<first>> \o content.head /\ resp.file = content.file
  <2>1. CASE page \in DOMAIN Resources
             /\ content = [head |-> <<ContentLength(Resources[page].size)>>, file |-> page]
    <3> DEFINE y == ContentLength(Resources[page].size)
    <3>1. Resources[page].size \in Lengths
      BY <2>1 DEF Lengths
    <3>2. y \in Byte /\ y \notin Closing
      BY <1>3, <3>1, ClosingByte
    <3>3. content = [head |-> <<y>>, file |-> page]
      BY <2>1
    <3> HIDE DEF y
    <3>4. <<y>> \in Seq(Byte) /\ DOMAIN <<y>> = {1} /\ <<y>>[1] = y
      BY <3>2
    <3>5. ~Closes(<<y>>)
      BY <3>2, <3>4 DEF Closes
    <3>6. content.head = <<y>> /\ content.file = page
      BY <3>3
    <3>7. resp.head = <<first>> \o <<y>> /\ resp.file = page
      BY <1>5, <3>3
    <3> QED BY <2>1, <3>4, <3>5, <3>6, <3>7
  <2>2. CASE content = [head |-> <<ContentLength(1), ErrorBody(code)>>, file |-> NoFile]
    <3> DEFINE y == ContentLength(1)
               z == ErrorBody(code)
    <3>1. y \in Byte /\ y \notin Closing /\ z \in Byte /\ z \notin Closing
      BY <1>3, ClosingByte
    <3>2. content = [head |-> <<y, z>>, file |-> NoFile]
      BY <2>2
    <3> HIDE DEF y, z
    <3>3. /\ <<y, z>> \in Seq(Byte) /\ DOMAIN <<y, z>> = {1, 2}
          /\ <<y, z>>[1] = y /\ <<y, z>>[2] = z
      BY <3>1
    <3>4. ~Closes(<<y, z>>)
      BY <3>1, <3>3 DEF Closes
    <3>5. content.head = <<y, z>> /\ content.file = NoFile
      BY <3>2
    <3>6. resp.head = <<first>> \o <<y, z>> /\ resp.file = NoFile
      BY <1>5, <3>2
    <3> QED BY <3>3, <3>4, <3>5, <3>6
  <2> QED BY <1>4, <2>1, <2>2
<1>7. <<first>> \in Seq(Byte) /\ Len(<<first>>) = 1 /\ (Closes(<<first>>) <=> ~keep)
  <2>1. <<first>> \in Seq(Byte) /\ Len(<<first>>) = 1
    BY <1>2
  <2>2. DOMAIN <<first>> = {1} /\ <<first>>[1] = first
    OBVIOUS
  <2> QED BY <1>2, <2>1, <2>2 DEF Closes
<1>8. resp.head \in Seq(Byte) /\ Len(resp.head) = 1 + Len(content.head) /\ Len(content.head) \in Nat
  BY <1>6, <1>7, JoinFacts
<1>9. Closes(resp.head) <=> ~keep
  <2> DEFINE h == content.head
             f == <<first>>
  <2>1. h \in Seq(Byte) /\ f \in Seq(Byte) /\ resp.head = f \o h /\ ~Closes(h)
    BY <1>6, <1>7
  <2>2. Closes(f) <=> ~keep
    BY <1>7
  <2> HIDE DEF f, h
  <2>3. Closes(f \o h) <=> Closes(f) \/ Closes(h)
    BY <2>1, ClosesJoin
  <2> QED BY <2>1, <2>2, <2>3
<1>10. Len(resp.head) > 0
  BY <1>8
<1> QED BY <1>6, <1>8, <1>9, <1>10 DEF resp

\* The reply to a frame.
LEMMA ReplyFacts ==
    ASSUME NEW payload \in DOMAIN Envelope, NEW user, NEW success \in BOOLEAN
    PROVE  LET reply == <<ContentLength(1),
                          ReplyTo(payload, Reply(Envelope[payload], user, success))>>
           IN  reply \in Seq(Byte) /\ Len(reply) > 0 /\ ~Closes(reply)
<1> DEFINE y == ContentLength(1)
           r == Reply(Envelope[payload], user, success)
           z == ReplyTo(payload, r)
<1>1. r \in Replies
  BY DEF Replies, Reply, HandleAccount, HandleForUser
<1> HIDE DEF r
<1>2. y \in AnswerByte
  BY DEF AnswerByte, Lengths
<1>3. z \in AnswerByte
  <2>1. z \in ReplyBytes
    BY <1>1, SMT DEF ReplyBytes
  <2> QED BY <2>1 DEF AnswerByte
<1>4. y \in Byte /\ y \notin Closing /\ z \in Byte /\ z \notin Closing
  BY <1>2, <1>3, ClosingByte, ProtocolAssumption
<1> HIDE DEF y, z
<1>5. <<y, z>> \in Seq(Byte) /\ Len(<<y, z>>) = 2 /\ 2 > 0
  BY <1>4
<1>6. DOMAIN <<y, z>> = {1, 2} /\ <<y, z>>[1] = y /\ <<y, z>>[2] = z
  OBVIOUS
<1>7. ~Closes(<<y, z>>)
  BY <1>4, <1>6 DEF Closes
<1> QED BY <1>5, <1>7 DEF y, z, r

\* What is unsent is in the write buffer or where the iovecs point.
LEMMA UnsentFacts ==
    ASSUME Transfer
    PROVE  /\ Unsent \in Seq(Byte) /\ Len(Unsent) \in Nat
           /\ conn_type_ # "HTTP" =>
                  Unsent = Contents(write_buff_) /\ Len(Unsent) = Readable(write_buff_)
           /\ conn_type_ = "HTTP" =>
                 /\ Unsent = Chunks(write_buff_.buffer_, iov_.base, iov_.len0,
                                    iov_.file, iov_.at, iov_.len1)
                 /\ ChunksOK(write_buff_.buffer_, iov_.base, iov_.len0,
                             iov_.file, iov_.at, iov_.len1)
                 /\ Len(Unsent) = iov_.len0 + iov_.len1
<1>1. /\ write_buff_ \in Buffers /\ IovOK
  BY DEF Transfer
<1>2. /\ write_buff_.buffer_ \in Seq(Byte) /\ Len(write_buff_.buffer_) \in Nat
      /\ write_buff_.readPos_ \in Nat /\ write_buff_.writePos_ \in Nat
      /\ write_buff_.readPos_ <= write_buff_.writePos_
      /\ write_buff_.writePos_ <= Len(write_buff_.buffer_)
  BY <1>1, BufferType
<1>3. CASE conn_type_ # "HTTP"
  <2>1. Unsent = Contents(write_buff_)
    BY <1>3 DEF Unsent
  <2>2. /\ Readable(write_buff_) \in Nat /\ Contents(write_buff_) \in Seq(Byte)
        /\ Len(Contents(write_buff_)) = Readable(write_buff_)
    BY <1>1, ContentsFacts
  <2> QED BY <1>3, <2>1, <2>2
<1>4. CASE conn_type_ = "HTTP"
  <2> DEFINE f == write_buff_.buffer_
             base == iov_.base
             len0 == iov_.len0
             file == iov_.file
             at == iov_.at
             len1 == iov_.len1
  <2>1. Unsent = Chunks(f, base, len0, file, at, len1)
    BY <1>4 DEF Unsent, IovBytes, Chunks
  <2>2. ChunksOK(f, base, len0, file, at, len1)
    <3>1. /\ base \in Nat /\ len0 \in Nat /\ at \in Nat /\ len1 \in Nat
          /\ file \in DOMAIN Resources \cup {NoFile} /\ at + len1 = FileLen(file)
      BY <1>1 DEF IovOK
    <3>2. len0 > 0 => base + len0 <= Len(f)
      <4>1. len0 = write_buff_.writePos_ - write_buff_.readPos_
            /\ (len0 > 0 => base = write_buff_.readPos_)
        BY <1>1, <1>4 DEF IovOK, Readable
      <4> QED BY <1>2, <3>1, <4>1
    <3> QED BY <1>2, <3>1, <3>2 DEF ChunksOK
  <2> HIDE DEF f, base, len0, file, at, len1
  <2>3. /\ Chunks(f, base, len0, file, at, len1) \in Seq(Byte)
        /\ Len(Chunks(f, base, len0, file, at, len1)) = len0 + len1
    BY <2>2, ChunkFacts
  <2>4. len0 + len1 \in Nat
    BY <2>2 DEF ChunksOK
  <2> QED BY <1>4, <2>1, <2>2, <2>3, <2>4 DEF f, base, len0, file, at, len1
<1> QED BY <1>3, <1>4

\* Nothing is unsent while the connection is read.
LEMMA NothingUnsent ==
    ASSUME Transfer, conn = "in"
    PROVE  Contents(write_buff_) = <<>> /\ answers = received
<1>1. Unsent = <<>> /\ received \in Seq(Byte)
      /\ received \o Unsent = answers /\ write_buff_ \in Buffers
  BY DEF Transfer
<1>2. received \o <<>> = received
  BY <1>1, ConcatEmptySeq
<1>3. CASE conn_type_ # "HTTP"
  BY <1>1, <1>2, <1>3 DEF Unsent
<1>4. CASE conn_type_ = "HTTP"
  <2>1. Len(Unsent) = iov_.len0 + iov_.len1 /\ Len(<<>>) = 0
    BY <1>4, UnsentFacts
  <2>2. iov_.len0 \in Nat /\ iov_.len1 \in Nat /\ iov_.len0 = Readable(write_buff_)
    BY <1>4 DEF Transfer, IovOK
  <2>3. Readable(write_buff_) = 0
    BY <1>1, <2>1, <2>2
  <2>4. Contents(write_buff_) \in Seq(Byte) /\ Len(Contents(write_buff_)) = 0
    BY <1>1, <2>3, ContentsFacts
  <2>5. \A s \in Seq(Byte) : Len(s) = 0 => s = <<>>
    OBVIOUS
  <2> QED BY <1>1, <1>2, <2>4, <2>5
<1> QED BY <1>3, <1>4

\* A handler answers a.
LEMMA AfterAnswer ==
    ASSUME Transfer, Announced, conn = "in", NEW a \in Seq(Byte), Len(a) > 0,
           answers' = answers \o a, Unsent' = a, received' = received, conn' = "out",
           conn_type_' \in {"HTTP", "PROTOBUF"}, (write_buff_ \in Buffers)', IovOK',
           Closes(a) <=> conn_type_' = "HTTP" /\ ~IsKeepAlive(request_)'
    PROVE  Transfer' /\ Announced'
<1>1. answers = received /\ received \in Seq(Byte)
  BY NothingUnsent DEF Transfer
<1>2. a # <<>>
  OBVIOUS
<1>3. Transfer'
  <2>1. (received \o Unsent = answers)'
    BY <1>1
  <2>2. "out" \in {"in", "out", "closed"} /\ "out" # "in"
    OBVIOUS
  <2> QED BY <1>1, <1>2, <2>1, <2>2 DEF Transfer
<1>4. ASSUME is_et PROVE Closes(answers)' <=> Closes(a)
  <2>1. ~Closes(answers)
    BY <1>4 DEF Announced
  <2>2. Closes(answers \o a) <=> Closes(answers) \/ Closes(a)
    BY <1>1, ClosesJoin
  <2>3. Closes(answers)' <=> Closes(answers \o a)
    BY DEF Closes
  <2> QED BY <2>1, <2>2, <2>3
<1>5. Announced'
  <2>1. conn' # "closed" /\ conn' # "in"
    OBVIOUS
  <2> QED BY <1>4, <2>1 DEF Announced
<1> QED BY <1>3, <1>5

\* The client receives n more bytes.
LEMMA AfterSend ==
    ASSUME Transfer, Announced, conn = "out", NEW n \in 1 .. Len(Unsent),
           received' = received \o SubSeq(Unsent, 1, n),
           Unsent' = SubSeq(Unsent, n + 1, Len(Unsent)),
           conn' = AfterWrite(Len(Unsent) - n), UNCHANGED <<conn_type_, request_, answers>>,
           (write_buff_ \in Buffers)', IovOK'
    PROVE  Transfer' /\ Announced'
<1> DEFINE left == Len(Unsent) - n
<1>1. Unsent \in Seq(Byte) /\ received \in Seq(Byte) /\ received \o Unsent = answers
  BY UnsentFacts DEF Transfer
<1>2. /\ received \o SubSeq(Unsent, 1, n) \in Seq(Byte)
      /\ (received \o SubSeq(Unsent, 1, n)) \o SubSeq(Unsent, n + 1, Len(Unsent))
           = received \o Unsent
      /\ SubSeq(Unsent, n + 1, Len(Unsent)) = <<>> <=> left = 0
  BY <1>1, SendPrefix
<1>3. (received \in Seq(Byte))' /\ (received \o Unsent = answers)' /\ (Unsent' = <<>> <=> left = 0)
  BY <1>1, <1>2
<1> HIDE DEF left
<1>4. /\ conn' \in {"in", "out", "closed"}
      /\ conn' = "in" => left = 0 /\ (conn_type_ = "PROTOBUF" \/ IsKeepAlive(request_))
      /\ conn' = "out" => left # 0
      /\ is_et /\ conn' = "closed" => left = 0 /\ conn_type_ # "PROTOBUF" /\ ~IsKeepAlive(request_)
  <2>1. conn' = AfterWrite(left)
    BY DEF left
  <2> QED BY <2>1 DEF AfterWrite
<1>5. conn_type_ \in {"HTTP", "PROTOBUF"}
  BY DEF Transfer
<1>6. Transfer'
  BY <1>3, <1>4, <1>5 DEF Transfer
<1>7. Announced'
  <2> SUFFICES ASSUME is_et
               PROVE  /\ conn' = "closed" =>
                            Unsent' = <<>> /\ conn_type_ = "HTTP" /\ ~IsKeepAlive(request_)
                      /\ Closes(answers) <=>
                            conn' # "in" /\ conn_type_ = "HTTP" /\ ~IsKeepAlive(request_)
    BY DEF Announced, IsKeepAlive, Closes
  <2>1. Closes(answers) <=> conn_type_ = "HTTP" /\ ~IsKeepAlive(request_)
    BY DEF Announced
  <2> QED BY <1>3, <1>4, <1>5, <2>1
<1> QED BY <1>6, <1>7

\* write_fd of the write buffer.
LEMMA WriteProtobufTransfer ==
    ASSUME Transfer, Announced, NEW n, WriteProtobuf(n)
    PROVE  Transfer' /\ Announced'
<1>1. /\ conn = "out" /\ conn_type_ = "PROTOBUF" /\ n \in 1 .. Readable(write_buff_)
      /\ received' = received \o SubSeq(Contents(write_buff_), 1, n)
      /\ write_buff_' = Retrieve(write_buff_, n)
      /\ conn' = AfterWrite(Readable(write_buff_) - n)
      /\ UNCHANGED <<conn_type_, request_, iov_, answers>>
  BY DEF WriteProtobuf, WriteFd
<1>2. Unsent = Contents(write_buff_) /\ Len(Unsent) = Readable(write_buff_) /\ Len(Unsent) \in Nat
  BY <1>1, UnsentFacts
<1>3. Unsent' = Contents(write_buff_')
  BY <1>1 DEF Unsent
<1>4. write_buff_ \in Buffers /\ IovOK
  BY DEF Transfer
<1>5. n \in 0 .. Readable(write_buff_)
  BY <1>1, <1>2
<1>6. write_buff_' \in Buffers /\ Unsent' = SubSeq(Unsent, n + 1, Len(Unsent))
  BY <1>1, <1>2, <1>3, <1>4, <1>5, RetrieveDrops
<1>7. IovOK'
  BY <1>1, <1>4 DEF IovOK, FileLen
<1> QED BY <1>1, <1>2, <1>6, <1>7, AfterSend

\* writev of the header and the file, up to within either of them.
LEMMA WriteHttpTransfer ==
    ASSUME Transfer, Announced, NEW n, WriteHttp(n)
    PROVE  Transfer' /\ Announced'
<1> DEFINE f == write_buff_.buffer_
           base == iov_.base
           len0 == iov_.len0
           file == iov_.file
           at == iov_.at
           len1 == iov_.len1
<1>1. /\ conn = "out" /\ conn_type_ = "HTTP"
      /\ iov_' = Advance(n)
      /\ write_buff_' = IF n <= len0 THEN Retrieve(write_buff_, n)
                        ELSE IF len0 > 0 THEN RetrieveAll(write_buff_) ELSE write_buff_
      /\ UNCHANGED <<conn_type_, request_, answers>>
  BY DEF WriteHttp
<1>2. /\ n \in 1 .. Len(Unsent) /\ received' = received \o SubSeq(Unsent, 1, n)
      /\ conn' = AfterWrite(Len(Unsent) - n)
  BY DEF WriteHttp, Unsent
<1>3. /\ Unsent = Chunks(f, base, len0, file, at, len1)
      /\ ChunksOK(f, base, len0, file, at, len1)
      /\ Len(Unsent) = len0 + len1
  BY <1>1, UnsentFacts
<1>4. /\ iov_ \in [base : Nat, len0 : Nat, file : DOMAIN Resources \cup {NoFile},
                   at : Nat, len1 : Nat]
      /\ at + len1 = FileLen(file) /\ len0 = Readable(write_buff_)
      /\ len0 > 0 => base = write_buff_.readPos_
      /\ write_buff_ \in Buffers
  BY <1>1 DEF Transfer, IovOK
<1>5. /\ base \in Nat /\ len0 \in Nat /\ at \in Nat /\ len1 \in Nat
      /\ file \in DOMAIN Resources \cup {NoFile}
  BY <1>4
<1>6. n \in 1 .. len0 + len1
  BY <1>2, <1>3
<1>7. Unsent' = Chunks(write_buff_'.buffer_, iov_'.base, iov_'.len0,
                       iov_'.file, iov_'.at, iov_'.len1)
  BY <1>1 DEF Unsent, IovBytes, Chunks
<1>8. iov_ = [base |-> base, len0 |-> len0, file |-> file, at |-> at, len1 |-> len1]
  BY <1>4
<1>9. CASE n > len0
  <2> DEFINE at1 == at + n - len0
             len2 == len1 - (n - len0)
  <2>1. iov_' = [base |-> base, len0 |-> 0, file |-> file, at |-> at1, len1 |-> len2]
    <3>1. Advance(n) = [iov_ EXCEPT !.at = @ + n - iov_.len0,
                             !.len1 = @ - (n - iov_.len0), !.len0 = 0]
      BY <1>9 DEF Advance
    <3> QED BY <1>1, <1>4, <3>1
  <2>2. at1 \in Nat /\ len2 \in Nat /\ at1 + len2 = FileLen(file) /\ 0 \in Nat /\ ~(n <= len0)
        /\ ~(0 > 0) /\ (~(len0 > 0) => len0 = 0)
    BY <1>4, <1>5, <1>6, <1>9
  <2>3. write_buff_' \in Buffers /\ write_buff_'.buffer_ = f /\ Readable(write_buff_') = 0
    <3>1. CASE len0 > 0
      <4>1. write_buff_' = RetrieveAll(write_buff_)
        BY <1>1, <2>2, <3>1
      <4>2. write_buff_' = [buffer_ |-> f, readPos_ |-> 0, writePos_ |-> 0]
        BY <4>1 DEF RetrieveAll
      <4>3. Readable(write_buff_') = 0 /\ write_buff_'.buffer_ = f
        BY <4>2 DEF Readable
      <4> QED BY <1>4, <4>1, <4>3, RetrieveAllEmpties
    <3>2. CASE ~(len0 > 0)
      BY <1>1, <1>4, <2>2, <3>2
    <3> QED BY <3>1, <3>2
  <2> HIDE DEF at1, len2
  <2>4. /\ iov_'.base = base /\ iov_'.len0 = 0 /\ iov_'.file = file /\ iov_'.at = at1
        /\ iov_'.len1 = len2
        /\ iov_' \in [base : Nat, len0 : Nat, file : DOMAIN Resources \cup {NoFile},
                      at : Nat, len1 : Nat]
    BY <1>5, <2>1, <2>2
  <2>5. IovOK'
    <3>1. iov_'.at + iov_'.len1 = FileLen(iov_'.file)
      BY <2>2, <2>4
    <3>2. iov_'.len0 = Readable(write_buff_') /\ ~(iov_'.len0 > 0)
      BY <2>2, <2>3, <2>4
    <3> QED BY <2>4, <3>1, <3>2 DEF IovOK, FileLen
  <2>6. Unsent' = SubSeq(Unsent, n + 1, Len(Unsent))
    <3>1. SubSeq(Chunks(f, base, len0, file, at, len1), n + 1, len0 + len1)
             = Chunks(f, base, 0, file, at + n - len0, len1 - (n - len0))
      BY <1>3, <1>6, <1>9, ChunkAdvance
    <3> QED BY <1>3, <1>7, <2>3, <2>4, <3>1 DEF at1, len2
  <2> QED BY <1>1, <1>2, <2>3, <2>5, <2>6, AfterSend
<1>10. CASE ~(n > len0)
  <2>1. iov_' = [base |-> base + n, len0 |-> len0 - n, file |-> file, at |-> at, len1 |-> len1]
    <3>1. Advance(n) = [iov_ EXCEPT !.base = @ + n, !.len0 = @ - n]
      BY <1>10 DEF Advance
    <3> QED BY <1>1, <1>4, <3>1
  <2>2. base + n \in Nat /\ len0 - n \in Nat /\ n <= len0 /\ len0 > 0 /\ n \in 0 .. len0
    BY <1>5, <1>6, <1>10
  <2>3. write_buff_' = Retrieve(write_buff_, n)
    BY <1>1, <2>2
  <2>4. /\ write_buff_' = [buffer_ |-> f, readPos_ |-> write_buff_.readPos_ + n,
                           writePos_ |-> write_buff_.writePos_]
        /\ write_buff_.readPos_ \in Nat /\ write_buff_.writePos_ \in Nat
    BY <1>4, <2>3, BufferType DEF Retrieve
  <2>5. /\ write_buff_'.buffer_ = f /\ write_buff_'.readPos_ = base + n
        /\ Readable(write_buff_') = len0 - n
    <3>1. len0 = write_buff_.writePos_ - write_buff_.readPos_ /\ base = write_buff_.readPos_
      BY <1>4, <2>2 DEF Readable
    <3>2. Readable(write_buff_') = write_buff_.writePos_ - (write_buff_.readPos_ + n)
      BY <2>4 DEF Readable
    <3>3. n \in Nat
      BY <1>6
    <3>4. Readable(write_buff_') = len0 - n
      BY <2>4, <3>1, <3>2, <3>3
    <3> QED BY <2>4, <3>1, <3>4
  <2>6. write_buff_' \in Buffers
    BY <1>4, <2>2, <2>3, RetrieveDrops
  <2>7. /\ iov_'.base = base + n /\ iov_'.len0 = len0 - n /\ iov_'.file = file /\ iov_'.at = at
        /\ iov_'.len1 = len1
        /\ iov_' \in [base : Nat, len0 : Nat, file : DOMAIN Resources \cup {NoFile},
                      at : Nat, len1 : Nat]
    BY <1>5, <2>1, <2>2
  <2>8. IovOK'
    <3>1. iov_'.at + iov_'.len1 = FileLen(iov_'.file)
      BY <1>4, <2>7
    <3>2. iov_'.len0 = Readable(write_buff_') /\ iov_'.base = write_buff_'.readPos_
      BY <2>5, <2>7
    <3> QED BY <2>7, <3>1, <3>2 DEF IovOK, FileLen
  <2>9. Unsent' = SubSeq(Unsent, n + 1, Len(Unsent))
    <3>1. SubSeq(Chunks(f, base, len0, file, at, len1), n + 1, len0 + len1)
             = Chunks(f, base + n, len0 - n, file, at, len1)
      BY <1>3, <1>6, <1>10, ChunkAdvance
    <3> QED BY <1>3, <1>7, <2>5, <2>7, <3>1
  <2> QED BY <1>1, <1>2, <2>6, <2>8, <2>9, AfterSend
<1> QED BY <1>9, <1>10

\* What was read of a connection that is not for frames is in a sound buffer; what was
\* not read is bytes.
Reading ==
    /\ script \in Scripts /\ socket \in Seq(Byte) /\ stream \in Seq(Byte)
    /\ conn_type_ \in {"NONE", "HTTP", "PROTOBUF"}
    /\ conn_type_ # "PROTOBUF" => read_buff_ \in Buffers

LEMMA InitReading == Init => Reading
<1> SUFFICES ASSUME Init PROVE Reading
  OBVIOUS
<1>1. /\ script \in Scripts /\ stream = EncodeFrom(script, 0) /\ socket = <<>>
      /\ read_buff_ = NewBuffer(InitSize) /\ conn_type_ = "NONE"
  BY DEF Init
<1>2. read_buff_ \in Buffers
  BY <1>1, NewBufferIsEmpty, ProtocolAssumption
<1>3. stream \in Seq(Byte)
  <2>1. 0 \in 0 .. Len(script)
    BY <1>1, ScriptFacts
  <2> QED BY <1>1, <2>1, ScriptFacts
<1>4. socket \in Seq(Byte)
  BY <1>1
<1> QED BY <1>1, <1>2, <1>3, <1>4 DEF Reading

\* A part of the stream.
LEMMA CutStream ==
    ASSUME NEW u \in Seq(Byte), NEW k \in 1 .. Len(u)
    PROVE  /\ SubSeq(u, 1, k) \in Seq(Byte) /\ Len(SubSeq(u, 1, k)) = k
           /\ SubSeq(u, k + 1, Len(u)) \in Seq(Byte)
           /\ SubSeq(u, 1, k) \o SubSeq(u, k + 1, Len(u)) = u
<1> DEFINE a == SubSeq(u, 1, k)
           z == SubSeq(u, k + 1, Len(u))
<1>1. 0 \in Nat /\ k \in Nat /\ 0 <= k /\ k <= Len(u) /\ Len(u) \in Nat
      /\ Len(u) <= Len(u) /\ 0 + 1 = 1 /\ k - 0 = k
  OBVIOUS
<1>2. /\ SubSeq(u, 0 + 1, k) \in Seq(Byte) /\ Len(SubSeq(u, 0 + 1, k)) = k - 0
      /\ z \in Seq(Byte)
  BY <1>1, CutFacts
<1>3. a \in Seq(Byte) /\ Len(a) = k
  BY <1>1, <1>2
<1>4. (<<>> \o a) \o z = <<>> \o u
  BY SendPrefix
<1> HIDE DEF a, z
<1>5. a \o z = u
  BY <1>2, <1>3, <1>4
<1> QED BY <1>2, <1>3, <1>5 DEF a, z

LEMMA ReadFacts ==
    ASSUME Reading, OnRead, conn_type_' = "HTTP"
    PROVE  LET b == ReadFd(read_buff_, socket)
           IN  /\ b \in Buffers /\ Contents(b) = Contents(read_buff_) \o socket
               /\ ProcessHttp(b) /\ read_buff_' \in Buffers
               /\ conn_type_ # "PROTOBUF"
<1> DEFINE b == ReadFd(read_buff_, socket)
           c == Contents(b)
<1>1. conn_type_' = ConnType(c) /\ ProcessHttp(b)
  BY DEF OnRead
<1>2. conn_type_ # "PROTOBUF"
  BY <1>1 DEF ConnType
<1>3. b \in Buffers /\ c = Contents(read_buff_) \o socket
  BY <1>2, ReadFdAppends DEF Reading
<1> HIDE DEF b
<1>4. read_buff_' = Parse(b).buff
  <2>1. PICK p, verified : p = Parse(b) /\ RespondHttp(p, verified)
    BY <1>1 DEF ProcessHttp
  <2> QED BY <2>1 DEF RespondHttp
<1>5. read_buff_' \in Buffers
  BY <1>3, <1>4, ParseFacts DEF IsParser
<1> QED BY <1>1, <1>2, <1>3, <1>5 DEF b

LEMMA NextReading == Reading /\ [Next]_vars => Reading'
<1> SUFFICES ASSUME Reading, [Next]_vars PROVE Reading'
  OBVIOUS
<1>1. ASSUME NEW k \in 1 .. Len(stream), Arrive(k) PROVE Reading'
  <2>1. /\ socket' = socket \o SubSeq(stream, 1, k)
        /\ stream' = SubSeq(stream, k + 1, Len(stream))
        /\ UNCHANGED <<script, read_buff_, conn_type_>>
    BY <1>1 DEF Arrive
  <2> DEFINE a == SubSeq(stream, 1, k)
             z == SubSeq(stream, k + 1, Len(stream))
  <2>2. a \in Seq(Byte) /\ z \in Seq(Byte) /\ socket \in Seq(Byte)
    BY CutStream DEF Reading
  <2> HIDE DEF a, z
  <2>3. socket \o a \in Seq(Byte)
    BY <2>2, JoinFacts
  <2> QED BY <2>1, <2>2, <2>3 DEF Reading, a, z
<1>2. CASE OnRead
  <2>1. UNCHANGED <<script, stream>> /\ socket' = <<>> /\ <<>> \in Seq(Byte)
    BY <1>2 DEF OnRead
  <2>2. conn_type_' = "HTTP" \/ conn_type_' = "PROTOBUF"
    <3>1. conn_type_' = ConnType(Contents(ReadFd(read_buff_, socket)))
      BY <1>2 DEF OnRead
    <3>2. CASE conn_type_ = "NONE"
      BY <3>1, <3>2 DEF ConnType
    <3>3. CASE conn_type_ # "NONE"
      BY <3>1, <3>3 DEF ConnType, Reading
    <3> QED BY <3>2, <3>3
  <2> QED BY <1>2, <2>1, <2>2, ReadFacts DEF Reading
<1>3. CASE UNCHANGED <<script, stream, socket, read_buff_, conn_type_>>
  BY <1>3 DEF Reading
<1>4. CASE OnWrite
  BY <1>3, <1>4 DEF OnWrite, WriteHttp, WriteProtobuf
<1>5. CASE UNCHANGED vars
  BY <1>3, <1>5 DEF vars
<1> QED BY <1>1, <1>2, <1>4, <1>5 DEF Next

\* A response is put where nothing was unsent, and the iovecs are set to it.
LEMMA ProcessHttpTransfer ==
    ASSUME Transfer, Announced, conn = "in", NEW b \in Buffers, ProcessHttp(b),
           conn_type_' = "HTTP", received' = received
    PROVE  Transfer' /\ Announced'
<1>1. PICK p, verified : p = Parse(b) /\ RespondHttp(p, verified)
  BY DEF ProcessHttp
<1> DEFINE keep == IsKeepAlive(p.req)
           path == IF p.form THEN VerifiedPath(verified) ELSE p.req.path
           code == IF Parsed(p) THEN 200 ELSE 400
           resp == MakeResponse(path, keep, code)
           head == resp.head
           file == resp.file
           out == AppendBytes(write_buff_, head)
           data == FileBytes(file, 0, FileLen(file))
<1>2. /\ request_' = p.req /\ write_buff_' = out /\ iov_' = SetupIov(out, file)
      /\ answers' = (answers \o head) \o data /\ conn' = "out"
  BY <1>1 DEF RespondHttp
<1>3. ~Parsed(p) => ~p.form /\ p.req = InitRequest
  BY <1>1, ParseFacts DEF IsParser
<1>4. keep \in BOOLEAN /\ code \in {200, 400} /\ (code = 400 => path \notin DOMAIN Resources)
  <2>1. keep \in BOOLEAN
    BY DEF IsKeepAlive
  <2>2. code \in {200, 400} /\ (code = 400 => ~Parsed(p))
    OBVIOUS
  <2>3. ASSUME ~Parsed(p) PROVE path \notin DOMAIN Resources
    <3>1. path = InitRequest.path
      BY <1>3, <2>3
    <3>2. InitRequest.path = NoFile
      BY DEF InitRequest, NoFile
    <3> QED BY <3>1, <3>2, ProtocolAssumption
  <2> QED BY <2>1, <2>2, <2>3
<1> HIDE DEF path, code
<1>5. /\ file \in DOMAIN Resources \cup {NoFile} /\ head \in Seq(Byte) /\ Len(head) > 0
      /\ Closes(head) <=> ~keep
  BY <1>4, ResponseFacts
<1> HIDE DEF resp, keep
<1>6. FileLen(file) \in Nat /\ data \in Seq(Byte) /\ ~Closes(data)
  BY <1>5, FileNeverCloses
<1> HIDE DEF file, head, data
<1>7. Contents(write_buff_) = <<>> /\ answers = received /\ received \in Seq(Byte)
      /\ write_buff_ \in Buffers
  BY NothingUnsent DEF Transfer
<1>8. out \in Buffers /\ Contents(out) = head
  <2>1. out \in Buffers /\ Contents(out) = Contents(write_buff_) \o head
    BY <1>5, <1>7, AppendAppends
  <2>2. <<>> \o head = head
    BY <1>5, ConcatEmptySeq
  <2> QED BY <1>7, <2>1, <2>2
<1> HIDE DEF out
<1>9. /\ out.readPos_ \in Nat /\ out.writePos_ \in Nat /\ out.readPos_ <= out.writePos_
      /\ Readable(out) \in Nat /\ out.readPos_ + Readable(out) = out.writePos_
  <2>1. out.readPos_ \in Nat /\ out.writePos_ \in Nat /\ out.readPos_ <= out.writePos_
    BY <1>8, BufferType
  <2> QED BY <2>1 DEF Readable
<1>10. iov_' = [base |-> out.readPos_, len0 |-> Readable(out), file |-> file, at |-> 0,
                len1 |-> FileLen(file)]
  BY <1>2 DEF SetupIov
<1>11. /\ iov_'.base = out.readPos_ /\ iov_'.len0 = Readable(out) /\ iov_'.file = file
       /\ iov_'.at = 0 /\ iov_'.len1 = FileLen(file)
       /\ iov_' \in [base : Nat, len0 : Nat, file : DOMAIN Resources \cup {NoFile},
                     at : Nat, len1 : Nat]
  BY <1>5, <1>6, <1>9, <1>10
<1>12. IovOK'
  <2>1. iov_'.at + iov_'.len1 = FileLen(iov_'.file)
    BY <1>6, <1>11
  <2>2. iov_'.len0 = Readable(write_buff_') /\ iov_'.base = write_buff_'.readPos_
    BY <1>2, <1>11
  <2> QED BY <1>11, <2>1, <2>2 DEF IovOK, FileLen
<1>13. Unsent' = head \o data
  <2>1. Unsent' = SubSeq(write_buff_'.buffer_, iov_'.base + 1, iov_'.base + iov_'.len0)
                     \o FileBytes(iov_'.file, iov_'.at, iov_'.len1)
    BY DEF Unsent, IovBytes
  <2>2. SubSeq(out.buffer_, out.readPos_ + 1, out.readPos_ + Readable(out)) = head
    BY <1>8, <1>9 DEF Contents
  <2> QED BY <1>2, <1>11, <2>1, <2>2 DEF data
<1>14. /\ head \o data \in Seq(Byte) /\ Len(head \o data) > 0
       /\ answers' = answers \o (head \o data)
  <2>1. head \o data \in Seq(Byte) /\ Len(head \o data) = Len(head) + Len(data)
        /\ Len(head) \in Nat /\ Len(data) \in Nat
    BY <1>5, <1>6, JoinFacts
  <2>2. Len(head \o data) > 0
    BY <1>5, <2>1
  <2>3. \A x, y, z \in Seq(Byte) : (x \o y) \o z = x \o (y \o z)
    BY ConcatAssociative
  <2> QED BY <1>2, <1>5, <1>6, <1>7, <2>1, <2>2, <2>3
<1>15. Closes(head \o data) <=> conn_type_' = "HTTP" /\ ~IsKeepAlive(request_)'
  <2>1. Closes(head \o data) <=> Closes(head) \/ Closes(data)
    BY <1>5, <1>6, ClosesJoin
  <2>2. IsKeepAlive(request_)' <=> keep
    BY <1>2 DEF IsKeepAlive, keep
  <2> QED BY <1>5, <1>6, <2>1, <2>2
<1> DEFINE a == head \o data
<1>16. /\ a \in Seq(Byte) /\ Len(a) > 0 /\ answers' = answers \o a /\ Unsent' = a
       /\ (Closes(a) <=> conn_type_' = "HTTP" /\ ~IsKeepAlive(request_)')
  BY <1>13, <1>14, <1>15
<1> HIDE DEF a
<1> QED BY <1>2, <1>8, <1>12, <1>16, AfterAnswer

\* A reply is appended, or there is no message.
LEMMA ProcessProtobufTransfer ==
    ASSUME Transfer, Announced, conn = "in", NEW b, NEW c, ProcessProtobuf(b, c),
           conn_type_ # "HTTP", conn_type_' = "PROTOBUF", received' = received
    PROVE  Transfer' /\ Announced'
<1>1. Contents(write_buff_) = <<>> /\ answers = received /\ received \in Seq(Byte)
      /\ write_buff_ \in Buffers
      /\ IovOK
  BY NothingUnsent DEF Transfer
<1>2. iov_' = iov_
  BY DEF ProcessProtobuf, NoMessage
<1>3. IovOK'
  BY <1>1, <1>2 DEF IovOK, FileLen
<1>4. Unsent' = Contents(write_buff_')
  BY DEF Unsent
<1>5. CASE ~HasMessage(c)
  <2>1. conn' = "in" /\ UNCHANGED <<write_buff_, answers>>
    BY <1>5 DEF ProcessProtobuf, NoMessage
  <2>2. Unsent' = <<>> /\ received \o <<>> = received
    BY <1>1, <1>4, <2>1, ConcatEmptySeq
  <2>3. Transfer'
    BY <1>1, <1>3, <2>1, <2>2 DEF Transfer
  <2>4. is_et => ~Closes(answers)
    BY DEF Announced
  <2>5. Closes(answers)' <=> Closes(answers)
    BY <2>1 DEF Closes
  <2>6. Announced'
    BY <2>1, <2>4, <2>5 DEF Announced
  <2> QED BY <2>3, <2>6
<1>6. CASE HasMessage(c)
  <2> DEFINE payload == SubSeq(c, kHeaderSize + 1, kHeaderSize + FrameLength(c))
  <2>1. payload \in DOMAIN Envelope
    BY <1>6 DEF HasMessage
  <2>2. PICK success \in BOOLEAN :
          LET reply == <<ContentLength(1),
                         ReplyTo(payload, Reply(Envelope[payload], user_id_, success))>>
          IN  /\ write_buff_' = AppendBytes(write_buff_, reply)
              /\ answers' = answers \o reply /\ conn' = "out"
    BY <1>6 DEF ProcessProtobuf
  <2> DEFINE reply == <<ContentLength(1),
                        ReplyTo(payload, Reply(Envelope[payload], user_id_, success))>>
  <2>3. reply \in Seq(Byte) /\ Len(reply) > 0 /\ ~Closes(reply)
    BY <2>1, ReplyFacts
  <2>4. write_buff_' = AppendBytes(write_buff_, reply)
        /\ answers' = answers \o reply /\ conn' = "out"
    BY <2>2
  <2> HIDE DEF reply
  <2>5. write_buff_' \in Buffers /\ Contents(write_buff_') = Contents(write_buff_) \o reply
    BY <1>1, <2>3, <2>4, AppendAppends
  <2>6. <<>> \o reply = reply
    BY <2>3, ConcatEmptySeq
  <2>7. Unsent' = reply
    BY <1>1, <1>4, <2>5, <2>6
  <2>8. Closes(reply) <=> conn_type_' = "HTTP" /\ ~IsKeepAlive(request_)'
    BY <2>3
  <2> QED BY <1>3, <2>3, <2>4, <2>5, <2>7, <2>8, AfterAnswer
<1> QED BY <1>5, <1>6

LEMMA InitTransfer == Init => Transfer /\ Announced
<1> SUFFICES ASSUME Init PROVE Transfer /\ Announced
  OBVIOUS
<1>1. /\ write_buff_ = NewBuffer(InitSize) /\ conn_type_ = "NONE" /\ conn = "in"
      /\ iov_ = [base |-> 0, len0 |-> 0, file |-> NoFile, at |-> 0, len1 |-> 0]
      /\ answers = <<>> /\ received = <<>>
  BY DEF Init
<1>2. write_buff_ \in Buffers /\ Contents(write_buff_) = <<>>
  BY <1>1, NewBufferIsEmpty, ProtocolAssumption
<1>3. Unsent = <<>>
  BY <1>1, <1>2 DEF Unsent
<1>4. IovOK
  <2>1. /\ iov_ \in [base : Nat, len0 : Nat, file : DOMAIN Resources \cup {NoFile},
                     at : Nat, len1 : Nat]
        /\ iov_.at + iov_.len1 = 0 /\ iov_.file = NoFile
    BY <1>1
  <2> QED BY <1>1, <2>1 DEF IovOK, FileLen
<1>5. <<>> \o <<>> = <<>> /\ <<>> \in Seq(Byte)
  OBVIOUS
<1>6. Transfer
  BY <1>1, <1>2, <1>3, <1>4, <1>5 DEF Transfer
<1>7. DOMAIN <<>> = {}
  OBVIOUS
<1>8. ~Closes(answers)
  BY <1>1, <1>7 DEF Closes
<1> QED BY <1>1, <1>6, <1>8 DEF Announced

\* Every step keeps both.
LEMMA NextTransfer == Reading /\ Transfer /\ Announced /\ [Next]_vars => Transfer' /\ Announced'
<1> SUFFICES ASSUME Reading, Transfer, Announced, [Next]_vars PROVE Transfer' /\ Announced'
  OBVIOUS
<1>1. ASSUME UNCHANGED <<write_buff_, conn_type_, request_, iov_, conn, answers, received>>
      PROVE  Transfer' /\ Announced'
  <2>1. Unsent' = Unsent
    BY <1>1 DEF Unsent, IovBytes, Contents
  <2>2. IovOK'
    BY <1>1 DEF Transfer, IovOK, FileLen
  <2>3. Transfer'
    BY <1>1, <2>1, <2>2 DEF Transfer
  <2>4. Announced'
    BY <1>1, <2>1 DEF Announced, Closes, IsKeepAlive
  <2> QED BY <2>3, <2>4
<1>2. ASSUME NEW n \in 1 .. Len(stream), Arrive(n) PROVE Transfer' /\ Announced'
  BY <1>1, <1>2 DEF Arrive
<1>3. CASE OnRead
  <2>1. PICK b, c : /\ conn_type_' = ConnType(c)
                    /\ IF conn_type_' = "HTTP" THEN ProcessHttp(b) ELSE ProcessProtobuf(b, c)
    BY <1>3 DEF OnRead
  <2>2. conn = "in" /\ received' = received
    BY <1>3 DEF OnRead
  <2>3. /\ conn_type_' \in {"HTTP", "PROTOBUF"}
        /\ conn_type_' # "HTTP" => conn_type_ # "HTTP"
    BY <2>1 DEF ConnType, Transfer
  <2>4. CASE conn_type_' = "HTTP"
    BY <1>3, <2>2, <2>4, ReadFacts, ProcessHttpTransfer
  <2>5. CASE conn_type_' # "HTTP"
    BY <2>1, <2>2, <2>3, <2>5, ProcessProtobufTransfer
  <2> QED BY <2>4, <2>5
<1>4. CASE OnWrite
  BY <1>4, WriteHttpTransfer, WriteProtobufTransfer DEF OnWrite
<1>5. CASE UNCHANGED vars
  BY <1>1, <1>5 DEF vars
<1> QED BY <1>2, <1>3, <1>4, <1>5 DEF Next

\* The inductive invariant.
LEMMA TransferInvariant == Spec => [](Reading /\ Transfer /\ Announced)
BY InitReading, NextReading, InitTransfer, NextTransfer, PTL DEF Spec

\* Every byte of every response that HttpHandler and ProtobufHandler make reaches the
\* client once and in order, whatever part of it each writev or write takes: for any
\* files, frames and requests, and however the buffer moves its bytes.
THEOREM ResponsesArriveInOrder == Spec => []SentInOrder
<1>1. Transfer => SentInOrder
  BY DEF Transfer, SentInOrder
<1> QED BY <1>1, TransferInvariant, PTL

\* With edge-triggered events OnWrite_ closes a connection exactly when it has sent, to
\* the last byte, a response whose header says "Connection: close".
THEOREM CloseIsAnnounced == Spec => []ClosedAsAnnounced
<1>1. Transfer /\ Announced => ClosedAsAnnounced
  <2> SUFFICES ASSUME Transfer, Announced, is_et
               PROVE  conn = "closed" <=> received = answers /\ Closes(answers)
    BY DEF ClosedAsAnnounced, Closes, Closing
  <2>1. /\ received \in Seq(Byte) /\ Unsent \in Seq(Byte) /\ received \o Unsent = answers
        /\ conn \in {"in", "out", "closed"} /\ (conn = "out" => Unsent # <<>>)
    BY UnsentFacts DEF Transfer
  <2>2. ASSUME conn = "closed" PROVE received = answers /\ Closes(answers)
    <3>1. Unsent = <<>> /\ Closes(answers)
      BY <2>2 DEF Announced
    <3> QED BY <2>1, <3>1, ConcatEmptySeq
  <2>3. ASSUME received = answers, Closes(answers) PROVE conn = "closed"
    <3>1. conn # "in"
      BY <2>3 DEF Announced
    <3>2. Len(received \o Unsent) = Len(received) + Len(Unsent) /\ Len(received) \in Nat
          /\ Len(Unsent) \in Nat
      BY <2>1, JoinFacts
    <3>3. Len(Unsent) = 0
      BY <2>1, <2>3, <3>2
    <3>4. \A s \in Seq(Byte) : Len(s) = 0 => s = <<>>
      OBVIOUS
    <3> QED BY <2>1, <3>1, <3>3, <3>4
  <2> QED BY <2>2, <2>3
<1> QED BY <1>1, TransferInvariant, PTL

----------------------------------------------------------------------------
(* What TryDecodeMessage takes.                                            *)

\* Reading the two digits of a length gives the length.
LEMMA LengthIsRead ==
    ASSUME NEW n \in Nat, NEW c, c[1] = Digit(n \div Radix), c[2] = Digit(n % Radix)
    PROVE  FrameLength(c) = n
<1>1. /\ "digit" \in DOMAIN c[1] /\ c[1].digit = n \div Radix
      /\ "digit" \in DOMAIN c[2] /\ c[2].digit = n % Radix
  BY SMT DEF Digit
<1> DEFINE q == n \div Radix
           r == n % Radix
<1>2. q \in Nat /\ r \in Nat /\ Radix \in Nat /\ q * Radix + r = n
  <2>1. Radix \in Nat /\ Radix > 0
    BY ClientAssumption, SMT
  <2>2. q \in Nat /\ r \in 0 .. Radix - 1 /\ n = Radix * q + r
    BY <2>1, SMT
  <2> HIDE DEF q, r
  <2> QED BY <2>1, <2>2, SMT
<1>3. \A i \in 1 .. kHeaderSize : i = 1 \/ i = 2
  BY ClientAssumption
<1>4. \A i \in 1 .. kHeaderSize : "digit" \in DOMAIN c[i]
  BY <1>1, <1>3
<1> HIDE DEF q, r
<1>5. c[1].digit * Radix + c[2].digit = n
  <2>1. c[1].digit = q /\ c[2].digit = r
    BY <1>1 DEF q, r
  <2> QED BY <1>2, <2>1, Zenon
<1> QED BY <1>4, <1>5 DEF FrameLength

\* A frame is the first of the bytes c that came and st that did not.
StartsWithFrame(c, st, h, p, r) ==
    /\ {c, st, h, p, r} \subseteq Seq(Byte)
    /\ Len(h) = 2 /\ c \o st = (h \o p) \o r

\* Its header is read as it was sent, its payload too once it is whole, and what
\* follows it is left.
TakesFrame(c, st, h, p, r) ==
    /\ Len(c) >= 2 => c[1] = h[1] /\ c[2] = h[2]
    /\ Len(c) >= 2 + Len(p) =>
          /\ SubSeq(c, 3, 2 + Len(p)) = p
          /\ SubSeq(c, 3 + Len(p), Len(c)) \in Seq(Byte)
          /\ SubSeq(c, 3 + Len(p), Len(c)) \o st = r

\* Where the bytes that came end makes no difference to the first frame.
LEMMA FrameIsFirst ==
    ASSUME NEW c, NEW st, NEW h, NEW p, NEW r, StartsWithFrame(c, st, h, p, r)
    PROVE  TakesFrame(c, st, h, p, r)
<1> DEFINE u == c \o st
           P == Len(p)
<1>0. /\ c \in Seq(Byte) /\ st \in Seq(Byte) /\ h \in Seq(Byte) /\ p \in Seq(Byte)
      /\ r \in Seq(Byte) /\ Len(h) = 2 /\ c \o st = (h \o p) \o r
  BY DEF StartsWithFrame
<1> USE <1>0
<1>1. /\ P \in Nat /\ Len(c) \in Nat /\ Len(st) \in Nat /\ Len(r) \in Nat
      /\ Len(c) + Len(st) = 2 + P + Len(r)
  <2>1. Len(c \o st) = Len(c) + Len(st)
    BY ConcatProperties
  <2>2. h \o p \in Seq(Byte) /\ Len(h \o p) = Len(h) + Len(p) /\ Len(p) \in Nat
    BY JoinFacts
  <2>3. Len((h \o p) \o r) = Len(h \o p) + Len(r)
    BY <2>2, ConcatProperties
  <2> QED BY <2>1, <2>2, <2>3
<1>2. /\ \A i \in 1 .. Len(c) : u[i] = c[i]
      /\ \A i \in 1 .. Len(st) : u[Len(c) + i] = st[i]
  BY JoinFacts
<1>3. /\ \A i \in 1 .. 2 : u[i] = h[i]
      /\ \A i \in 1 .. P : u[2 + i] = p[i]
      /\ \A i \in 1 .. Len(r) : u[2 + P + i] = r[i]
  <2> DEFINE hp == h \o p
  <2>0. /\ hp \in Seq(Byte) /\ Len(hp) = Len(h) + P
        /\ \A i \in 1 .. Len(h) : hp[i] = h[i]
        /\ \A i \in 1 .. P : hp[Len(h) + i] = p[i]
    BY JoinFacts
  <2>1. hp \in Seq(Byte) /\ Len(hp) = 2 + P
    BY <2>0
  <2>2. /\ \A i \in 1 .. 2 : hp[i] = h[i]
        /\ \A i \in 1 .. P : hp[2 + i] = p[i]
    BY <2>0
  <2> HIDE DEF hp
  <2>3. /\ \A i \in 1 .. 2 + P : u[i] = hp[i]
        /\ \A i \in 1 .. Len(r) : u[2 + P + i] = r[i]
    <3>1. u = hp \o r
      BY DEF hp
    <3>2. /\ \A i \in 1 .. Len(hp) : (hp \o r)[i] = hp[i]
          /\ \A i \in 1 .. Len(r) : (hp \o r)[Len(hp) + i] = r[i]
      BY <2>1, JoinFacts
    <3> HIDE DEF u
    <3> QED BY <2>1, <3>1, <3>2
  <2>4. /\ \A i \in 1 .. 2 : i \in 1 .. 2 + P
        /\ \A i \in 1 .. P : 2 + i \in 1 .. 2 + P
    BY <1>1
  <2> QED BY <2>2, <2>3, <2>4
<1> HIDE DEF u, P
<1>4. ASSUME Len(c) >= 2 PROVE c[1] = h[1] /\ c[2] = h[2]
  <2>1. 1 \in 1 .. 2 /\ 2 \in 1 .. 2 /\ 1 \in 1 .. Len(c) /\ 2 \in 1 .. Len(c)
    BY <1>1, <1>4
  <2> QED BY <1>2, <1>3, <2>1
<1>5. ASSUME Len(c) >= 2 + P PROVE SubSeq(c, 3, 2 + P) = p
  <2>1. 2 \in Nat /\ 2 + P \in Nat /\ 2 <= 2 + P /\ 2 + P <= Len(c)
    BY <1>1, <1>5
  <2> DEFINE s == SubSeq(c, 2 + 1, 2 + P)
  <2>2. s \in Seq(Byte) /\ Len(s) = P /\ \A i \in 1 .. P : s[i] = c[2 + i]
    BY <1>1, <2>1, CutFacts
  <2>3. \A i \in 1 .. P : 2 + i \in 1 .. Len(c)
    BY <1>1, <2>1
  <2>4. \A i \in 1 .. P : s[i] = p[i]
    BY <1>2, <1>3, <2>2, <2>3
  <2>5. s = p
    <3> HIDE DEF s
    <3> QED BY <2>2, <2>4, SeqEqual DEF P
  <2>6. 2 + 1 = 3
    OBVIOUS
  <2> QED BY <2>5, <2>6
<1>6. ASSUME Len(c) >= 2 + P
      PROVE  /\ SubSeq(c, 3 + P, Len(c)) \in Seq(Byte)
             /\ SubSeq(c, 3 + P, Len(c)) \o st = r
  <2> DEFINE n == 2 + P
             s == SubSeq(c, n + 1, Len(c))
  <2>1. n \in Nat /\ n <= Len(c) /\ Len(c) <= Len(c) /\ n + 1 = 3 + P
    BY <1>1, <1>6
  <2>2. s \in Seq(Byte) /\ Len(s) = Len(c) - n /\ \A i \in 1 .. Len(c) - n : s[i] = c[n + i]
    <3> HIDE DEF n
    <3> QED BY <1>1, <2>1, CutFacts
  <2> HIDE DEF s
  <2>3. /\ s \o st \in Seq(Byte) /\ Len(s \o st) = Len(r)
        /\ \A i \in 1 .. Len(s) : (s \o st)[i] = s[i]
        /\ \A i \in 1 .. Len(st) : (s \o st)[Len(s) + i] = st[i]
    <3>1. /\ s \o st \in Seq(Byte) /\ Len(s \o st) = Len(s) + Len(st)
          /\ \A i \in 1 .. Len(s) : (s \o st)[i] = s[i]
          /\ \A i \in 1 .. Len(st) : (s \o st)[Len(s) + i] = st[i]
      BY <2>2, JoinFacts
    <3> QED BY <1>1, <2>1, <2>2, <3>1
  <2>4. ASSUME NEW i \in 1 .. Len(r) PROVE (s \o st)[i] = r[i]
    <3>1. r[i] = u[n + i]
      BY <1>3
    <3>2. CASE i <= Len(s)
      <4>1. i \in 1 .. Len(s) /\ i \in 1 .. Len(c) - n /\ n + i \in 1 .. Len(c)
        BY <1>1, <2>1, <2>2, <3>2
      <4> QED BY <1>2, <2>2, <2>3, <3>1, <4>1
    <3>3. CASE ~(i <= Len(s))
      <4> DEFINE j == i - Len(s)
      <4>1. j \in 1 .. Len(st) /\ i = Len(s) + j /\ n + i = Len(c) + j
        BY <1>1, <2>1, <2>2, <3>3
      <4> HIDE DEF j, n
      <4> QED BY <1>2, <2>3, <3>1, <4>1
    <3> QED BY <3>2, <3>3
  <2>5. s \o st = r
    BY <2>3, <2>4, SeqEqual
  <2> QED BY <2>1, <2>2, <2>5 DEF s
<1> QED BY <1>4, <1>5, <1>6 DEF P, TakesFrame

\* While frames come, the buffer is sound and stays at a frame boundary.
Framed(n) ==
    /\ n \in 0 .. Len(script)
    /\ got = Requests(script, n)
    /\ (Contents(read_buff_) \o socket) \o stream = EncodeFrom(script, n)

Framing ==
    /\ script \in Scripts
    /\ FramesFit /\ conn_type_ # "HTTP" =>
          /\ read_buff_ \in Buffers /\ socket \in Seq(Byte) /\ stream \in Seq(Byte)
          /\ \E n : Framed(n)

\* At the start no byte has come.
LEMMA InitFraming == Init => Framing
<1> SUFFICES ASSUME Init PROVE Framing
  OBVIOUS
<1>1. /\ script \in Scripts /\ stream = EncodeFrom(script, 0) /\ socket = <<>> /\ got = <<>>
      /\ read_buff_ = NewBuffer(InitSize)
  BY DEF Init
<1>2. read_buff_ \in Buffers /\ Contents(read_buff_) = <<>>
  BY <1>1, NewBufferIsEmpty, ProtocolAssumption
<1>3. 0 \in 0 .. Len(script) /\ stream \in Seq(Byte) /\ Len(script) \in Nat
  BY <1>1, ScriptFacts
<1>4. (<<>> \o <<>>) \o stream = stream
  BY <1>3
<1>5. Framed(0)
  BY <1>1, <1>2, <1>3, <1>4, RequestsStep DEF Framed
<1>6. socket \in Seq(Byte)
  BY <1>1
<1> QED BY <1>1, <1>2, <1>3, <1>5, <1>6 DEF Framing

\* The bytes move on: nothing is taken.
LEMMA FramedMoves ==
    ASSUME NEW n, Framed(n), UNCHANGED <<script, got>>,
           (Contents(read_buff_') \o socket') \o stream' =
               (Contents(read_buff_) \o socket) \o stream
    PROVE  Framed(n)'
BY DEF Framed

\* TCP delivers any part of the stream.
LEMMA ArriveFraming ==
    ASSUME Framing, NEW k \in 1 .. Len(stream), Arrive(k)
    PROVE  Framing'
<1>1. /\ socket' = socket \o SubSeq(stream, 1, k)
      /\ stream' = SubSeq(stream, k + 1, Len(stream))
      /\ UNCHANGED <<script, read_buff_, conn_type_, got>>
  BY DEF Arrive
<1>2. script' \in Scripts /\ (FramesFit' <=> FramesFit)
  BY <1>1 DEF Framing, FramesFit
<1>3. ASSUME FramesFit, conn_type_ # "HTTP"
      PROVE  /\ read_buff_' \in Buffers /\ socket' \in Seq(Byte) /\ stream' \in Seq(Byte)
             /\ \E n : Framed(n)'
  <2> DEFINE a == SubSeq(stream, 1, k)
             z == SubSeq(stream, k + 1, Len(stream))
             b == Contents(read_buff_)
  <2>1. /\ read_buff_ \in Buffers /\ socket \in Seq(Byte) /\ stream \in Seq(Byte)
        /\ \E n : Framed(n)
    BY <1>3 DEF Framing
  <2>2. b \in Seq(Byte)
    BY <2>1, ContentsFacts
  <2>3. a \in Seq(Byte) /\ z \in Seq(Byte) /\ a \o z = stream
    <3>1. (<<>> \o a) \o z = <<>> \o stream
      BY <2>1, SendPrefix
    <3>2. 0 \in Nat /\ k \in Nat /\ 0 <= k /\ k <= Len(stream) /\ Len(stream) \in Nat
          /\ Len(stream) <= Len(stream) /\ 0 + 1 = 1
      BY <2>1
    <3>3. SubSeq(stream, 0 + 1, k) \in Seq(Byte) /\ z \in Seq(Byte)
      BY <2>1, <3>2, CutFacts
    <3>4. a \in Seq(Byte)
      BY <3>2, <3>3
    <3> HIDE DEF a, z
    <3> QED BY <2>1, <3>1, <3>3, <3>4
  <2> HIDE DEF a, z, b
  <2>4. socket \o a \in Seq(Byte) /\ (b \o (socket \o a)) \o z = (b \o socket) \o (a \o z)
    <3>1. b \o socket \in Seq(Byte) /\ socket \o a \in Seq(Byte)
      BY <2>1, <2>2, <2>3, JoinFacts
    <3>2. b \o (socket \o a) = (b \o socket) \o a
      <4>1. socket \in Seq(Byte) /\ a \in Seq(Byte)
        BY <2>1, <2>3
      <4> QED BY ONLY <2>2, <4>1, ConcatAssociative, SMTT(30)
    <3> DEFINE d == b \o socket
    <3> HIDE DEF d
    <3>3. (d \o a) \o z = d \o (a \o z)
      <4>1. d \in Seq(Byte)
        BY <3>1 DEF d
      <4>2. a \in Seq(Byte) /\ z \in Seq(Byte)
        BY <2>3
      <4> QED BY <4>1, <4>2, ConcatAssociative
    <3> USE DEF d
    <3> QED BY <3>1, <3>2, <3>3
  <2>5. PICK n : Framed(n)
    BY <2>1
  <2>6. (Contents(read_buff_') \o socket') \o stream' = (Contents(read_buff_) \o socket) \o stream
    BY <1>1, <2>3, <2>4 DEF a, z, b
  <2>7. Framed(n)'
    BY <1>1, <2>5, <2>6, FramedMoves
  <2> QED BY <1>1, <2>1, <2>3, <2>4, <2>7 DEF a, z
<1> QED BY <1>1, <1>2, <1>3 DEF Framing

\* TryDecodeMessage takes a whole frame, whether it parses or not, and nothing else.
LEMMA DecodeFraming ==
    ASSUME Framing, FramesFit, conn_type_ # "HTTP", NEW b \in Buffers, NEW c \in Seq(Byte),
           c = Contents(b), c = Contents(read_buff_) \o socket, ProcessProtobuf(b, c),
           socket' = <<>>, UNCHANGED <<script, stream>>
    PROVE  read_buff_' \in Buffers /\ \E n : Framed(n)'
<1>1. /\ script \in Scripts /\ stream \in Seq(Byte)
      /\ \E n : Framed(n)
  BY DEF Framing
<1>2. PICK n : Framed(n)
  BY <1>1
<1>3. /\ n \in 0 .. Len(script) /\ got = Requests(script, n)
      /\ c \o stream = EncodeFrom(script, n)
      /\ Len(script) \in Nat /\ DOMAIN script = 1 .. Len(script)
  BY <1>1, <1>2, ScriptFacts DEF Framed
<1>4. Len(c) \in Nat /\ Len(c) = Readable(b)
  BY ContentsFacts
<1>5. ASSUME read_buff_' = b, got' = got PROVE read_buff_' \in Buffers /\ Framed(n)'
  <2>1. (Contents(read_buff_') \o socket') \o stream' = c \o stream
    <3>1. c \o <<>> = c
      BY ConcatEmptySeq
    <3> QED BY <1>5, <3>1
  <2> QED BY <1>2, <1>5, <2>1, FramedMoves
<1>6. CASE Len(c) < 2
  <2>1. ~HasMessage(c)
    BY <1>4, <1>6, ClientAssumption DEF HasMessage
  <2>2. read_buff_' = b /\ got' = got
    BY <1>6, <2>1, ClientAssumption DEF ProcessProtobuf, NoMessage
  <2> QED BY <1>5, <2>2
<1>7. CASE ~(Len(c) < 2)
  <2> DEFINE m == script[n + 1]
             p == m.payload
             h == <<Digit(Len(p) \div Radix), Digit(Len(p) % Radix)>>
             r == EncodeFrom(script, n + 1)
  <2>1. n \in 0 .. Len(script) - 1 /\ n + 1 \in 1 .. Len(script) /\ n + 1 \in 0 .. Len(script)
    <3>1. n # Len(script)
      <4>1. ASSUME n = Len(script) PROVE FALSE
        <5>1. c \o stream = <<>>
          BY <1>3, <4>1, EncodeFromStep
        <5>2. Len(c \o stream) = Len(c) + Len(stream) /\ Len(stream) \in Nat
          BY <1>1, JoinFacts
        <5> QED BY <1>4, <1>7, <5>1, <5>2
      <4> QED BY <4>1
    <3>2. n \in 0 .. Len(script) /\ Len(script) \in Nat
      BY <1>3
    <3> QED BY <3>1, <3>2
  <2>2. /\ IsFrame(m) /\ Len(p) <= kMaxMessageSize /\ p \in Seq(Byte) /\ Encode(m) \in Seq(Byte)
        /\ Len(p) \in Nat
    <3>1. IsFrame(m) /\ ~Oversized(m)
      BY <1>3, <2>1 DEF FramesFit
    <3>2. InBytes(m)
      BY <1>1, <2>1, ScriptFacts
    <3>3. p \in Seq(Byte) /\ Encode(m) \in Seq(Byte)
      BY <3>1, <3>2 DEF InBytes
    <3>4. Len(p) \in Nat /\ kMaxMessageSize \in Nat
      BY <3>3, ClientAssumption
    <3> QED BY <3>1, <3>3, <3>4 DEF Oversized
  <2>3. Encode(m) = h \o p
    BY <2>2 DEF Encode, EncodeFrame
  <2>4. Len(h) = 2 /\ h[1] = Digit(Len(p) \div Radix) /\ h[2] = Digit(Len(p) % Radix)
    OBVIOUS
  <2>5. h \in Seq(Byte)
    <3> DEFINE d == Digit(Len(p) \div Radix)
               e == Digit(Len(p) % Radix)
    <3> HIDE DEF d, e
    <3>1. h = <<d, e>>
      BY DEF d, e
    <3>2. <<d, e>> \o p \in Seq(Byte)
      BY <2>2, <2>3, <3>1
    <3> HIDE DEF h, m, p
    <3>3. <<d, e>> \in Seq(Byte \cup {d, e}) /\ p \in Seq(Byte \cup {d, e})
      BY <2>2
    <3>4. Len(<<d, e>> \o p) = 2 + Len(p) /\ (<<d, e>> \o p)[1] = d /\ (<<d, e>> \o p)[2] = e
      BY <2>2, <3>3, ConcatProperties
    <3>5. d \in Byte /\ e \in Byte
      BY <2>2, <3>2, <3>4
    <3> QED BY <3>1, <3>5
  <2>6. c \o stream = (h \o p) \o r /\ r \in Seq(Byte)
    BY <1>1, <1>3, <2>1, <2>3, EncodeFromStep, ScriptFacts
  <2> HIDE DEF h, m, p, r
  <2>10. StartsWithFrame(c, stream, h, p, r)
    BY <1>1, <2>2, <2>4, <2>5, <2>6 DEF StartsWithFrame
  <2>11. /\ Len(c) >= 2 => c[1] = h[1] /\ c[2] = h[2]
         /\ Len(c) >= 2 + Len(p) =>
               /\ SubSeq(c, 3, 2 + Len(p)) = p
               /\ SubSeq(c, 3 + Len(p), Len(c)) \in Seq(Byte)
               /\ SubSeq(c, 3 + Len(p), Len(c)) \o stream = r
    <3>1. TakesFrame(c, stream, h, p, r)
      BY <2>10, FrameIsFirst
    <3> QED BY <3>1 DEF TakesFrame
  <2>7. FrameLength(c) = Len(p)
    <3>0. Len(c) >= 2
      BY <1>4, <1>7
    <3>1. c[1] = h[1] /\ c[2] = h[2]
      BY <2>11, <3>0
    <3> QED BY <2>2, <2>4, <3>1, LengthIsRead
  <2>8. CASE Len(c) < 2 + Len(p)
    <3>1. ~HasMessage(c)
      BY <1>4, <2>2, <2>7, <2>8, ClientAssumption DEF HasMessage
    <3>2. read_buff_' = b /\ got' = got
      BY <1>4, <1>7, <2>2, <2>7, <2>8, <3>1, ClientAssumption DEF ProcessProtobuf, NoMessage
    <3> QED BY <1>5, <3>2
  <2>9. CASE ~(Len(c) < 2 + Len(p))
    <3> DEFINE rest == SubSeq(c, 3 + Len(p), Len(c))
    <3>1. SubSeq(c, 3, 2 + Len(p)) = p /\ rest \in Seq(Byte) /\ rest \o stream = r
      <4>1. Len(c) >= 2 + Len(p)
        BY <1>4, <2>2, <2>9
      <4> QED BY <2>11, <4>1
    <3>2. Len(c) >= 2 /\ Len(c) >= 2 + Len(p) /\ ~(Len(c) < 2) /\ ~(Len(p) > kMaxMessageSize)
      BY <1>4, <1>7, <2>2, <2>9, ClientAssumption
    <3>3. kHeaderSize = 2 /\ kHeaderSize + 1 = 3
      BY ClientAssumption
    <3>4. SubSeq(c, kHeaderSize + 1, kHeaderSize + FrameLength(c)) = p
      BY <2>7, <3>1, <3>3
    <3>5. HasMessage(c) <=> p \in DOMAIN Envelope
      BY <2>2, <2>7, <3>2, <3>3, <3>4 DEF HasMessage
    <3>6. read_buff_' = Retrieve(b, 2 + Len(p)) /\ got' = AndRequest(got, m)
      <4>1. CASE p \in DOMAIN Envelope
        <5>1. read_buff_' = Retrieve(b, 2 + Len(p)) /\ got' = Append(got, p)
          BY <2>7, <3>3, <3>4, <3>5, <4>1 DEF ProcessProtobuf
        <5>2. AndRequest(got, m) = Append(got, p)
          BY <2>2, <4>1 DEF AndRequest, MeantBy, p
        <5> QED BY <5>1, <5>2
      <4>2. CASE p \notin DOMAIN Envelope
        <5>1. read_buff_' = Retrieve(b, 2 + Len(p)) /\ got' = got
          <6>1. ~HasMessage(c)
            BY <3>5, <4>2
          <6>2. NoMessage(b, c)
            BY <6>1, Zenon DEF ProcessProtobuf
          <6> QED BY <2>7, <3>2, <3>3, <6>2 DEF NoMessage
        <5>2. AndRequest(got, m) = got
          BY <2>2, <4>2, SMT DEF AndRequest, p
        <5> QED BY <5>1, <5>2
      <4> QED BY <4>1, <4>2
    <3>7. read_buff_' \in Buffers /\ Contents(read_buff_') = rest
      <4>1. 2 + Len(p) \in 0 .. Readable(b) /\ (2 + Len(p)) + 1 = 3 + Len(p)
        BY <1>4, <2>2, <3>2
      <4> QED BY <1>4, <3>6, <4>1, RetrieveDrops
    <3>8. (Contents(read_buff_') \o socket') \o stream' = r
      <4> HIDE DEF rest
      <4>1. rest \o <<>> = rest
        BY <3>1, ConcatEmptySeq
      <4> QED BY <3>1, <3>7, <4>1
    <3>9. got' = Requests(script, n + 1)
      <4>1. Requests(script, n + 1) = AndRequest(Requests(script, n), m)
        <5>1. n + 1 - 1 = n /\ n + 1 \in 1 .. Len(script)
          BY <1>3, <2>1
        <5> QED BY <1>3, <5>1, RequestsStep DEF m
      <4> QED BY <1>3, <3>6, <4>1
    <3>10. Framed(n + 1)'
      BY <2>1, <3>8, <3>9 DEF Framed, r
    <3> QED BY <3>7, <3>10
  <2> QED BY <2>8, <2>9
<1> QED BY <1>5, <1>6, <1>7

\* OnRead_ reads the socket empty into the buffer and lets the handler run.
LEMMA ReadFraming ==
    ASSUME Framing, OnRead
    PROVE  Framing'
<1>1. UNCHANGED <<script, stream>> /\ socket' = <<>>
  BY DEF OnRead
<1>2. script' \in Scripts /\ (FramesFit' <=> FramesFit)
  BY <1>1 DEF Framing, FramesFit
<1>3. ASSUME FramesFit, conn_type_' # "HTTP"
      PROVE  /\ read_buff_' \in Buffers /\ socket' \in Seq(Byte) /\ stream' \in Seq(Byte)
             /\ \E n : Framed(n)'
  <2> DEFINE b == ReadFd(read_buff_, socket)
             c == Contents(b)
  <2>1. conn_type_' = ConnType(c)
    BY DEF OnRead
  <2>2. conn_type_ # "HTTP"
    BY <1>3, <2>1 DEF ConnType
  <2>3. read_buff_ \in Buffers /\ socket \in Seq(Byte) /\ stream \in Seq(Byte)
    BY <1>3, <2>2 DEF Framing
  <2>4. b \in Buffers /\ c = Contents(read_buff_) \o socket
    BY <2>3, ReadFdAppends
  <2>5. c \in Seq(Byte)
    BY <2>4, ContentsFacts
  <2>6. ProcessProtobuf(b, c)
    BY <1>3 DEF OnRead
  <2> HIDE DEF b
  <2>7. read_buff_' \in Buffers /\ \E n : Framed(n)'
    BY <1>1, <1>3, <2>2, <2>4, <2>5, <2>6, DecodeFraming
  <2> QED BY <1>1, <2>3, <2>7
<1> QED BY <1>2, <1>3 DEF Framing

\* Writing a response touches none of it.
LEMMA QuietFraming ==
    ASSUME Framing, UNCHANGED <<script, stream, socket, read_buff_, conn_type_, got>>
    PROVE  Framing'
BY DEF Framing, Framed, FramesFit

\* Every step keeps Framing.
LEMMA NextFraming == Framing /\ [Next]_vars => Framing'
<1> SUFFICES ASSUME Framing, [Next]_vars PROVE Framing'
  OBVIOUS
<1>1. ASSUME NEW k \in 1 .. Len(stream), Arrive(k) PROVE Framing'
  BY <1>1, ArriveFraming
<1>2. CASE OnRead
  BY <1>2, ReadFraming
<1>3. ASSUME NEW k \in 1 .. Len(Unsent), WriteHttp(k) \/ WriteProtobuf(k) PROVE Framing'
  BY <1>3, QuietFraming DEF WriteHttp, WriteProtobuf
<1>4. CASE UNCHANGED vars
  BY <1>4, QuietFraming DEF vars
<1> QED BY <1>1, <1>2, <1>3, <1>4 DEF Next, OnWrite

\* However TCP cuts the stream and however the buffer moves its bytes, TryDecodeMessage
\* takes the frames that were sent and stays at a frame boundary, for every script whose
\* frames keep to kMaxMessageSize.
THEOREM FramesAreTaken == Spec => []FramesAsSent
<1>1. Framing => FramesAsSent
  <2> SUFFICES ASSUME Framing, conn_type_ = "PROTOBUF", FramesFit
               PROVE  \E n \in 0 .. Len(script) : HasTaken(n)
    BY DEF FramesAsSent
  <2>1. PICK n : Framed(n)
    BY DEF Framing
  <2>2. n \in 0 .. Len(script) /\ HasTaken(n)
    BY <2>1 DEF Framed, HasTaken, Unread
  <2> QED BY <2>2
<1> QED BY <1>1, InitFraming, NextFraming, PTL DEF Spec

----------------------------------------------------------------------------
(* What HttpRequest::parse takes.                                          *)

AllFrames == \A i \in DOMAIN script : IsFrame(script[i])

AllRequests == \A i \in DOMAIN script : IsRequest(script[i])

\* The first n requests were taken, and nothing else has come; or the nth has come.
Idle(n) ==
    /\ n \in 0 .. Len(script) /\ socket = <<>> /\ Contents(read_buff_) = <<>>
    /\ stream = EncodeFrom(script, n) /\ got = Requests(script, n)

Arrived(n) ==
    /\ n \in 1 .. Len(script) /\ conn = "in" /\ socket = Encode(script[n])
    /\ Contents(read_buff_) = <<>> /\ stream = EncodeFrom(script, n)
    /\ got = Requests(script, n - 1)

\* Frames are never taken for requests; requests that come whole are taken as requests.
Understood ==
    /\ AllFrames =>
          /\ conn_type_ # "HTTP"
          /\ conn_type_ = "NONE" => /\ Contents(read_buff_) = <<>>
                                    /\ socket \o stream = EncodeFrom(script, 0)
    /\ AllRequests /\ clean =>
          conn_type_ # "PROTOBUF" /\ \E n : Idle(n) \/ Arrived(n)

LEMMA RequestFacts ==
    ASSUME NEW m, IsRequest(m)
    PROVE  /\ Encode(m) = EncodeRequest(m) /\ Len(EncodeRequest(m)) \in Nat
           /\ Len(EncodeRequest(m)) >= 3 /\ IsHttpRequest(EncodeRequest(m))
<1> DEFINE x == RequestLine(m)
           y == CRLF \o (Joined(HeaderLines(m), 0) \o (CRLF \o m.body))
           e == EncodeRequest(m)
<1>1. Encode(m) = e
  BY DEF Encode, IsRequest
<1>2. Len(e) \in Nat /\ Len(e) >= 3
  BY EncodeRequestLength, RestFacts
<1>3. x \in Seq(Symbol) /\ Len(x) = 4 /\ m.method = <<x[1], x[2]>> /\ m.method \in {Get, Post}
  BY RequestLineFacts DEF IsRequest
<1>4. y \in Seq(Symbol)
  <2>1. m.body \in Seq(Symbol) /\ Joined(HeaderLines(m), 0) \in Seq(Symbol)
    BY RestFacts
  <2>2. CRLF \in Seq(Symbol)
    BY DEF CRLF, Symbol
  <2> DEFINE j == Joined(HeaderLines(m), 0)
             k == CRLF
             d == m.body
  <2> HIDE DEF j, k, d
  <2>3. j \in Seq(Symbol) /\ k \in Seq(Symbol) /\ d \in Seq(Symbol)
    BY <2>1, <2>2 DEF j, k, d
  <2>4. k \o (j \o (k \o d)) \in Seq(Symbol)
    BY ONLY <2>3
  <2> QED BY <2>4 DEF j, k, d
<1>5. e = x \o y
  BY DEF EncodeRequest
<1> HIDE DEF x, y, e
<1>6. e[1] = x[1] /\ e[2] = x[2]
  <2>1. \A i \in 1 .. Len(x) : (x \o y)[i] = x[i]
    BY ONLY <1>3, <1>4, JoinSymbols
  <2>2. 1 \in 1 .. 4 /\ 2 \in 1 .. 4
    OBVIOUS
  <2> QED BY <1>3, <1>5, <2>1, <2>2
<1>7. <<e[1], e[2]>> = m.method
  BY <1>3, <1>6
<1>8. Len(e) >= 2
  BY <1>2
<1>9. IsHttpRequest(e)
  BY <1>3, <1>7, <1>8 DEF IsHttpRequest
<1> QED BY <1>1, <1>2, <1>9 DEF e

\* A later part of the script is shorter.
LEMMA EncodeFromShrinks ==
    ASSUME NEW s \in Scripts, \A i \in DOMAIN s : IsRequest(s[i])
    PROVE  \A i, j \in 0 .. Len(s) : EncodeFrom(s, i) = EncodeFrom(s, j) => i = j
<1> DEFINE N == Len(s)
           L(i) == Len(EncodeFrom(s, i))
<1>1. /\ N \in Nat /\ DOMAIN s = 1 .. N
      /\ \A i \in 0 .. N : EncodeFrom(s, i) \in Seq(Byte)
  BY ScriptFacts
<1>2. \A i \in 0 .. N : L(i) \in Nat
  BY <1>1
<1>3. ASSUME NEW i \in 0 .. N - 1 PROVE L(i) >= L(i + 1) + 1
  <2> DEFINE m == s[i + 1]
             p == Encode(m)
             q == EncodeFrom(s, i + 1)
  <2>1. i + 1 \in 1 .. N /\ i + 1 \in 0 .. N
    BY <1>1
  <2>2. IsRequest(m) /\ InBytes(m)
    BY <1>1, <2>1, ScriptFacts
  <2>3. p \in Seq(Byte) /\ Len(p) \in Nat /\ Len(p) >= 3 /\ q \in Seq(Byte)
    BY <1>1, <2>1, <2>2, RequestFacts DEF InBytes
  <2>4. EncodeFrom(s, i) = p \o q
    BY <1>1, EncodeFromStep
  <2> HIDE DEF p, q, m
  <2>5. Len(p \o q) = Len(p) + Len(q) /\ Len(q) \in Nat
    BY ONLY <2>3, JoinFacts
  <2>6. Len(p \o q) >= Len(q) + 1
    BY ONLY <2>3, <2>5, SMT
  <2> QED BY <2>4, <2>6 DEF q
<1> HIDE DEF L, N
<1> DEFINE S == {d \in 0 .. N : \A i \in 0 .. N : i + d <= N => L(i) >= L(i + d) + d}
<1>4. 0 \in S
  <2>1. \A i \in 0 .. N : i + 0 = i
    OBVIOUS
  <2>2. \A i \in 0 .. N : L(i) >= L(i) + 0
    BY <1>2
  <2> QED BY <1>1, <2>1, <2>2
<1>5. \A d \in 1 .. N : d - 1 \in S => d \in S
  <2> SUFFICES ASSUME NEW d \in 1 .. N, d - 1 \in S PROVE d \in S
    OBVIOUS
  <2>0. d \in 0 .. N
    BY <1>1
  <2> SUFFICES ASSUME NEW i \in 0 .. N, i + d <= N PROVE L(i) >= L(i + d) + d
    BY <2>0
  <2>1. /\ i \in 0 .. N - 1 /\ i + 1 \in 0 .. N /\ (i + 1) + (d - 1) <= N
        /\ (i + 1) + (d - 1) = i + d /\ i + d \in 0 .. N
    BY <1>1
  <2>2. L(i + 1) >= L((i + 1) + (d - 1)) + (d - 1)
    BY <2>1
  <2>3. L(i) >= L(i + 1) + 1
    BY <1>3, <2>1
  <2>4. L(i) \in Nat /\ L(i + 1) \in Nat /\ L(i + d) \in Nat
    BY <1>2, <2>1
  <2>5. L(i + 1) >= L(i + d) + (d - 1)
    BY <2>1, <2>2
  <2> QED BY <1>1, <2>3, <2>4, <2>5
<1>6. \A d \in 0 .. N : d \in S
  <2> HIDE DEF S
  <2> QED BY <1>1, <1>4, <1>5, Induction
<1>7. ASSUME NEW i \in 0 .. N, NEW j \in 0 .. N, i < j PROVE EncodeFrom(s, i) # EncodeFrom(s, j)
  <2>1. j - i \in 1 .. N /\ j - i \in 0 .. N /\ i + (j - i) = j /\ i + (j - i) <= N
    BY <1>1, <1>7
  <2>2. L(i) >= L(i + (j - i)) + (j - i)
    BY <1>6, <2>1
  <2>3. L(i) >= L(j) + (j - i)
    BY <2>1, <2>2
  <2>4. L(i) # L(j)
    BY <1>2, <2>1, <2>3
  <2> QED BY <2>4 DEF L
<1>8. ASSUME NEW i \in 0 .. N, NEW j \in 0 .. N, EncodeFrom(s, i) = EncodeFrom(s, j)
      PROVE  i = j
  <2>1. ~(i < j) /\ ~(j < i)
    BY <1>7, <1>8
  <2> QED BY <1>1, <2>1
<1> QED BY <1>8 DEF N

\* The bytes of frames begin with a digit.
LEMMA FramesAreNoRequest ==
    ASSUME NEW s \in Scripts, \A i \in DOMAIN s : IsFrame(s[i]),
           NEW c \in Seq(Byte), NEW st \in Seq(Byte), c \o st = EncodeFrom(s, 0)
    PROVE  ~IsHttpRequest(c)
<1> SUFFICES ASSUME Len(c) >= 2 PROVE <<c[1], c[2]>> \notin {Get, Post}
  BY DEF IsHttpRequest
<1>1. Len(s) \in Nat /\ DOMAIN s = 1 .. Len(s) /\ 0 \in 0 .. Len(s) /\ Len(c) \in Nat
  BY ScriptFacts
<1> DEFINE u == c \o st
<1>2. u \in Seq(Byte) /\ Len(u) = Len(c) + Len(st) /\ Len(st) \in Nat
      /\ \A i \in 1 .. Len(c) : u[i] = c[i]
  BY JoinFacts
<1>3. u = EncodeFrom(s, 0)
  OBVIOUS
<1> HIDE DEF u
<1>4. u # <<>> /\ u[1] = c[1]
  <2>1. 1 \in 1 .. Len(c) /\ Len(u) # 0
    BY <1>1, <1>2
  <2> QED BY <1>2, <2>1
<1>5. Len(s) # 0
  <2>1. ASSUME Len(s) = 0 PROVE FALSE
    <3>1. EncodeFrom(s, Len(s)) = <<>>
      BY <1>1, EncodeFromStep
    <3> QED BY <1>3, <1>4, <2>1, <3>1
  <2> QED BY <2>1
<1>6. 0 \in 0 .. Len(s) - 1 /\ 0 + 1 = 1 /\ 1 \in 1 .. Len(s) /\ 1 \in 0 .. Len(s)
  BY <1>1, <1>5
<1> DEFINE m == s[1]
           d == Digit(Len(m.payload) \div Radix)
           e == Digit(Len(m.payload) % Radix)
           h == m.payload
           r == EncodeFrom(s, 1)
<1>7. IsFrame(m) /\ InBytes(m)
  BY <1>1, <1>6, ScriptFacts
<1>8. h \in Seq(Byte) /\ r \in Seq(Byte) /\ u = Encode(m) \o r /\ Encode(m) \in Seq(Byte)
  <2>1. h \in Seq(Byte) /\ Encode(m) \in Seq(Byte)
    BY <1>7 DEF InBytes
  <2>2. EncodeFrom(s, 0) = Encode(s[0 + 1]) \o EncodeFrom(s, 0 + 1)
    BY <1>1, <1>6, EncodeFromStep
  <2>3. r \in Seq(Byte)
    BY <1>6, ScriptFacts
  <2> QED BY <1>3, <1>6, <2>1, <2>2, <2>3
<1>9. Encode(m) = <<d, e>> \o h
  BY <1>7 DEF Encode, EncodeFrame
<1>10. c[1] = d
  <2> DEFINE x == Encode(m)
             B == Byte \cup {d, e}
  <2> HIDE DEF d, e, h, m, r
  <2>1. <<d, e>> \in Seq(B) /\ h \in Seq(B)
    BY <1>8
  <2> HIDE DEF B
  <2>2. Len(<<d, e>> \o h) = 2 + Len(h) /\ (<<d, e>> \o h)[1] = d /\ Len(h) \in Nat
    BY <2>1, ConcatProperties
  <2>3. x[1] = d /\ Len(x) \in Nat /\ 1 \in 1 .. Len(x)
    BY <1>9, <2>2
  <2>4. x \in Seq(Byte) /\ u = x \o r
    BY <1>8
  <2> HIDE DEF x
  <2>5. \A i \in 1 .. Len(x) : (x \o r)[i] = x[i]
    BY ONLY <1>8, <2>4, JoinFacts
  <2> QED BY <1>4, <2>3, <2>4, <2>5
<1>11. d # Text("GE") /\ d # Text("PO")
  <2>1. "digit" \in DOMAIN d /\ "digit" \notin DOMAIN Text("GE")
        /\ "digit" \notin DOMAIN Text("PO")
    BY DEF Digit, Text
  <2> QED BY <2>1
<1> HIDE DEF d
<1>12. \A a, b, x, y : <<a, b>> = <<x, y>> => a = x
  OBVIOUS
<1> QED BY <1>10, <1>11, <1>12 DEF Get, Post

LEMMA InitUnderstood == Init => Understood
<1> SUFFICES ASSUME Init PROVE Understood
  OBVIOUS
<1>1. /\ script \in Scripts /\ stream = EncodeFrom(script, 0) /\ socket = <<>> /\ got = <<>>
      /\ read_buff_ = NewBuffer(InitSize) /\ conn_type_ = "NONE"
  BY DEF Init
<1>2. Contents(read_buff_) = <<>>
  BY <1>1, NewBufferIsEmpty, ProtocolAssumption
<1>3. 0 \in 0 .. Len(script) /\ stream \in Seq(Byte) /\ Requests(script, 0) = <<>>
  <2>1. Len(script) \in Nat
    BY <1>1, ScriptFacts
  <2>2. 0 \in 0 .. Len(script)
    BY <2>1
  <2> QED BY <1>1, <2>1, <2>2, ScriptFacts, RequestsStep
<1>4. <<>> \o stream = stream
  BY <1>3
<1>5. Idle(0)
  BY <1>1, <1>2, <1>3 DEF Idle
<1> QED BY <1>1, <1>2, <1>4, <1>5 DEF Understood

\* The network delivers some of the stream; if it is the next request, that is there.
LEMMA ArriveUnderstood ==
    ASSUME Reading, Understood, NEW k \in 1 .. Len(stream), Arrive(k)
    PROVE  Understood'
<1> DEFINE a == SubSeq(stream, 1, k)
           z == SubSeq(stream, k + 1, Len(stream))
<1>1. /\ socket' = socket \o a /\ stream' = z
      /\ UNCHANGED <<script, read_buff_, conn_type_, conn, got>>
  BY DEF Arrive
<1>2. script \in Scripts /\ socket \in Seq(Byte) /\ stream \in Seq(Byte)
  BY DEF Reading
<1>3. a \in Seq(Byte) /\ Len(a) = k /\ z \in Seq(Byte) /\ a \o z = stream
  BY <1>2, CutStream
<1>4. (AllFrames' <=> AllFrames) /\ (AllRequests' <=> AllRequests)
  BY <1>1 DEF AllFrames, AllRequests
<1>5. Contents(read_buff_)' = Contents(read_buff_)
  BY <1>1 DEF Contents
<1>6. ASSUME AllFrames
      PROVE  /\ conn_type_ # "HTTP"
             /\ conn_type_ = "NONE" => /\ Contents(read_buff_) = <<>>
                                       /\ socket' \o stream' = EncodeFrom(script, 0)
  <2>1. (socket \o a) \o z = socket \o (a \o z)
    <3>1. \A x, y, w \in Seq(Byte) : (x \o y) \o w = x \o (y \o w)
      BY ConcatAssociative
    <3> QED BY <1>2, <1>3, <3>1
  <2> QED BY <1>1, <1>3, <1>6, <2>1 DEF Understood
<1>7. ASSUME AllRequests, clean' PROVE conn_type_ # "PROTOBUF" /\ \E n : Arrived(n)'
  <2>1. /\ clean /\ socket = <<>> /\ conn = "in"
        /\ \E j \in 1 .. Len(script) : stream = EncodeFrom(script, j - 1)
                                       /\ k = Len(Encode(script[j]))
    BY <1>7 DEF Arrive
  <2>2. PICK j \in 1 .. Len(script) : stream = EncodeFrom(script, j - 1)
                                      /\ k = Len(Encode(script[j]))
    BY <2>1
  <2>3. conn_type_ # "PROTOBUF" /\ \E n : Idle(n) \/ Arrived(n)
    BY <1>7, <2>1 DEF Understood
  <2>4. PICK n : Idle(n) \/ Arrived(n)
    BY <2>3
  <2>5. /\ Len(script) \in Nat /\ DOMAIN script = 1 .. Len(script)
        /\ \A i \in 1 .. Len(script) : IsRequest(script[i]) /\ InBytes(script[i])
    BY <1>2, <1>7, ScriptFacts DEF AllRequests
  <2>6. Idle(n)
    <3>1. ASSUME Arrived(n) PROVE FALSE
      <4>1. n \in 1 .. Len(script) /\ Encode(script[n]) = <<>>
        BY <2>1, <3>1 DEF Arrived
      <4>2. Len(Encode(script[n])) \in Nat /\ Len(Encode(script[n])) >= 3
        BY <2>5, <4>1, RequestFacts
      <4>3. Len(<<>>) = 0
        OBVIOUS
      <4> QED BY <4>1, <4>2, <4>3
    <3> QED BY <2>4, <3>1
  <2>7. /\ n \in 0 .. Len(script) /\ Contents(read_buff_) = <<>>
        /\ stream = EncodeFrom(script, n) /\ got = Requests(script, n)
    BY <2>6 DEF Idle
  <2>8. j - 1 \in 0 .. Len(script) /\ j - 1 \in 0 .. Len(script) - 1 /\ (j - 1) + 1 = j
    BY <2>5
  <2>9. j - 1 = n
    BY <1>2, <1>7, <2>2, <2>7, <2>8, EncodeFromShrinks DEF AllRequests
  <2> DEFINE x == Encode(script[j])
             y == EncodeFrom(script, j)
  <2>10. x \in Seq(Byte) /\ y \in Seq(Byte) /\ stream = x \o y
    <3>1. EncodeFrom(script, j - 1) = Encode(script[(j - 1) + 1]) \o EncodeFrom(script, (j - 1) + 1)
      BY <2>5, <2>8, EncodeFromStep
    <3>2. j \in 0 .. Len(script)
      BY <2>5
    <3> QED BY <1>2, <2>2, <2>5, <2>8, <3>1, <3>2, ScriptFacts DEF InBytes
  <2>11. a = x /\ z = y
    <3>1. k = Len(x) /\ a \o z = x \o y
      BY <1>3, <2>2, <2>10
    <3> HIDE DEF a, z, x, y
    <3>2. Len(a) = Len(x) /\ Len(z) = Len(y) /\ Len(a) \in Nat /\ Len(z) \in Nat
      <4>1. Len(a \o z) = Len(a) + Len(z) /\ Len(a) \in Nat /\ Len(z) \in Nat
        BY ONLY <1>3, JoinFacts
      <4>2. Len(x \o y) = Len(x) + Len(y) /\ Len(x) \in Nat /\ Len(y) \in Nat
        BY ONLY <2>10, JoinFacts
      <4> QED BY <1>3, <3>1, <4>1, <4>2
    <3> DEFINE w == a \o z
    <3>3. (\A i \in 1 .. Len(a) : w[i] = a[i]) /\ \A i \in 1 .. Len(z) : w[Len(a) + i] = z[i]
      BY ONLY <1>3, JoinFacts
    <3>4. (\A i \in 1 .. Len(x) : w[i] = x[i]) /\ \A i \in 1 .. Len(y) : w[Len(x) + i] = y[i]
      <4>1. (\A i \in 1 .. Len(x) : (x \o y)[i] = x[i])
            /\ \A i \in 1 .. Len(y) : (x \o y)[Len(x) + i] = y[i]
        BY ONLY <2>10, JoinFacts
      <4> QED BY <3>1, <4>1
    <3> HIDE DEF w
    <3>5. \A i \in 1 .. Len(a) : a[i] = x[i]
      BY <3>2, <3>3, <3>4, Zenon
    <3>6. \A i \in 1 .. Len(z) : z[i] = y[i]
      BY <3>2, <3>3, <3>4, Zenon
    <3>7. a = x
      BY ONLY <1>3, <2>10, <3>2, <3>5, SeqEqual, SMTT(30)
    <3>8. z = y
      BY ONLY <1>3, <2>10, <3>2, <3>6, SeqEqual, SMTT(30)
    <3> QED BY <3>7, <3>8
  <2>12. <<>> \o a = a
    <3> HIDE DEF a
    <3> QED BY <1>3
  <2>13. /\ socket' = Encode(script'[j]) /\ stream' = EncodeFrom(script', j)
         /\ got' = Requests(script', j - 1) /\ conn' = "in" /\ Contents(read_buff_)' = <<>>
         /\ j \in 1 .. Len(script')
    BY <1>1, <1>5, <2>1, <2>7, <2>9, <2>11, <2>12
  <2>14. Arrived(j)'
    BY <2>13, Zenon DEF Arrived
  <2> QED BY <2>3, <2>14
<1> QED BY <1>1, <1>4, <1>5, <1>6, <1>7 DEF Understood

\* A request that has come whole is taken, and nothing is left of it.
LEMMA ReadUnderstood ==
    ASSUME Reading, Understood, OnRead
    PROVE  Understood'
<1> DEFINE b == ReadFd(read_buff_, socket)
           c == Contents(b)
<1>1. /\ conn = "in" /\ socket # <<>> /\ socket' = <<>> /\ UNCHANGED <<script, stream, clean>>
      /\ conn_type_' = ConnType(c)
  BY DEF OnRead
<1>2. script \in Scripts /\ socket \in Seq(Byte) /\ stream \in Seq(Byte)
  BY DEF Reading
<1>3. (AllFrames' <=> AllFrames) /\ (AllRequests' <=> AllRequests)
  BY <1>1 DEF AllFrames, AllRequests
<1>4. conn_type_ # "PROTOBUF" => b \in Buffers /\ c = Contents(read_buff_) \o socket
  BY <1>2, ReadFdAppends DEF Reading
<1> HIDE DEF b
<1>5. ASSUME AllFrames PROVE conn_type_' = "PROTOBUF"
  <2>1. conn_type_ \in {"NONE", "PROTOBUF"}
    BY <1>5 DEF Understood, Reading
  <2>2. CASE conn_type_ = "PROTOBUF"
    BY <1>1, <2>2 DEF ConnType
  <2>3. CASE conn_type_ = "NONE"
    <3>1. Contents(read_buff_) = <<>> /\ socket \o stream = EncodeFrom(script, 0)
      BY <1>5, <2>3 DEF Understood
    <3>2. c = socket
      BY <1>2, <1>4, <2>3, <3>1
    <3>3. ~IsHttpRequest(c)
      BY <1>2, <1>5, <3>1, <3>2, FramesAreNoRequest DEF AllFrames
    <3> QED BY <1>1, <2>3, <3>3 DEF ConnType
  <2> QED BY <2>1, <2>2, <2>3
<1>6. ASSUME AllRequests, clean PROVE conn_type_' = "HTTP" /\ \E n : Idle(n)'
  <2>1. conn_type_ # "PROTOBUF" /\ \E n : Idle(n) \/ Arrived(n)
    BY <1>6 DEF Understood
  <2>2. PICK n : Idle(n) \/ Arrived(n)
    BY <2>1
  <2>3. Arrived(n)
    BY <1>1, <2>2 DEF Idle
  <2> DEFINE m == script[n]
  <2>4. /\ n \in 1 .. Len(script) /\ socket = Encode(m)
        /\ Contents(read_buff_) = <<>> /\ stream = EncodeFrom(script, n)
        /\ got = Requests(script, n - 1)
    BY <2>3 DEF Arrived
  <2>5. IsRequest(m) /\ Len(script) \in Nat
    BY <1>2, <1>6, <2>4, ScriptFacts DEF AllRequests
  <2>6. b \in Buffers /\ c = EncodeRequest(m) /\ IsHttpRequest(c)
    <3>1. c = socket
      BY <1>2, <1>4, <2>1, <2>4
    <3> QED BY <1>4, <2>1, <2>4, <2>5, <3>1, RequestFacts
  <2>7. conn_type_' = "HTTP"
    BY <1>1, <2>1, <2>6 DEF ConnType, Reading
  <2>8. ProcessHttp(b)
    BY <2>7 DEF OnRead, b
  <2>9. PICK p, verified : p = Parse(b) /\ RespondHttp(p, verified)
    BY <2>8 DEF ProcessHttp
  <2>10. Done(p, m)
    BY <2>5, <2>6, <2>9, WholeRequest
  <2>11. read_buff_' = p.buff /\ got' = Append(got, p.req)
    BY <2>9 DEF RespondHttp
  <2>12. got' = Requests(script, n)
    <3>1. Requests(script, n) = AndRequest(Requests(script, n - 1), m)
      BY <2>4, <2>5, RequestsStep
    <3>2. ~IsFrame(m)
      BY <2>5 DEF IsRequest
    <3> QED BY <2>4, <2>10, <2>11, <3>1, <3>2 DEF AndRequest, Done
  <2>13. Contents(read_buff_)' = <<>>
    BY <2>10, <2>11 DEF Done
  <2>14. n \in 0 .. Len(script)
    BY <2>4, <2>5
  <2>15. Idle(n)'
    BY <1>1, <2>4, <2>12, <2>13, <2>14 DEF Idle
  <2> QED BY <2>7, <2>15
<1> QED BY <1>1, <1>3, <1>5, <1>6 DEF Understood

\* Writing a response touches none of it.
LEMMA QuietUnderstood ==
    ASSUME Understood, conn' = conn \/ conn # "in",
           UNCHANGED <<script, stream, clean, socket, read_buff_, conn_type_, got>>
    PROVE  Understood'
<1>1. (AllFrames' <=> AllFrames) /\ (AllRequests' <=> AllRequests)
      /\ Contents(read_buff_)' = Contents(read_buff_)
  BY DEF AllFrames, AllRequests, Contents
<1>2. \A n : Idle(n) => Idle(n)'
  BY <1>1 DEF Idle
<1>3. \A n : Arrived(n) => Arrived(n)'
  BY <1>1 DEF Arrived
<1> QED BY <1>1, <1>2, <1>3 DEF Understood

LEMMA NextUnderstood == Reading /\ Understood /\ [Next]_vars => Understood'
<1> SUFFICES ASSUME Reading, Understood, [Next]_vars PROVE Understood'
  OBVIOUS
<1>1. ASSUME NEW k \in 1 .. Len(stream), Arrive(k) PROVE Understood'
  BY <1>1, ArriveUnderstood
<1>2. CASE OnRead
  BY <1>2, ReadUnderstood
<1>3. ASSUME NEW k \in 1 .. Len(Unsent), WriteHttp(k) \/ WriteProtobuf(k) PROVE Understood'
  BY <1>3, QuietUnderstood DEF WriteHttp, WriteProtobuf
<1>4. CASE UNCHANGED vars
  BY <1>4, QuietUnderstood DEF vars
<1> QED BY <1>1, <1>2, <1>3, <1>4 DEF Next, OnWrite

\* A client that sends each HTTP request in one piece, after the response to the one
\* before, is understood by HttpRequest::parse: for any requests of any length, with any
\* number of headers, and however the buffer moves its bytes.
THEOREM RequestsAreTaken == Spec => []RequestsAsSent
<1>1. Reading /\ Understood => RequestsAsSent
  <2> SUFFICES ASSUME Reading, Understood, conn_type_ = "HTTP", clean
               PROVE  \E n \in 0 .. Len(script) : HasTaken(n)
    BY DEF RequestsAsSent
  <2>1. script \in Scripts
    BY DEF Reading
  <2>2. AllRequests
    BY <2>1, ClientAssumption DEF AllFrames, AllRequests, Understood
  <2>3. PICK n : Idle(n) \/ Arrived(n)
    BY <2>2 DEF Understood
  <2>4. Len(script) \in Nat /\ \A i \in 1 .. Len(script) : InBytes(script[i])
    BY <2>1, ScriptFacts
  <2>5. CASE Idle(n)
    <3>1. n \in 0 .. Len(script) /\ got = Requests(script, n)
          /\ Unread = (<<>> \o <<>>) \o EncodeFrom(script, n)
      BY <2>5 DEF Idle, Unread
    <3>2. EncodeFrom(script, n) \in Seq(Byte)
      BY <2>1, <3>1, ScriptFacts
    <3>3. (<<>> \o <<>>) \o EncodeFrom(script, n) = EncodeFrom(script, n)
      BY <3>2
    <3> QED BY <3>1, <3>3 DEF HasTaken
  <2>6. CASE Arrived(n)
    <3>1. n \in 1 .. Len(script) /\ got = Requests(script, n - 1)
          /\ Unread = (<<>> \o Encode(script[n])) \o EncodeFrom(script, n)
      BY <2>6 DEF Arrived, Unread
    <3>2. n - 1 \in 0 .. Len(script) - 1 /\ n - 1 \in 0 .. Len(script) /\ (n - 1) + 1 = n
      BY <2>4, <3>1
    <3>3. EncodeFrom(script, n - 1) = Encode(script[n]) \o EncodeFrom(script, n)
      <4>1. EncodeFrom(script, n - 1)
               = Encode(script[(n - 1) + 1]) \o EncodeFrom(script, (n - 1) + 1)
        BY <2>4, <3>2, EncodeFromStep
      <4> QED BY <3>2, <4>1
    <3>4. Encode(script[n]) \in Seq(Byte)
      BY <2>4, <3>1 DEF InBytes
    <3>5. <<>> \o Encode(script[n]) = Encode(script[n])
      BY <3>4
    <3>6. HasTaken(n - 1)
      BY <3>1, <3>3, <3>5 DEF HasTaken
    <3> QED BY <3>2, <3>6
  <2> QED BY <2>3, <2>5, <2>6
<1> QED BY <1>1, InitReading, NextReading, InitUnderstood, NextUnderstood, PTL DEF Spec

============================================================================
