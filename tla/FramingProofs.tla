--------------------------- MODULE FramingProofs ---------------------------
(***************************************************************************)
(* Theorems about packets over a byte stream, for all the lengths, buffers *)
(* and connections that FramingAssumption allows.                          *)
(***************************************************************************)
EXTENDS Framing, SequenceTheorems, TLAPS

\* What the daemon has yet to handle: the bytes in hand and those under way.
Stream == buf \o pipe

\* The packets of a stream of bytes s are in order, and the bytes of one packet
\* lie next to each other.
Ordered(s) ==
    \A i \in 1..Len(s), j \in 1..Len(s) : i <= j =>
        /\ s[i].of.id <= s[j].of.id
        /\ s[i].of.id = s[j].of.id =>
              s[j].of = s[i].of /\ s[j].place = s[i].place + (j - i)

\* A byte that is not the first of its packet follows the one before it.
Joined(s) ==
    \A i \in 2..Len(s) : s[i].place # Low =>
        s[i - 1].of = s[i].of /\ s[i - 1].place = s[i].place - 1

\* A packet that was not cut is followed by nothing before its own end, and in
\* a connection where none was cut then by the length of the next one.
Untorn(s, torn) ==
    \A i \in 1..Len(s), j \in 1..Len(s) :
        i <= j /\ s[i].of.id \notin torn /\ j - i <= s[i].of.size - s[i].place
            => s[j].of = s[i].of
Followed(s, torn) ==
    torn = {} =>
        \A i \in 1..Len(s), j \in 1..Len(s) :
            j - i = s[i].of.size - s[i].place + 1
                => s[j].place = Low /\ s[j].of.id = s[i].of.id + 1

Coherent(s, torn) == Ordered(s) /\ Joined(s) /\ Untorn(s, torn) /\ Followed(s, torn)

\* What was handled last does not come again.
Fresh ==
    /\ handed.id <= packet.id
    /\ \A i \in 1..Len(Stream) :
          LET b == Stream[i]
          IN  /\ handed.id <= b.of.id /\ b.of.id <= packet.id
              /\ b.of.id = handed.id => b.place > 1

\* While the connection lives, the stream ends where the phone is.
PhoneThere ==
    ~ended =>
        /\ phone # "closed"
        /\ phone = "body" =>
              /\ handed.id < packet.id
              /\ Stream # <<>> => Stream[Len(Stream)] = [of |-> packet, place |-> High]
        /\ \A i \in 1..Len(Stream) :
              LET b == Stream[i]
              IN  b.of.id \notin cut /\ (phone = "body" => b.of.id < packet.id)
                      => Len(Stream) - i >= b.of.size - b.place
        /\ cut = {} /\ Stream # <<>> => Stream[Len(Stream)].of.id = packet.id

\* A reader in front of a packet's first byte wants its size, and one that no
\* cut has put out of step is where the stream begins.
ReaderThere ==
    /\ reader = "accept" => ended /\ Stream = <<>>
    /\ reader # "body" => want = 2
    /\ reader = "body" =>
          /\ Stream # <<>> /\ Stream[1].place = 1 => want = Stream[1].of.size
          /\ Stream = <<>> /\ ~ended /\ phone = "body" => want = packet.size
    /\ cut = {} /\ reader = "length" =>
          IF Stream # <<>>
          THEN Stream[1].place = Low /\ Stream[1].of.id = handed.id + 1
          ELSE ~ended => phone = "open" /\ packet.id = handed.id
    /\ cut = {} /\ reader = "body" =>
          IF Stream # <<>>
          THEN Stream[1].place = 1 /\ Stream[1].of.id = handed.id + 1
          ELSE ~ended => phone = "body" /\ packet.id = handed.id + 1

Inv ==
    /\ TypeOK
    /\ phone = "body" => packet.id > 0
    /\ Coherent(Stream, cut)
    /\ Fresh /\ PhoneThere /\ ReaderThere

----------------------------------------------------------------------------

\* The constants in the form the proofs need.
LEMMA Sizes ==
    /\ HeaderSize \in Nat \ {0} /\ MaxPacket \in Nat \ {0} /\ 2 <= MaxPacket
    /\ MaxSent \in Nat \ {0} /\ PipeSize \in Nat \ {0}
    /\ \A n \in Size : n \in Nat /\ HeaderSize <= n /\ n <= MaxPacket
BY FramingAssumption

\* The fields of a byte.
LEMMA Fields ==
    /\ \A p \in Packet : p.id \in Nat /\ p.id <= MaxSent /\ p.size \in Size \cup {0}
                         /\ p.size \in Nat /\ p.size <= MaxPacket
    /\ \A b \in Byte : b.of \in Packet /\ b.place \in Int /\ b.place <= MaxPacket
BY Sizes DEF Packet, Byte, Low

\* The bytes of a sequence.
LEMMA Bytes ==
    ASSUME NEW s \in Seq(Byte)
    PROVE  /\ Len(s) \in Nat /\ (s = <<>> <=> Len(s) = 0)
           /\ \A i \in 1..Len(s) : /\ s[i] \in Byte /\ s[i].of \in Packet
                                   /\ s[i].of.id \in Int /\ s[i].of.size \in Nat
                                   /\ s[i].place \in Int
<1>1. Len(s) \in Nat /\ \A i \in 1..Len(s) : s[i] \in Byte
  BY LenProperties, ElementOfSeq
<1>2. s = <<>> <=> Len(s) = 0
  BY EmptySeq, Zenon
<1>3. \A b \in Byte : b.of \in Packet /\ b.place \in Int /\ b.of.id \in Int /\ b.of.size \in Nat
  BY Fields
<1> QED
  BY <1>1, <1>2, <1>3

\* A part of a coherent stream is coherent, and stays so when more is known torn.
LEMMA Part ==
    ASSUME NEW s \in Seq(Byte), NEW r \in Seq(Byte), NEW m \in Nat, m + Len(r) <= Len(s),
           \A i \in 1..Len(r) : r[i] = s[m + i],
           NEW torn, NEW more, torn \subseteq more, Coherent(s, torn)
    PROVE  Coherent(r, more)
<1>1. Len(s) \in Nat /\ Len(r) \in Nat
  BY LenProperties
<1>2. \A i \in 1..Len(r) : m + i \in 1..Len(s) /\ r[i] = s[m + i]
  BY <1>1
<1>4. Ordered(r)
  <2> SUFFICES ASSUME NEW i \in 1..Len(r), NEW j \in 1..Len(r), i <= j
               PROVE  /\ r[i].of.id <= r[j].of.id
                      /\ r[i].of.id = r[j].of.id =>
                            r[j].of = r[i].of /\ r[j].place = r[i].place + (j - i)
    BY DEF Ordered
  <2> DEFINE a == m + i
             b == m + j
  <2>1. a \in 1..Len(s) /\ b \in 1..Len(s) /\ a <= b /\ b - a = j - i
        /\ r[i] = s[a] /\ r[j] = s[b]
    <3>1. a \in 1..Len(s) /\ b \in 1..Len(s) /\ r[i] = s[a] /\ r[j] = s[b]
      BY <1>2
    <3>2. i \in Int /\ j \in Int
      BY <1>1
    <3> QED
      BY <3>1, <3>2
  <2> HIDE DEF a, b
  <2>2. /\ s[a].of.id <= s[b].of.id
        /\ s[a].of.id = s[b].of.id =>
              s[b].of = s[a].of /\ s[b].place = s[a].place + (b - a)
    BY <2>1 DEF Coherent, Ordered
  <2> QED
    BY <2>1, <2>2
<1>5. Joined(r)
  <2> SUFFICES ASSUME NEW i \in 2..Len(r), r[i].place # Low
               PROVE  r[i - 1].of = r[i].of /\ r[i - 1].place = r[i].place - 1
    BY DEF Joined
  <2>1. i \in 1..Len(r) /\ i - 1 \in 1..Len(r) /\ m + i \in 2..Len(s)
        /\ m + (i - 1) = (m + i) - 1
    BY <1>1
  <2>2. s[m + i].place # Low => /\ s[(m + i) - 1].of = s[m + i].of
                                /\ s[(m + i) - 1].place = s[m + i].place - 1
    BY <2>1 DEF Coherent, Joined
  <2> QED
    BY <1>2, <2>1, <2>2
<1>6. Untorn(r, more)
  <2> SUFFICES ASSUME NEW i \in 1..Len(r), NEW j \in 1..Len(r), i <= j,
                      r[i].of.id \notin more, j - i <= r[i].of.size - r[i].place
               PROVE  r[j].of = r[i].of
    BY DEF Untorn
  <2> DEFINE a == m + i
             b == m + j
  <2>1. a \in 1..Len(s) /\ b \in 1..Len(s) /\ a <= b /\ b - a = j - i
        /\ r[i] = s[a] /\ r[j] = s[b]
    <3>1. a \in 1..Len(s) /\ b \in 1..Len(s) /\ r[i] = s[a] /\ r[j] = s[b]
      BY <1>2
    <3>2. i \in Int /\ j \in Int
      BY <1>1
    <3> QED
      BY <3>1, <3>2
  <2> HIDE DEF a, b
  <2>2. s[a].of.id \notin torn
    BY <2>1
  <2> QED
    BY <2>1, <2>2 DEF Coherent, Untorn
<1>7. Followed(r, more)
  <2> SUFFICES ASSUME torn = {}, NEW i \in 1..Len(r), NEW j \in 1..Len(r),
                      j - i = r[i].of.size - r[i].place + 1
               PROVE  r[j].place = Low /\ r[j].of.id = r[i].of.id + 1
    BY DEF Followed
  <2> DEFINE a == m + i
             b == m + j
  <2>1. a \in 1..Len(s) /\ b \in 1..Len(s) /\ b - a = j - i
        /\ r[i] = s[a] /\ r[j] = s[b]
    <3>1. a \in 1..Len(s) /\ b \in 1..Len(s) /\ r[i] = s[a] /\ r[j] = s[b]
      BY <1>2
    <3>2. i \in Int /\ j \in Int
      BY <1>1
    <3> QED
      BY <3>1, <3>2
  <2> HIDE DEF a, b
  <2> QED
    BY <2>1 DEF Coherent, Followed
<1> QED
  BY <1>4, <1>5, <1>6, <1>7 DEF Coherent

\* A place at most d behind i that lies beyond the end is the one right behind it.
LEMMA Meets ==
    ASSUME NEW i \in Int, NEW j \in Int, NEW d \in Int, NEW end \in Int,
           j - i = d + 1, end - i >= d, j > end, 1 <= i, i <= end
    PROVE  j = end + 1 /\ end - i = d /\ end > 0
OBVIOUS

\* The stream is coherent after the bytes of a packet p from place `first' on are
\* sent behind all others: a new length, or the rest of the packet it announced.
LEMMA Extended ==
    ASSUME NEW s \in Seq(Byte), NEW r \in Seq(Byte), NEW n \in Nat,
           NEW p \in Packet, NEW first \in {Low, 1},
           Len(r) = Len(s) + n, first + n - 1 <= p.size,
           \A i \in 1..Len(s) : r[i] = s[i],
           \A k \in 1..n : r[Len(s) + k] = [of |-> p, place |-> first + k - 1],
           NEW torn, Coherent(s, torn),
           \A i \in 1..Len(s) :
              /\ s[i].of.id <= p.id
              /\ s[i].of.id = p.id => /\ first = 1 /\ s[i].of = p
                                      /\ s[i].place = High - (Len(s) - i)
              /\ s[i].of.id \notin torn /\ s[i].of.id < p.id
                    => Len(s) - i >= s[i].of.size - s[i].place,
           first = 1 /\ Len(s) > 0 => s[Len(s)] = [of |-> p, place |-> High],
           first = Low /\ Len(s) > 0 /\ torn = {} => s[Len(s)].of.id = p.id - 1
    PROVE  Coherent(r, torn)
<1>1. Len(s) \in Nat /\ \A i \in 1..Len(s) : /\ s[i].of.id \in Int /\ s[i].of.size \in Nat
                                             /\ s[i].place \in Int
  BY Bytes
<1>2. p.id \in Int /\ p.size \in Nat
  BY Fields
<1>3. first \in Int /\ Low = -1 /\ High = 0
  BY DEF Low, High
<1> DEFINE Old == 1..Len(s)
           New == Len(s) + 1..Len(r)
<1>4. /\ \A i \in 1..Len(r) : i \in Old \/ i \in New
      /\ \A i \in Old, j \in New : i < j
      /\ \A i \in Old : i \in 1..Len(s) /\ i \in Int /\ 1 <= i /\ i <= Len(s) /\ r[i] = s[i]
  BY <1>1
<1>5. \A j \in New : /\ j \in Int /\ j > Len(s) /\ j <= Len(s) + n
                     /\ r[j].of = p /\ r[j].place = first + (j - Len(s)) - 1
  <2> SUFFICES ASSUME NEW j \in New
               PROVE  /\ j \in Int /\ j > Len(s) /\ j <= Len(s) + n
                      /\ r[j].of = p /\ r[j].place = first + (j - Len(s)) - 1
    OBVIOUS
  <2>1. j - Len(s) \in 1..n /\ Len(s) + (j - Len(s)) = j /\ j \in Int
    BY <1>1
  <2>2. r[j] = [of |-> p, place |-> first + (j - Len(s)) - 1]
    BY <2>1
  <2> QED
    BY <1>1, <2>1, <2>2
<1> HIDE DEF Old, New
<1>6. Ordered(r)
  <2> SUFFICES ASSUME NEW i \in 1..Len(r), NEW j \in 1..Len(r), i <= j
               PROVE  /\ r[i].of.id <= r[j].of.id
                      /\ r[i].of.id = r[j].of.id =>
                            r[j].of = r[i].of /\ r[j].place = r[i].place + (j - i)
    BY DEF Ordered
  <2>1. CASE i \in Old /\ j \in Old
    <3>1. i \in 1..Len(s) /\ j \in 1..Len(s) /\ r[i] = s[i] /\ r[j] = s[j]
      BY <1>4, <2>1
    <3> QED
      BY <3>1 DEF Coherent, Ordered
  <2>2. CASE i \in Old /\ j \in New
    <3>1. /\ s[i].of.id <= p.id
          /\ s[i].of.id = p.id => /\ first = 1 /\ s[i].of = p
                                  /\ s[i].place = High - (Len(s) - i)
      BY <2>2 DEF Old
    <3>2. r[i] = s[i] /\ i \in Int /\ j \in Int /\ r[j].of = p
          /\ r[j].place = first + (j - Len(s)) - 1
      BY <1>4, <1>5, <2>2
    <3> QED
      BY <1>1, <1>2, <1>3, <3>1, <3>2
  <2>3. CASE i \in New /\ j \in New
    <3>1. /\ i \in Int /\ j \in Int /\ r[i].of = p /\ r[j].of = p
          /\ r[i].place = first + (i - Len(s)) - 1 /\ r[j].place = first + (j - Len(s)) - 1
      BY <1>5, <2>3
    <3> QED
      BY <1>1, <1>2, <1>3, <3>1
  <2> QED
    BY <1>4, <2>1, <2>2, <2>3
<1>7. Joined(r)
  <2> SUFFICES ASSUME NEW j \in 2..Len(r), r[j].place # Low
               PROVE  r[j - 1].of = r[j].of /\ r[j - 1].place = r[j].place - 1
    BY DEF Joined
  <2>1. j \in 1..Len(r) /\ j - 1 \in 1..Len(r)
    BY <1>1
  <2>2. CASE j \in Old
    <3>1. j \in 2..Len(s) /\ j - 1 \in Old /\ r[j] = s[j] /\ r[j - 1] = s[j - 1]
      BY <1>1, <1>4, <2>2 DEF Old
    <3> QED
      BY <3>1 DEF Coherent, Joined
  <2>3. CASE j \in New /\ j - 1 \in New
    BY <1>1, <1>3, <1>5, <2>3
  <2>4. CASE j \in New /\ j - 1 \in Old
    <3>1. j - 1 = Len(s) /\ Len(s) > 0 /\ r[j - 1] = s[Len(s)]
      <4>1. j \in Int /\ j > Len(s) /\ j - 1 <= Len(s) /\ 1 <= j - 1 /\ r[j - 1] = s[j - 1]
        BY <1>4, <1>5, <2>4
      <4> QED
        BY <1>1, <4>1
    <3>2. r[j].of = p /\ r[j].place = first
      BY <1>1, <1>3, <1>5, <2>4, <3>1
    <3>3. first = 1 /\ s[Len(s)] = [of |-> p, place |-> High]
      BY <3>1, <3>2
    <3> QED
      BY <1>3, <3>1, <3>2, <3>3
  <2> QED
    BY <1>4, <2>1, <2>2, <2>3, <2>4
<1>8. Untorn(r, torn)
  <2> SUFFICES ASSUME NEW i \in 1..Len(r), NEW j \in 1..Len(r), i <= j,
                      r[i].of.id \notin torn, j - i <= r[i].of.size - r[i].place
               PROVE  r[j].of = r[i].of
    BY DEF Untorn
  <2>1. CASE i \in Old /\ j \in Old
    <3>1. i \in 1..Len(s) /\ j \in 1..Len(s) /\ r[i] = s[i] /\ r[j] = s[j]
      BY <1>4, <2>1
    <3> QED
      BY <3>1 DEF Coherent, Untorn
  <2>2. CASE i \in Old /\ j \in New
    <3>1. r[i] = s[i] /\ r[j].of = p /\ i \in Int /\ j \in Int /\ j > Len(s) /\ i \in 1..Len(s)
      BY <1>4, <1>5, <2>2
    <3>3. s[i].of.id \in Int /\ s[i].of.size \in Nat /\ s[i].place \in Int
      BY <1>1, <3>1
    <3>2. /\ s[i].of.id <= p.id
          /\ s[i].of.id = p.id => s[i].of = p
          /\ s[i].of.id < p.id => Len(s) - i >= s[i].of.size - s[i].place
      BY <3>1
    <3>4. CASE s[i].of.id = p.id
      BY <3>1, <3>2, <3>4
    <3>5. CASE s[i].of.id # p.id
      <4>1. s[i].of.id < p.id
        BY <1>2, <3>2, <3>3, <3>5, SMTT(30)
      <4> DEFINE d == s[i].of.size - s[i].place
      <4>2. d \in Int
        BY <3>3, SMTT(30)
      <4>3. Len(s) - i >= d /\ j - i <= d
        BY <3>1, <3>2, <4>1
      <4>4. Len(s) \in Int /\ i \in Int /\ j \in Int /\ j > Len(s)
        BY <1>1, <3>1
      <4> HIDE DEF d
      <4>5. j <= Len(s)
        BY <4>2, <4>3, <4>4
      <4> QED
        BY <4>4, <4>5
    <3> QED
      BY <3>4, <3>5
  <2>3. CASE i \in New /\ j \in New
    BY <1>5, <2>3
  <2> QED
    BY <1>4, <2>1, <2>2, <2>3
<1>9. Followed(r, torn)
  <2> SUFFICES ASSUME torn = {}, NEW i \in 1..Len(r), NEW j \in 1..Len(r),
                      j - i = r[i].of.size - r[i].place + 1
               PROVE  r[j].place = Low /\ r[j].of.id = r[i].of.id + 1
    BY DEF Followed
  <2>1. CASE i \in Old /\ j \in Old
    <3>1. i \in 1..Len(s) /\ j \in 1..Len(s) /\ r[i] = s[i] /\ r[j] = s[j]
      BY <1>4, <2>1
    <3> QED
      BY <3>1 DEF Coherent, Followed
  <2>2. CASE i \in Old /\ j \in New
    <3>0. /\ r[i] = s[i] /\ i \in Int /\ j \in Int /\ j > Len(s) /\ j <= Len(s) + n
          /\ 1 <= i /\ i <= Len(s) /\ i \in 1..Len(s)
          /\ r[j].of = p /\ r[j].place = first + (j - Len(s)) - 1
      BY <1>4, <1>5, <2>2
    <3>4. s[i].of.id \in Int /\ s[i].of.size \in Nat /\ s[i].place \in Int
          /\ s[i].of.id <= p.id /\ j - i = s[i].of.size - s[i].place + 1
      BY <1>1, <3>0
    <3>1. /\ r[i] = s[i] /\ i \in Int /\ j \in Int /\ j > Len(s) /\ j <= Len(s) + n
          /\ 1 <= i /\ i <= Len(s) /\ i \in 1..Len(s)
          /\ r[j].of = p /\ r[j].place = first + (j - Len(s)) - 1
          /\ s[i].of.id \in Int /\ s[i].of.size \in Nat /\ s[i].place \in Int
          /\ s[i].of.id <= p.id /\ j - i = s[i].of.size - s[i].place + 1
      BY <3>0, <3>4
    <3>2. CASE s[i].of.id = p.id
      <4>1. first = 1 /\ s[i].of.size = p.size /\ s[i].place = 0 - (Len(s) - i)
        BY <1>3, <3>1, <3>2
      <4>2. Len(s) \in Int /\ n \in Int /\ n <= p.size
        BY <1>1, <1>2, <4>1
      <4>3. j = Len(s) + p.size + 1 /\ j <= Len(s) + n
        BY <1>2, <3>1, <4>1, <4>2, SMTT(30)
      <4> QED
        BY <1>2, <4>2, <4>3
    <3>3. CASE s[i].of.id # p.id
      <4>1. s[i].of.id < p.id
        <5>1. s[i].of.id \in Int /\ s[i].of.id <= p.id
          BY <3>1
        <5> QED
          BY <1>2, <3>3, <5>1
      <4>2. Len(s) - i >= s[i].of.size - s[i].place
        BY <3>1, <4>1
      <4>3. j = Len(s) + 1 /\ Len(s) - i = s[i].of.size - s[i].place /\ Len(s) > 0
        <5> DEFINE d == s[i].of.size - s[i].place
        <5>1. d \in Int /\ j - i = d + 1 /\ Len(s) - i >= d
              /\ i \in Int /\ 1 <= i /\ i <= Len(s) /\ j \in Int /\ j > Len(s)
          BY <3>1, <4>2, SMTT(30)
        <5> HIDE DEF d
        <5>2. j = Len(s) + 1 /\ Len(s) - i = d /\ Len(s) > 0
          <6>1. Len(s) \in Int
            BY <1>1
          <6> QED
            BY <5>1, <6>1, Meets, Zenon
        <5> QED
          BY <5>2 DEF d
      <4>4. s[Len(s)].of = s[i].of
        <5>1. i \in 1..Len(s) /\ i <= Len(s) /\ Len(s) \in 1..Len(s)
          <6>1. Len(s) \in Int
            BY <1>1
          <6> QED
            BY <3>1, <4>3, <6>1
        <5>2. Len(s) - i <= s[i].of.size - s[i].place
          <6>1. Len(s) - i \in Int /\ Len(s) - i = s[i].of.size - s[i].place
            BY <1>1, <3>1, <4>3
          <6> DEFINE d == Len(s) - i
          <6>2. d <= d
            BY <6>1
          <6> QED
            BY <6>1, <6>2, Zenon
        <5> QED
          BY <5>1, <5>2 DEF Coherent, Untorn
      <4>5. first # 1
        BY <4>1, <4>3, <4>4, <1>2, SMTT(30)
      <4>6. first = Low /\ s[i].of.id = p.id - 1
        BY <4>3, <4>4, <4>5
      <4> QED
        BY <1>1, <1>2, <1>3, <3>1, <4>3, <4>6
    <3> QED
      BY <3>2, <3>3
  <2>3. CASE i \in New
    <3>1. /\ i \in Int /\ i > Len(s) /\ r[i].of = p /\ r[i].place = first + (i - Len(s)) - 1
          /\ j \in Int /\ j <= Len(s) + n
      BY <1>5, <2>3
    <3> QED
      BY <1>1, <1>2, <1>3, <3>1
  <2>4. CASE i \in Old
    BY <1>4, <2>1, <2>2, <2>4
  <2> QED
    BY <1>4, <2>3, <2>4
<1> QED
  BY <1>6, <1>7, <1>8, <1>9 DEF Coherent

----------------------------------------------------------------------------

\* The places of two sequences of bytes in the one they make.
LEMMA Concat ==
    ASSUME NEW s \in Seq(Byte), NEW t \in Seq(Byte)
    PROVE  /\ s \o t \in Seq(Byte) /\ Len(s \o t) = Len(s) + Len(t)
           /\ Len(s) \in Nat /\ Len(t) \in Nat
           /\ \A i \in 1..Len(s) : (s \o t)[i] = s[i]
           /\ \A i \in 1..Len(t) : (s \o t)[Len(s) + i] = t[i]
<1>1. /\ s \o t \in Seq(Byte) /\ Len(s \o t) = Len(s) + Len(t)
      /\ \A i \in 1..Len(s) + Len(t) :
            (s \o t)[i] = IF i <= Len(s) THEN s[i] ELSE t[i - Len(s)]
  BY ConcatProperties
<1>2. Len(s) \in Nat /\ Len(t) \in Nat
  BY LenProperties
<1>3. \A i \in 1..Len(s) : (s \o t)[i] = s[i]
  BY <1>1, <1>2
<1>4. ASSUME NEW i \in 1..Len(t) PROVE (s \o t)[Len(s) + i] = t[i]
  <2>1. Len(s) + i \in 1..Len(s) + Len(t) /\ ~(Len(s) + i <= Len(s))
        /\ (Len(s) + i) - Len(s) = i
    BY <1>2
  <2> QED
    BY <1>1, <2>1
<1> QED
  BY <1>1, <1>2, <1>3, <1>4

\* An empty stream is coherent.
LEMMA NoBytes ==
    /\ <<>> \in Seq(Byte) /\ Len(<<>>) = 0 /\ <<>> \o <<>> = <<>>
    /\ \A torn : Coherent(<<>>, torn)
<1>1. <<>> \in Seq(Byte) /\ Len(<<>>) = 0
  BY EmptySeq
<1>2. <<>> \o <<>> = <<>>
  BY <1>1, ConcatEmptySeq
<1> QED
  BY <1>1, <1>2 DEF Coherent, Ordered, Joined, Untorn, Followed

\* Concatenation is associative.
LEMMA Regroup == \A s, t, u \in Seq(Byte) : (s \o t) \o u = s \o (t \o u)
BY ConcatAssociative

\* The bytes in hand when a read returns, and those it leaves, are the stream.
LEMMA Reads ==
    ASSUME TypeOK, NEW n \in 1..Len(pipe)
    PROVE  LET rest == SubSeq(pipe, n + 1, Len(pipe))
           IN  /\ Got(n) \in Seq(Byte) /\ Len(Got(n)) = Len(buf) + n
               /\ rest \in Seq(Byte) /\ Len(rest) = Len(pipe) - n
               /\ Got(n) \o rest = Stream
               /\ Len(buf) \in Nat /\ Len(pipe) \in Nat
               /\ Stream \in Seq(Byte) /\ Len(Stream) = Len(buf) + Len(pipe)
               /\ \A i \in 1..Len(buf) + n : Got(n)[i] = Stream[i]
               /\ \A i \in 1..Len(rest) : rest[i] = Stream[Len(buf) + n + i]
<1> DEFINE head == SubSeq(pipe, 1, n)
           rest == SubSeq(pipe, n + 1, Len(pipe))
<1>1. buf \in Seq(Byte) /\ pipe \in Seq(Byte) /\ Len(buf) \in Nat /\ Len(pipe) \in Nat
  BY LenProperties DEF TypeOK
<1>2. head \in Seq(Byte) /\ Len(head) = n
  <2>1. 1 \in Int /\ n \in Int /\ \A i \in 1..n : pipe[i] \in Byte
    BY <1>1, ElementOfSeq
  <2>2. head \in Seq(Byte) /\ Len(head) = IF 1 <= n THEN n - 1 + 1 ELSE 0
    BY <2>1, SubSeqProperties
  <2> QED
    BY <1>1, <2>2
<1>3. rest \in Seq(Byte) /\ Len(rest) = Len(pipe) - n
  <2>1. n + 1 \in Int /\ Len(pipe) \in Int /\ \A i \in n + 1..Len(pipe) : pipe[i] \in Byte
    BY <1>1, ElementOfSeq
  <2>2. rest \in Seq(Byte)
        /\ Len(rest) = IF n + 1 <= Len(pipe) THEN Len(pipe) - (n + 1) + 1 ELSE 0
    BY <2>1, SubSeqProperties
  <2> QED
    BY <1>1, <2>2
<1>4. head \o rest = pipe
  <2>1. 1 \in 1..Len(pipe) + 1 /\ n \in 1 - 1..Len(pipe) /\ Len(pipe) \in n..Len(pipe)
    BY <1>1
  <2> QED
    BY <1>1, <2>1, ConcatAdjacentSubSeq, SubSeqFull
<1>5. Got(n) = buf \o head
  BY DEF Got
<1> HIDE DEF head, rest
<1>6. Got(n) \in Seq(Byte) /\ Len(Got(n)) = Len(buf) + n
  BY <1>1, <1>2, <1>5, Concat
<1>7. Got(n) \o rest = Stream
  <2>1. (buf \o head) \o rest = buf \o (head \o rest)
    <3>1. buf \in Seq(Byte) /\ head \in Seq(Byte) /\ rest \in Seq(Byte)
      BY <1>1, <1>2, <1>3
    <3> QED
      BY <3>1, Regroup, Zenon
  <2> QED
    BY <1>4, <1>5, <2>1, Zenon DEF Stream
<1>8. Stream \in Seq(Byte) /\ Len(Stream) = Len(buf) + Len(pipe)
  BY <1>1, Concat DEF Stream
<1>9. /\ \A i \in 1..Len(Got(n)) : Stream[i] = Got(n)[i]
      /\ \A i \in 1..Len(rest) : Stream[Len(Got(n)) + i] = rest[i]
  BY <1>3, <1>6, <1>7, Concat
<1> QED
  BY <1>1, <1>3, <1>6, <1>7, <1>8, <1>9 DEF rest

\* The invariant holds when the daemon has closed the connection.
LEMMA Hung ==
    ASSUME Inv, HangUp, UNCHANGED <<phone, packet, handed, cut>>
    PROVE  Inv'
<1>1. /\ reader' = "accept" /\ want' = 2 /\ buf' = <<>> /\ pipe' = <<>> /\ ended' = TRUE
      /\ phone' = phone /\ packet' = packet /\ handed' = handed /\ cut' = cut
  BY DEF HangUp, Expect
<1>2. Stream' = <<>> /\ Len(Stream') = 0
  BY <1>1, NoBytes DEF Stream
<1>3. TypeOK'
  <2>1. Len(buf') = 0 /\ Len(pipe') = 0 /\ <<>> \in Seq(Byte)
    BY <1>1, NoBytes
  <2> QED
    BY <1>1, <2>1, Sizes DEF Inv, TypeOK
<1>4. Coherent(Stream', cut')
  BY <1>2, NoBytes
<1>5. Fresh' /\ PhoneThere' /\ ReaderThere'
  BY <1>1, <1>2 DEF Inv, Fresh, PhoneThere, ReaderThere
<1> QED
  BY <1>1, <1>3, <1>4, <1>5 DEF Inv

\* When the stream has lost its first bytes to the reader it still ends where the
\* phone is.
LEMMA Shorter ==
    ASSUME Inv, UNCHANGED <<phone, packet, ended, cut>>, NEW m \in Nat,
           Stream \in Seq(Byte), Stream' \in Seq(Byte), m + Len(Stream') = Len(Stream),
           \A i \in 1..Len(Stream') : Stream'[i] = Stream[m + i],
           ~ended /\ phone = "body" => handed'.id < packet.id
    PROVE  Coherent(Stream', cut') /\ PhoneThere'
<1>1. /\ Len(Stream) \in Nat /\ Len(Stream') \in Nat
      /\ (Stream' = <<>> <=> Len(Stream') = 0) /\ (Stream = <<>> <=> Len(Stream) = 0)
  BY Bytes
<1>2. Coherent(Stream', cut')
  BY <1>1, Part DEF Inv
<1>3. PhoneThere'
  <2> SUFFICES ASSUME ~ended
               PROVE  /\ phone # "closed"
                      /\ phone = "body" /\ Stream' # <<>> =>
                            Stream'[Len(Stream')] = [of |-> packet, place |-> High]
                      /\ \A i \in 1..Len(Stream') :
                            /\ Stream'[i].of.id \notin cut
                            /\ phone = "body" => Stream'[i].of.id < packet.id
                            => Len(Stream') - i >= Stream'[i].of.size - Stream'[i].place
                      /\ cut = {} /\ Stream' # <<>> => Stream'[Len(Stream')].of.id = packet.id
    BY DEF PhoneThere
  <2>1. Stream' # <<>> => Stream # <<>> /\ Stream'[Len(Stream')] = Stream[Len(Stream)]
    BY <1>1
  <2>2. ASSUME NEW i \in 1..Len(Stream'), Stream'[i].of.id \notin cut,
               phone = "body" => Stream'[i].of.id < packet.id
        PROVE  Len(Stream') - i >= Stream'[i].of.size - Stream'[i].place
    <3>1. m + i \in 1..Len(Stream) /\ Len(Stream) - (m + i) = Len(Stream') - i
          /\ Stream'[i] = Stream[m + i]
      BY <1>1
    <3>2. Len(Stream) - (m + i) >= Stream[m + i].of.size - Stream[m + i].place
      BY <2>2, <3>1 DEF Inv, PhoneThere
    <3> QED
      BY <3>1, <3>2
  <2> QED
    BY <2>1, <2>2 DEF Inv, PhoneThere
<1> QED
  BY <1>2, <1>3

----------------------------------------------------------------------------

\* The invariant holds before the first connection.
LEMMA InvInit == Init => Inv
<1> SUFFICES ASSUME Init PROVE Inv
  OBVIOUS
<1>1. Stream = <<>> /\ Len(Stream) = 0 /\ Len(buf) = 0 /\ Len(pipe) = 0
  BY NoBytes DEF Init, Stream
<1>2. TypeOK
  <2>1. packet \in Packet /\ handed \in [id : 0..MaxSent, whole : BOOLEAN]
        /\ <<>> \in Seq(Byte) /\ 2 \in 1..MaxPacket
    BY Sizes, NoBytes DEF Init, Packet
  <2> QED
    BY <1>1, <2>1, Sizes DEF Init, TypeOK
<1>3. Coherent(Stream, cut)
  BY <1>1, NoBytes
<1>4. Fresh /\ PhoneThere /\ ReaderThere
  BY <1>1 DEF Init, Fresh, PhoneThere, ReaderThere
<1> QED
  BY <1>2, <1>3, <1>4 DEF Init, Inv

\* A new connection starts empty, in front of the packet that comes next.
LEMMA InvConnect == ASSUME Inv, Connect PROVE Inv'
<1>1. /\ phone' = "open" /\ reader' = "length" /\ pipe' = <<>> /\ ended' = FALSE /\ cut' = {}
      /\ handed' = [id |-> packet.id, whole |-> TRUE]
      /\ packet' = packet /\ want' = want /\ buf' = buf /\ reader = "accept"
  BY DEF Connect
<1>2. buf = <<>> /\ want = 2
  <2>1. buf \in Seq(Byte) /\ pipe \in Seq(Byte) /\ buf \o pipe = <<>>
    BY <1>1 DEF Inv, TypeOK, ReaderThere, Stream
  <2>2. Len(buf) + Len(pipe) = 0 /\ Len(buf) \in Nat /\ Len(pipe) \in Nat
    BY <2>1, Concat, NoBytes
  <2>3. Len(buf) = 0
    BY <2>2
  <2> QED
    BY <1>1, <2>1, <2>3, Bytes DEF Inv, ReaderThere
<1>3. Stream' = <<>> /\ Len(Stream') = 0 /\ Len(pipe') = 0
  BY <1>1, <1>2, NoBytes DEF Stream
<1>4. packet.id \in 0..MaxSent
  BY DEF Inv, TypeOK, Packet
<1>5. TypeOK'
  <2>1. handed' \in [id : 0..MaxSent, whole : BOOLEAN] /\ <<>> \in Seq(Byte)
        /\ Len(buf') = 0 /\ Len(pipe') <= PipeSize
    BY <1>1, <1>2, <1>3, <1>4, NoBytes, Sizes
  <2> QED
    BY <1>1, <1>3, <2>1, Sizes DEF Inv, TypeOK
<1>6. Coherent(Stream', cut')
  BY <1>3, NoBytes
<1>7. Fresh' /\ PhoneThere' /\ ReaderThere'
  BY <1>1, <1>2, <1>3, <1>4 DEF Fresh, PhoneThere, ReaderThere
<1> QED
  BY <1>1, <1>5, <1>6, <1>7 DEF Inv

\* Nothing follows what the phone left under way.
LEMMA InvClose == ASSUME Inv, Close PROVE Inv'
<1>1. /\ phone' = "closed" /\ ended' = TRUE /\ packet' = packet /\ pipe' = pipe
      /\ reader' = reader /\ want' = want /\ buf' = buf /\ handed' = handed /\ cut' = cut
  BY DEF Close, daemon
<1>2. Stream' = Stream
  BY <1>1 DEF Stream
<1>3. TypeOK'
  BY <1>1 DEF Inv, TypeOK
<1>4. Fresh' /\ PhoneThere' /\ ReaderThere'
  BY <1>1, <1>2 DEF Inv, Fresh, PhoneThere, ReaderThere
<1> QED
  BY <1>1, <1>2, <1>3, <1>4 DEF Inv

\* What the daemon has in hand is the beginning of the stream.
LEMMA InvBreak == ASSUME Inv, Break PROVE Inv'
<1>1. /\ ~ended /\ ended' = TRUE /\ phone' = phone /\ packet' = packet
      /\ reader' = reader /\ want' = want /\ buf' = buf /\ handed' = handed /\ cut' = cut
      /\ reader # "accept"
  BY DEF Break, daemon, Inv, ReaderThere
<1>2. /\ buf \in Seq(Byte) /\ pipe \in Seq(Byte) /\ Stream \in Seq(Byte)
      /\ Len(Stream) = Len(buf) + Len(pipe) /\ Len(buf) \in Nat /\ Len(pipe) \in Nat
      /\ \A i \in 1..Len(buf) : Stream[i] = buf[i]
  BY Concat DEF Inv, TypeOK, Stream
<1>3. Stream' = Stream \/ Stream' = buf
  <2>1. Stream' = buf \o pipe' /\ (pipe' = pipe \/ pipe' = <<>>)
    BY <1>1 DEF Break, Stream
  <2>2. buf \o <<>> = buf
    BY <1>2, ConcatEmptySeq
  <2> QED
    BY <2>1, <2>2 DEF Stream
<1>4. /\ Stream' \in Seq(Byte) /\ Len(Stream') <= Len(Stream) /\ Len(Stream') \in Nat
      /\ \A i \in 1..Len(Stream') : Stream'[i] = Stream[i]
  BY <1>2, <1>3
<1>5. TypeOK'
  <2>1. Len(pipe') <= PipeSize /\ pipe' \in Seq(Byte)
    <3>1. pipe' = pipe \/ pipe' = <<>>
      BY DEF Break
    <3>2. Len(<<>>) <= PipeSize /\ <<>> \in Seq(Byte)
      BY Sizes, NoBytes
    <3> QED
      BY <1>2, <3>1, <3>2 DEF Inv, TypeOK
  <2> QED
    BY <1>1, <2>1 DEF Inv, TypeOK
<1>6. Coherent(Stream', cut')
  <2>1. 0 \in Nat /\ 0 + Len(Stream') <= Len(Stream)
        /\ \A i \in 1..Len(Stream') : Stream'[i] = Stream[0 + i]
    BY <1>2, <1>4
  <2> QED
    BY <1>1, <1>2, <1>4, <2>1, Part DEF Inv
<1>7. Fresh'
  <2>1. \A i \in 1..Len(Stream') : i \in 1..Len(Stream) /\ Stream'[i] = Stream[i]
    BY <1>2, <1>4
  <2> QED
    BY <1>1, <2>1 DEF Inv, Fresh
<1>8. PhoneThere'
  BY <1>1 DEF PhoneThere
<1>9. ReaderThere'
  <2>1. Stream' # <<>> => Stream # <<>> /\ Stream'[1] = Stream[1]
    <3>1. Stream' # <<>> => Len(Stream') > 0
      BY <1>4, Bytes
    <3>2. Stream' # <<>> => Len(Stream) > 0 /\ 1 \in 1..Len(Stream')
      BY <1>2, <1>4, <3>1
    <3> QED
      BY <1>2, <1>4, <3>2, Bytes
  <2> QED
    BY <1>1, <2>1 DEF Inv, ReaderThere
<1> QED
  BY <1>1, <1>5, <1>6, <1>7, <1>8, <1>9 DEF Inv

\* A short read moves bytes, and the stream is the same.
LEMMA InvReadSome == ASSUME Inv, ReadSome PROVE Inv'
<1>1. PICK n \in 1..want - Len(buf) - 1 : Take(n) /\ buf' = Got(n)
  BY DEF ReadSome
<1>2. /\ phone' = phone /\ packet' = packet /\ ended' = ended /\ reader' = reader
      /\ want' = want /\ handed' = handed /\ cut' = cut
  BY DEF ReadSome
<1>3. n \in 1..Len(pipe) /\ pipe' = SubSeq(pipe, n + 1, Len(pipe))
  BY <1>1 DEF Take
<1>4. /\ buf' \in Seq(Byte) /\ Len(buf') = Len(buf) + n /\ pipe' \in Seq(Byte)
      /\ Len(pipe') = Len(pipe) - n /\ buf' \o pipe' = Stream
      /\ Len(buf) \in Nat /\ Len(pipe) \in Nat
  BY <1>1, <1>3, Reads DEF Inv
<1>5. Stream' = Stream
  BY <1>4 DEF Stream
<1>6. TypeOK'
  <2>1. want \in Nat /\ PipeSize \in Nat /\ Len(pipe) <= PipeSize
    BY Sizes DEF Inv, TypeOK
  <2>2. Len(buf') < want /\ Len(pipe') <= PipeSize
    BY <1>3, <1>4, <2>1
  <2> QED
    BY <1>2, <1>4, <2>2 DEF Inv, TypeOK
<1>7. Fresh' /\ PhoneThere' /\ ReaderThere'
  BY <1>2, <1>5 DEF Inv, Fresh, PhoneThere, ReaderThere
<1> QED
  BY <1>2, <1>5, <1>6, <1>7 DEF Inv

\* What the daemon holds of a unit of `want' bytes once it is complete.
LEMMA Unit ==
    ASSUME Inv, want - Len(buf) <= Len(pipe)
    PROVE  LET n == want - Len(buf)
           IN  /\ n \in 1..Len(pipe) /\ want \in Nat \ {0}
               /\ Got(n) \in Seq(Byte) /\ Len(Got(n)) = want
               /\ Stream \in Seq(Byte) /\ Len(Stream) \in Nat /\ want <= Len(Stream)
               /\ \A i \in 1..want : Got(n)[i] = Stream[i]
               /\ Take(n) /\ buf' = <<>> =>
                     /\ pipe' \in Seq(Byte) /\ Len(pipe') <= PipeSize
                     /\ Stream' \in Seq(Byte) /\ Len(Stream') \in Nat
                     /\ want + Len(Stream') = Len(Stream)
                     /\ \A i \in 1..Len(Stream') : Stream'[i] = Stream[want + i]
<1> DEFINE n == want - Len(buf)
<1>1. want \in Nat \ {0} /\ Len(buf) < want /\ Len(buf) \in Nat /\ Len(pipe) \in Nat
      /\ Len(pipe) <= PipeSize /\ PipeSize \in Nat
  BY Sizes, LenProperties DEF Inv, TypeOK
<1>2. n \in 1..Len(pipe) /\ Len(buf) + n = want
  BY <1>1
<1> HIDE DEF n
<1>3. /\ Got(n) \in Seq(Byte) /\ Len(Got(n)) = want
      /\ Stream \in Seq(Byte) /\ Len(Stream) = Len(buf) + Len(pipe)
      /\ \A i \in 1..want : Got(n)[i] = Stream[i]
  BY <1>2, Reads DEF Inv
<1>4. want <= Len(Stream) /\ Len(Stream) \in Nat
  BY <1>1, <1>2, <1>3
<1>5. ASSUME Take(n), buf' = <<>>
      PROVE  /\ pipe' \in Seq(Byte) /\ Len(pipe') <= PipeSize
             /\ Stream' \in Seq(Byte) /\ Len(Stream') \in Nat
             /\ want + Len(Stream') = Len(Stream)
             /\ \A i \in 1..Len(Stream') : Stream'[i] = Stream[want + i]
  <2>1. pipe' = SubSeq(pipe, n + 1, Len(pipe))
    BY <1>5 DEF Take
  <2>2. /\ pipe' \in Seq(Byte) /\ Len(pipe') = Len(pipe) - n
        /\ \A i \in 1..Len(pipe') : pipe'[i] = Stream[want + i]
    BY <1>2, <2>1, Reads DEF Inv
  <2>3. Stream' = pipe'
    BY <1>5, <2>2, ConcatEmptySeq DEF Stream
  <2>4. Len(pipe') \in Nat /\ n \in Nat
    BY <1>1, <1>2, <2>2, LenProperties
  <2>5. Len(pipe') <= PipeSize
    BY <1>1, <2>2, <2>4
  <2>6. want + Len(pipe') = Len(Stream)
    <3>1. Len(Stream) = Len(buf) + Len(pipe) /\ Len(buf) + n = want
          /\ Len(pipe') = Len(pipe) - n
      BY <1>2, <1>3, <2>2
    <3> QED
      BY <1>1, <2>4, <3>1
  <2> QED
    BY <2>2, <2>3, <2>4, <2>5, <2>6
<1> QED
  BY <1>1, <1>2, <1>3, <1>4, <1>5 DEF n

----------------------------------------------------------------------------

\* A length read in front of the body it belongs to is the size of that body.
LEMMA LengthRead ==
    ASSUME NEW low, NEW high, NEW len \in Lengths(low, high),
           low.of = high.of, low.place = Low, high.place = High
    PROVE  len = low.of.size
BY DEF Lengths

\* A length is good when it fits in the buffer.
LEMMA GoodLengths ==
    ASSUME NEW low \in Byte, NEW high \in Byte, NEW len \in Lengths(low, high), GoodLength(len)
    PROVE  len \in 1..MaxPacket
<1>1. low.of.size \in Nat /\ MaxPacket \in Nat
  BY Fields, Sizes
<1>2. len \in Nat
  BY <1>1 DEF Lengths
<1> QED
  BY <1>1, <1>2 DEF GoodLength

\* The reader takes a length: wherever the body stands that it belongs to, the
\* reader wants the size of that body.
LEMMA InvReadLength == ASSUME Inv, ReadLength PROVE Inv'
<1> DEFINE n == want - Len(buf)
           s == Stream
           r == Stream'
<1>1. /\ reader = "length" /\ n <= Len(pipe)
      /\ phone' = phone /\ packet' = packet /\ handed' = handed /\ cut' = cut
  BY DEF ReadLength
<1>2. PICK len \in Lengths(Got(n)[1], Got(n)[2]) :
           IF GoodLength(len) THEN Take(n) /\ Expect("body", len) /\ UNCHANGED ended
                              ELSE HangUp
  BY DEF ReadLength
<1>3. CASE ~GoodLength(len)
  BY <1>1, <1>2, <1>3, Hung
<1>4. CASE GoodLength(len)
  <2>1. /\ Take(n) /\ reader' = "body" /\ want' = len /\ buf' = <<>> /\ ended' = ended
        /\ want = 2
    BY <1>1, <1>2, <1>4 DEF Expect, Inv, ReaderThere
  <2>2. /\ Got(n) \in Seq(Byte) /\ Len(Got(n)) = 2
        /\ s \in Seq(Byte) /\ Len(s) \in Nat /\ 2 <= Len(s)
        /\ \A i \in 1..2 : Got(n)[i] = s[i]
        /\ pipe' \in Seq(Byte) /\ Len(pipe') <= PipeSize
        /\ r \in Seq(Byte) /\ Len(r) \in Nat /\ 2 + Len(r) = Len(s)
        /\ \A i \in 1..Len(r) : r[i] = s[2 + i]
    BY <1>1, <2>1, Unit
  <2>3. Got(n)[1] = s[1] /\ Got(n)[2] = s[2] /\ s[1] \in Byte /\ s[2] \in Byte
    BY <2>2, Bytes
  <2>4. len \in 1..MaxPacket
    BY <1>4, <2>3, GoodLengths
  <2>5. s[1].of = s[2].of /\ s[1].place = Low /\ s[2].place = High => len = s[1].of.size
    BY <2>3, LengthRead
  <2> HIDE DEF n, s, r
  <2>6. Len(s) > 0 /\ s # <<>> /\ (r # <<>> => Len(r) > 0 /\ r[1] = s[3] /\ Len(s) >= 3)
        /\ (r = <<>> => Len(s) = 2)
    <3>1. (s = <<>> <=> Len(s) = 0) /\ (r = <<>> <=> Len(r) = 0)
      BY <2>2, Bytes
    <3>2. Len(r) > 0 => 1 \in 1..Len(r)
      BY <2>2
    <3> QED
      BY <2>2, <3>1, <3>2
  <2>7. /\ s[1].of.size \in Nat /\ s[1].place \in Int /\ s[2].place \in Int
        /\ s[1].of.id \in Int /\ 1 \in 1..Len(s) /\ 2 \in 1..Len(s) /\ 2 \in 2..Len(s)
    BY <2>2, Bytes
  <2>8. Coherent(s, cut) /\ Fresh /\ PhoneThere /\ ReaderThere
    BY DEF Inv, s
  <2>9. s[2].place = High => s[1].of = s[2].of /\ s[1].place = Low
    BY <2>7, <2>8 DEF Coherent, Joined, Low, High
  <2>10. r # <<>> /\ r[1].place = 1 => len = r[1].of.size
    <3> SUFFICES ASSUME r # <<>>, s[3].place = 1
                 PROVE  len = s[3].of.size
      BY <2>6
    <3>1. 3 \in 2..Len(s)
      BY <2>2, <2>6
    <3>2. s[2].of = s[3].of /\ s[2].place = High
      BY <2>8, <3>1 DEF Coherent, Joined, Low, High
    <3> QED
      BY <2>5, <2>9, <3>2
  <2>11. r = <<>> /\ ~ended /\ phone = "body" =>
            len = packet.size /\ s[1].of = packet
    <3> SUFFICES ASSUME r = <<>>, ~ended, phone = "body"
                 PROVE  len = packet.size /\ s[1].of = packet
      OBVIOUS
    <3>1. s[2] = [of |-> packet, place |-> High]
      BY <2>6, <2>8 DEF PhoneThere, s
    <3> QED
      BY <2>5, <2>9, <3>1
  <2>12. cut = {} => IF r # <<>>
                     THEN r[1].place = 1 /\ r[1].of.id = handed.id + 1
                     ELSE ~ended => phone = "body" /\ packet.id = handed.id + 1
    <3> SUFFICES ASSUME cut = {}
                 PROVE  IF r # <<>>
                        THEN r[1].place = 1 /\ r[1].of.id = handed.id + 1
                        ELSE ~ended => phone = "body" /\ packet.id = handed.id + 1
      OBVIOUS
    <3>1. s[1].place = Low /\ s[1].of.id = handed.id + 1
      BY <1>1, <2>6, <2>8 DEF ReaderThere, s
    <3>2. s[2].of = s[1].of
      <4>1. 2 - 1 <= s[1].of.size - s[1].place
        BY <2>7, <3>1 DEF Low
      <4> QED
        BY <2>7, <2>8, <4>1 DEF Coherent, Untorn
    <3>3. s[2].place = High
      BY <2>7, <2>8, <3>1, <3>2 DEF Coherent, Ordered, Low, High
    <3>4. len = s[1].of.size /\ s[1].of.size >= 1
      BY <2>4, <2>5, <3>1, <3>2, <3>3
    <3>5. CASE r # <<>>
      <4>1. 3 \in 1..Len(s) /\ 3 - 1 <= s[1].of.size - s[1].place
        BY <2>2, <2>6, <2>7, <3>1, <3>4, <3>5 DEF Low
      <4>2. s[3].of = s[1].of
        BY <2>7, <2>8, <4>1 DEF Coherent, Untorn
      <4>3. s[3].place = 1
        BY <2>7, <2>8, <3>1, <4>1, <4>2 DEF Coherent, Ordered, Low
      <4> QED
        BY <2>6, <3>1, <3>5, <4>2, <4>3
    <3>6. CASE r = <<>> /\ ~ended
      <4>1. phone = "body"
        <5>1. SUFFICES ASSUME phone # "body" PROVE FALSE
          OBVIOUS
        <5>2. Len(s) - 1 >= s[1].of.size - s[1].place
          BY <2>7, <2>8, <3>6, <5>1 DEF PhoneThere, s
        <5>3. Len(s) = 2 /\ s[1].place = -1
          BY <2>6, <3>1, <3>6 DEF Low
        <5> QED
          BY <2>7, <3>4, <5>2, <5>3
      <4> QED
        BY <2>11, <3>1, <3>6, <4>1
    <3> QED
      BY <3>5, <3>6
  <2>13. TypeOK'
    <3>1. Len(buf') < want'
      BY <2>1, <2>4, NoBytes
    <3> QED
      BY <1>1, <2>1, <2>2, <2>4, <3>1, NoBytes DEF Inv, TypeOK
  <2>14. Coherent(Stream', cut') /\ PhoneThere'
    <3>1. ~ended /\ phone = "body" => handed'.id < packet.id
      BY <1>1, <2>8 DEF PhoneThere
    <3> QED
      BY <1>1, <2>1, <2>2, <3>1, Shorter DEF s, r
  <2>15. Fresh'
    <3>1. \A i \in 1..Len(r) : 2 + i \in 1..Len(s) /\ r[i] = s[2 + i]
      BY <2>2
    <3> QED
      BY <1>1, <2>8, <3>1 DEF Fresh, s, r
  <2>16. ReaderThere'
    BY <1>1, <2>1, <2>10, <2>11, <2>12 DEF ReaderThere, r
  <2> QED
    BY <1>1, <2>13, <2>14, <2>15, <2>16 DEF Inv
<1> QED
  BY <1>3, <1>4

----------------------------------------------------------------------------

\* What is handled is the packet the stream begins with, and in a connection where
\* none was cut there is one and it is the next.
LEMMA BodyRead ==
    ASSUME Inv, ReadBody
    PROVE  /\ want \in Nat \ {0} /\ Len(Stream) \in Nat /\ want <= Len(Stream)
           /\ Stream \in Seq(Byte) /\ Stream # <<>> /\ 1 \in 1..Len(Stream)
           /\ handed' # handed =>
                 Stream[1].place = 1 /\ handed'.id = Stream[1].of.id
           /\ cut = {} =>
                 /\ Stream[1].place = 1 /\ handed'.id = Stream[1].of.id
                 /\ handed'.id = handed.id + 1 /\ want = Stream[1].of.size
           /\ handed' \in [id : 0..MaxSent, whole : BOOLEAN]
           /\ reader = "body" /\ Take(want - Len(buf)) /\ Expect("length", 2)
           /\ UNCHANGED <<phone, packet, ended, cut>>
           /\ want - Len(buf) <= Len(pipe)
<1> DEFINE n == want - Len(buf)
           s == Stream
           g == Got(n)
<1>1. /\ reader = "body" /\ Take(n) /\ handed' = Handled(g) /\ Expect("length", 2)
      /\ UNCHANGED <<phone, packet, ended, cut>>
  BY DEF ReadBody
<1>2. n <= Len(pipe)
  BY <1>1, LenProperties DEF Take, Inv, TypeOK
<1>3. /\ want \in Nat \ {0} /\ g \in Seq(Byte) /\ Len(g) = want
      /\ s \in Seq(Byte) /\ Len(s) \in Nat /\ want <= Len(s)
      /\ \A i \in 1..want : g[i] = s[i]
  BY <1>2, Unit
<1> HIDE DEF n, s, g
<1>4. s # <<>> /\ 1 \in 1..Len(s) /\ g[1] = s[1] /\ s[1] \in Byte
  BY <1>3, Bytes
<1>5. s[1].of.id \in 0..MaxSent /\ s[1].of.size \in Size \cup {0}
  BY <1>4 DEF Byte, Packet
<1>6. \/ handed' = handed /\ ~(Len(g) >= HeaderSize /\ g[1].place = 1)
      \/ /\ s[1].place = 1 /\ handed'.id = s[1].of.id /\ handed'.whole \in BOOLEAN
         /\ handed' \in [id : 0..MaxSent, whole : BOOLEAN]
  <2>1. CASE Len(g) >= HeaderSize /\ g[1].place = 1
    <3> DEFINE w == g = [i \in 1..g[1].of.size |-> [of |-> g[1].of, place |-> i]]
    <3>1. handed' = [id |-> g[1].of.id, whole |-> w]
      BY <1>1, <2>1 DEF Handled
    <3>2. w \in BOOLEAN
      OBVIOUS
    <3> HIDE DEF w
    <3> QED
      BY <1>4, <1>5, <2>1, <3>1, <3>2
  <2>2. CASE ~(Len(g) >= HeaderSize /\ g[1].place = 1)
    BY <1>1, <2>2 DEF Handled
  <2> QED
    BY <2>1, <2>2
<1>7. handed' \in [id : 0..MaxSent, whole : BOOLEAN]
  BY <1>6 DEF Inv, TypeOK
<1>8. ASSUME cut = {}
      PROVE  /\ s[1].place = 1 /\ handed'.id = s[1].of.id
             /\ handed'.id = handed.id + 1 /\ want = s[1].of.size
  <2>1. s[1].place = 1 /\ s[1].of.id = handed.id + 1 /\ want = s[1].of.size
    BY <1>1, <1>4, <1>8 DEF Inv, ReaderThere, s
  <2>2. want >= HeaderSize
    BY <1>3, <1>5, <2>1, Sizes
  <2> QED
    BY <1>3, <1>4, <1>6, <2>1, <2>2
<1> QED
  BY <1>1, <1>2, <1>3, <1>4, <1>6, <1>7, <1>8 DEF n, s

\* The reader takes a body: the packet handled does not come again, and a
\* connection where none was cut goes on with the next.
LEMMA InvReadBody == ASSUME Inv, ReadBody PROVE Inv'
<1> DEFINE s == Stream
           r == Stream'
<1>1. /\ want \in Nat \ {0} /\ Len(s) \in Nat /\ want <= Len(s)
      /\ s \in Seq(Byte) /\ s # <<>> /\ 1 \in 1..Len(s)
      /\ handed' # handed => s[1].place = 1 /\ handed'.id = s[1].of.id
      /\ cut = {} => /\ s[1].place = 1 /\ handed'.id = s[1].of.id
                     /\ handed'.id = handed.id + 1 /\ want = s[1].of.size
      /\ handed' \in [id : 0..MaxSent, whole : BOOLEAN]
      /\ reader = "body" /\ Take(want - Len(buf)) /\ Expect("length", 2)
      /\ UNCHANGED <<phone, packet, ended, cut>>
      /\ want - Len(buf) <= Len(pipe)
  BY BodyRead
<1>2. /\ reader' = "length" /\ want' = 2 /\ buf' = <<>>
      /\ phone' = phone /\ packet' = packet /\ ended' = ended /\ cut' = cut
  BY <1>1 DEF Expect
<1>3. /\ pipe' \in Seq(Byte) /\ Len(pipe') <= PipeSize
      /\ r \in Seq(Byte) /\ Len(r) \in Nat /\ want + Len(r) = Len(s)
      /\ \A i \in 1..Len(r) : r[i] = s[want + i]
  BY <1>1, <1>2, Unit
<1> HIDE DEF s, r
<1>4. /\ \A i \in 1..Len(s) : /\ s[i].of.id \in Int /\ s[i].of.size \in Nat
                              /\ s[i].place \in Int
      /\ (r = <<>> <=> Len(r) = 0)
  BY <1>1, <1>3, Bytes
<1>5. Coherent(s, cut) /\ Fresh /\ PhoneThere /\ ReaderThere
  BY DEF Inv, s
<1>6. handed.id \in Int /\ packet.id \in Int /\ handed'.id \in Int
  BY <1>1 DEF Inv, TypeOK, Packet
<1>7. ASSUME NEW i \in 1..Len(r)
      PROVE  want + i \in 1..Len(s) /\ 1 <= want + i /\ r[i] = s[want + i]
  <2>1. want \in Nat /\ Len(r) \in Nat /\ want + Len(r) = Len(s)
    BY <1>1, <1>3
  <2>2. want + i \in 1..Len(s) /\ 1 <= want + i
    BY <2>1
  <2> QED
    BY <1>3, <2>2
\* The last byte of the packet under way is not one of a body.
<1>8. ~ended /\ phone = "body" => s[Len(s)].of = packet /\ s[Len(s)].place = High
  BY <1>1, <1>5 DEF PhoneThere, s
<1>9. s[1].place = 1 /\ ~ended /\ phone = "body" => s[1].of.id < packet.id
  <2> SUFFICES ASSUME s[1].place = 1, ~ended, phone = "body", s[1].of.id = packet.id
               PROVE  FALSE
    BY <1>1, <1>4, <1>5, <1>6 DEF Fresh, s
  <2>1. Len(s) \in 1..Len(s) /\ 1 <= Len(s)
    BY <1>1
  <2>2. s[Len(s)].place = 1 + (Len(s) - 1)
    BY <1>1, <1>5, <1>8, <2>1 DEF Coherent, Ordered
  <2> QED
    BY <1>1, <1>8, <2>2 DEF High
<1>10. TypeOK'
  <2>1. Len(buf') < want' /\ want' \in 1..MaxPacket /\ buf' \in Seq(Byte)
    BY <1>2, Sizes, NoBytes
  <2> QED
    BY <1>1, <1>2, <1>3, <2>1 DEF Inv, TypeOK
<1>11. Coherent(Stream', cut') /\ PhoneThere'
  <2>1. ~ended /\ phone = "body" => handed'.id < packet.id
    BY <1>1, <1>5, <1>9 DEF PhoneThere
  <2>2. UNCHANGED <<phone, packet, ended, cut>> /\ want \in Nat
    BY <1>1
  <2> QED
    BY <1>1, <1>3, <2>1, <2>2, Shorter DEF s, r
<1>12. Fresh'
  <2>1. handed'.id <= packet.id
    BY <1>1, <1>5 DEF Fresh, s
  <2>2. ASSUME NEW i \in 1..Len(r)
        PROVE  /\ handed'.id <= r[i].of.id /\ r[i].of.id <= packet.id
               /\ r[i].of.id = handed'.id => r[i].place > 1
    <3>1. r[i] = s[want + i] /\ want + i \in 1..Len(s) /\ 1 <= want + i
      BY <1>7
    <3>2. CASE handed' = handed
      BY <1>5, <3>1, <3>2 DEF Fresh, s
    <3>3. CASE handed' # handed
      <4>1. handed'.id = s[1].of.id /\ s[1].place = 1
        BY <1>1, <3>3
      <4>2. /\ s[1].of.id <= s[want + i].of.id
            /\ s[1].of.id = s[want + i].of.id =>
                  s[want + i].place = s[1].place + ((want + i) - 1)
        BY <1>1, <1>5, <3>1 DEF Coherent, Ordered
      <4>3. s[want + i].of.id <= packet.id
        BY <1>5, <3>1 DEF Fresh, s
      <4>4. 1 + ((want + i) - 1) > 1
        BY <1>1
      <4> QED
        BY <3>1, <4>1, <4>2, <4>3, <4>4
    <3> QED
      BY <3>2, <3>3
  <2> QED
    BY <1>2, <2>1, <2>2 DEF Fresh, r
<1>13. cut = {} => IF r # <<>>
                   THEN r[1].place = Low /\ r[1].of.id = handed'.id + 1
                   ELSE ~ended => phone = "open" /\ packet.id = handed'.id
  <2> SUFFICES ASSUME cut = {}
               PROVE  IF r # <<>>
                      THEN r[1].place = Low /\ r[1].of.id = handed'.id + 1
                      ELSE ~ended => phone = "open" /\ packet.id = handed'.id
    OBVIOUS
  <2>1. s[1].place = 1 /\ handed'.id = s[1].of.id /\ want = s[1].of.size
    BY <1>1
  <2>2. CASE r # <<>>
    <3>1. 1 \in 1..Len(r) /\ want + 1 \in 1..Len(s) /\ r[1] = s[want + 1]
      BY <1>3, <1>4, <1>7, <2>2
    <3>2. (want + 1) - 1 = s[1].of.size - s[1].place + 1
      BY <1>1, <2>1
    <3>3. 1 \in 1..Len(s) /\ Followed(s, cut)
      BY <1>1, <1>5 DEF Coherent
    <3>4. s[want + 1].place = Low /\ s[want + 1].of.id = s[1].of.id + 1
      BY <3>1, <3>2, <3>3 DEF Followed
    <3> QED
      BY <2>1, <2>2, <3>1, <3>4
  <2>3. CASE r = <<>> /\ ~ended
    <3>1. Len(s) = want /\ Len(s) \in 1..Len(s) /\ 1 <= Len(s)
      BY <1>1, <1>3, <1>4, <2>3
    <3>2. s[Len(s)].of = s[1].of
      <4>1. Len(s) - 1 <= s[1].of.size - s[1].place
        BY <1>1, <2>1, <3>1
      <4> QED
        BY <1>1, <1>5, <3>1, <4>1 DEF Coherent, Untorn
    <3>3. phone # "body"
      BY <1>6, <1>8, <1>9, <2>1, <2>3, <3>2
    <3>4. phone # "closed" /\ s[Len(s)].of.id = packet.id
      BY <1>1, <1>5, <2>3 DEF PhoneThere, s
    <3> QED
      BY <2>1, <2>3, <3>2, <3>3, <3>4 DEF Inv, TypeOK
  <2> QED
    BY <2>2, <2>3
<1>14. ReaderThere'
  BY <1>2, <1>13 DEF ReaderThere, r
<1> QED
  BY <1>2, <1>10, <1>11, <1>12, <1>14 DEF Inv

\* The end of the connection takes what was read of a unit with it.
LEMMA InvReadEnd == ASSUME Inv, ReadEnd PROVE Inv'
BY Hung DEF ReadEnd

----------------------------------------------------------------------------

\* The bytes of a packet from one place on.
LEMMA Block ==
    ASSUME NEW p \in Packet, NEW first \in {Low, 1}, NEW n \in Nat, first + n - 1 <= p.size
    PROVE  LET b == [k \in 1..n |-> [of |-> p, place |-> first + k - 1]]
           IN  b \in Seq(Byte) /\ Len(b) = n
<1> DEFINE b == [k \in 1..n |-> [of |-> p, place |-> first + k - 1]]
<1>1. ASSUME NEW k \in 1..n PROVE [of |-> p, place |-> first + k - 1] \in Byte
  <2>1. p.size <= MaxPacket /\ p.size \in Nat /\ MaxPacket \in Nat
    BY Fields, Sizes
  <2>2. first + k - 1 \in Low..MaxPacket
    BY <2>1 DEF Low
  <2> QED
    BY <2>2 DEF Byte
<1>2. b \in [1..n -> Byte]
  BY <1>1
<1> HIDE DEF b
<1>3. b \in Seq(Byte) /\ Len(b) = n
  BY <1>2
<1> QED
  BY <1>3 DEF b

\* What a send does to the stream, to the phone and to what is known torn.
LEMMA Sends ==
    ASSUME TypeOK, NEW p \in Packet, NEW first \in {Low, 1}, NEW last \in Int,
           first - 1 <= last, last <= p.size, NEW sentAll,
           Send(p, first, last, sentAll), buf' = buf
    PROVE  \E n \in Nat :
              /\ first + n - 1 <= last
              /\ pipe' \in Seq(Byte) /\ Len(pipe') <= PipeSize
              /\ Stream \in Seq(Byte) /\ Stream' \in Seq(Byte)
              /\ ended => Stream' = Stream
              /\ ~ended =>
                    /\ Len(Stream') = Len(Stream) + n
                    /\ \A i \in 1..Len(Stream) : Stream'[i] = Stream[i]
                    /\ \A k \in 1..n :
                          Stream'[Len(Stream) + k] = [of |-> p, place |-> first + k - 1]
              /\ \/ first + n - 1 = last /\ phone' = sentAll /\ cut' = cut
                 \/ first + n - 1 < last /\ phone' = "open" /\ cut' = cut \cup {p.id}
<1>1. PICK upto \in first - 1..last :
          /\ pipe' = pipe \o IF ended THEN <<>>
                             ELSE [i \in 1..upto - first + 1 |->
                                      [of |-> p, place |-> first + i - 1]]
          /\ Len(pipe') <= PipeSize
          /\ phone' = IF upto = last THEN sentAll ELSE "open"
          /\ cut' = IF upto = last THEN cut ELSE cut \cup {p.id}
  BY DEF Send
<1> DEFINE n == upto - first + 1
           b == [i \in 1..n |-> [of |-> p, place |-> first + i - 1]]
<1>2. n \in Nat /\ first + n - 1 = upto /\ upto <= last /\ upto \in Int /\ first \in Int
  BY DEF Low
<1>3. p.size \in Nat
  BY Fields
<1>4. pipe' = pipe \o IF ended THEN <<>> ELSE b
  BY <1>1
<1>5. first + n - 1 <= p.size
  BY <1>2, <1>3
<1> HIDE DEF n
<1>6. b \in Seq(Byte) /\ Len(b) = n
  BY <1>2, <1>5, Block
<1>7. \A k \in 1..n : b[k] = [of |-> p, place |-> first + k - 1]
  OBVIOUS
<1> HIDE DEF b
<1>8. buf \in Seq(Byte) /\ pipe \in Seq(Byte) /\ Stream \in Seq(Byte)
  BY Concat DEF TypeOK, Stream
<1>9. ASSUME ended PROVE pipe' = pipe /\ Stream' = Stream
  <2>1. pipe' = pipe
    BY <1>4, <1>8, <1>9, ConcatEmptySeq
  <2> QED
    BY <2>1 DEF Stream
<1>10. ASSUME ~ended
       PROVE  /\ pipe' \in Seq(Byte) /\ Stream' \in Seq(Byte)
              /\ Len(Stream') = Len(Stream) + n
              /\ \A i \in 1..Len(Stream) : Stream'[i] = Stream[i]
              /\ \A k \in 1..n :
                    Stream'[Len(Stream) + k] = [of |-> p, place |-> first + k - 1]
  <2>1. pipe' = pipe \o b
    BY <1>4, <1>10
  <2>2. pipe' \in Seq(Byte)
    BY <1>6, <1>8, <2>1, Concat
  <2>3. Stream' = Stream \o b
    BY <1>6, <1>8, <2>1, Regroup, Zenon DEF Stream
  <2>4. /\ Stream' \in Seq(Byte) /\ Len(Stream') = Len(Stream) + n
        /\ \A i \in 1..Len(Stream) : Stream'[i] = Stream[i]
        /\ \A k \in 1..n : Stream'[Len(Stream) + k] = b[k]
    BY <1>6, <1>8, <2>3, Concat
  <2>5. \A k \in 1..n : Stream'[Len(Stream) + k] = [of |-> p, place |-> first + k - 1]
    BY <1>7, <2>4
  <2> QED
    BY <2>2, <2>4, <2>5
<1>11. pipe' \in Seq(Byte) /\ Len(pipe') <= PipeSize /\ Stream' \in Seq(Byte)
  BY <1>1, <1>8, <1>9, <1>10
<1>12. \/ first + n - 1 = last /\ phone' = sentAll /\ cut' = cut
       \/ first + n - 1 < last /\ phone' = "open" /\ cut' = cut \cup {p.id}
  BY <1>1, <1>2
<1>13. n \in Nat /\ first + n - 1 <= last
  BY <1>2
<1> QED
  BY <1>8, <1>9, <1>10, <1>11, <1>12, <1>13, Zenon

\* A send on a connection that has ended changes nothing the daemon will see.
LEMMA SentNowhere ==
    ASSUME Inv, ended, UNCHANGED <<ended, daemon>>, Stream' = Stream, cut \subseteq cut',
           TypeOK', packet.id <= packet'.id, phone' = "body" => packet'.id > 0
    PROVE  Inv'
<1>1. /\ ended' = ended /\ reader' = reader /\ want' = want /\ buf' = buf /\ handed' = handed
  BY DEF daemon
<1>2. Coherent(Stream', cut')
  <2>1. Stream \in Seq(Byte)
    BY Concat DEF Inv, TypeOK, Stream
  <2>2. 0 \in Nat /\ 0 + Len(Stream) <= Len(Stream)
        /\ \A i \in 1..Len(Stream) : Stream[i] = Stream[0 + i]
    BY <2>1, LenProperties
  <2> QED
    BY <2>1, <2>2, Part DEF Inv
<1>3. Fresh'
  <2>1. /\ \A i \in 1..Len(Stream) : Stream[i].of.id \in Int
        /\ handed.id \in Int /\ packet.id \in Int /\ packet'.id \in Int
    <3>1. Stream \in Seq(Byte)
      BY Concat DEF Inv, TypeOK, Stream
    <3> QED
      BY <3>1, Bytes DEF Inv, TypeOK, Packet
  <2> QED
    BY <1>1, <2>1 DEF Inv, Fresh
<1>4. PhoneThere' /\ ReaderThere'
  BY <1>1 DEF Inv, PhoneThere, ReaderThere
<1> QED
  BY <1>2, <1>3, <1>4 DEF Inv

\* The stream r is the stream s and n bytes of packet p from place `first' on.
Grown(s, r, n, p, first) ==
    /\ Len(s) \in Nat /\ Len(r) \in Nat
    /\ \A i \in 1..Len(r) :
          \/ i \in 1..Len(s) /\ r[i] = s[i]
          \/ /\ i - Len(s) \in 1..n /\ r[i].of = p
             /\ r[i].place = first + (i - Len(s)) - 1
    /\ s = <<>> <=> Len(s) = 0
    /\ r = <<>> <=> Len(r) = 0
    /\ s # <<>> => r # <<>> /\ r[1] = s[1]
    /\ s = <<>> /\ r # <<>> => n > 0 /\ r[1] = [of |-> p, place |-> first]
    /\ n > 0 => r[Len(r)] = [of |-> p, place |-> first + n - 1]

\* A send that reaches the connection makes the stream grow.
LEMMA Behind ==
    ASSUME NEW s \in Seq(Byte), NEW r \in Seq(Byte), NEW n \in Nat, NEW p \in Packet,
           NEW first \in {Low, 1}, Len(r) = Len(s) + n,
           \A i \in 1..Len(s) : r[i] = s[i],
           \A k \in 1..n : r[Len(s) + k] = [of |-> p, place |-> first + k - 1]
    PROVE  Grown(s, r, n, p, first)
<1>1. Len(s) \in Nat /\ Len(r) \in Nat /\ (s = <<>> <=> Len(s) = 0) /\ (r = <<>> <=> Len(r) = 0)
  BY Bytes
<1>2. ASSUME NEW i \in 1..Len(r), i \notin 1..Len(s)
      PROVE  /\ i - Len(s) \in 1..n /\ r[i].of = p
             /\ r[i].place = first + (i - Len(s)) - 1
  <2>1. i - Len(s) \in 1..n /\ Len(s) + (i - Len(s)) = i
    BY <1>1, <1>2
  <2>2. r[i] = [of |-> p, place |-> first + (i - Len(s)) - 1]
    BY <2>1
  <2> QED
    BY <2>1, <2>2
<1>3. s # <<>> => r # <<>> /\ r[1] = s[1]
  BY <1>1
<1>4. ASSUME s = <<>>, r # <<>>
      PROVE  n > 0 /\ r[1] = [of |-> p, place |-> first]
  <2>1. n > 0 /\ Len(s) = 0
    BY <1>1, <1>4
  <2>2. 1 \in 1..n /\ Len(s) + 1 = 1 /\ first + 1 - 1 = first
    BY <2>1 DEF Low
  <2>3. r[Len(s) + 1] = [of |-> p, place |-> first + 1 - 1]
    BY <2>2
  <2> QED
    BY <2>1, <2>2, <2>3
<1>5. n > 0 => r[Len(r)] = [of |-> p, place |-> first + n - 1]
  BY <1>1
<1> QED
  BY <1>1, <1>2, <1>3, <1>4, <1>5 DEF Grown

\* A length is sent where the packet before it ends, or was cut.
LEMMA InvSendLength == ASSUME Inv, SendLength PROVE Inv'
<1> DEFINE s == Stream
           r == Stream'
<1>1. PICK size \in Size : packet' = [id |-> packet.id + 1, size |-> size]
  BY DEF SendLength
<1> DEFINE p == [id |-> packet.id + 1, size |-> size]
<1>2. /\ phone = "open" /\ packet.id < MaxSent /\ ended' = ended /\ packet' = p
      /\ reader' = reader /\ want' = want /\ buf' = buf /\ handed' = handed
      /\ UNCHANGED <<ended, daemon>>
  BY <1>1 DEF SendLength, daemon
<1>3. /\ p \in Packet /\ p.id = packet.id + 1 /\ packet.id \in Nat /\ p.size \in Nat
      /\ p.size = size
  <2>1. packet.id \in 0..MaxSent /\ MaxSent \in Nat
    BY Sizes DEF Inv, TypeOK, Packet
  <2>2. packet.id + 1 \in 0..MaxSent
    BY <1>2, <2>1
  <2> QED
    BY <2>1, <2>2, Sizes DEF Packet
<1>4. Send(p, Low, High, "body")
  BY <1>1 DEF SendLength
<1> HIDE DEF p, s, r
<1>5. PICK n \in Nat :
              /\ Low + n - 1 <= High
              /\ pipe' \in Seq(Byte) /\ Len(pipe') <= PipeSize
              /\ s \in Seq(Byte) /\ r \in Seq(Byte)
              /\ ended => r = s
              /\ ~ended =>
                    /\ Len(r) = Len(s) + n
                    /\ \A i \in 1..Len(s) : r[i] = s[i]
                    /\ \A k \in 1..n : r[Len(s) + k] = [of |-> p, place |-> Low + k - 1]
              /\ \/ Low + n - 1 = High /\ phone' = "body" /\ cut' = cut
                 \/ Low + n - 1 < High /\ phone' = "open" /\ cut' = cut \cup {p.id}
  <2>1. High \in Int /\ Low - 1 <= High /\ High <= p.size /\ TypeOK
    BY <1>3 DEF Low, High, Inv
  <2> QED
    BY <1>2, <1>3, <1>4, <2>1, Sends, Zenon DEF s, r
<1>6. TypeOK'
  <2>1. p.id \in 1..MaxSent
    BY <1>2, <1>3, Sizes
  <2>2. phone' \in {"closed", "open", "body"} /\ cut' \subseteq 1..MaxSent
    BY <1>5, <2>1 DEF Inv, TypeOK
  <2> QED
    BY <1>2, <1>3, <1>5, <2>2 DEF Inv, TypeOK
<1>7. CASE ended
  <2>1. cut \subseteq cut' /\ packet.id <= packet'.id /\ packet'.id > 0
    BY <1>2, <1>3, <1>5
  <2> QED
    BY <1>2, <1>5, <1>6, <1>7, <2>1, SentNowhere DEF s, r
<1>8. CASE ~ended
  <2>1. Coherent(s, cut) /\ Fresh /\ PhoneThere /\ ReaderThere
    BY DEF Inv, s
  <2>2. /\ Len(s) \in Nat /\ Len(r) \in Nat
        /\ \A i \in 1..Len(r) :
              \/ i \in 1..Len(s) /\ r[i] = s[i]
              \/ /\ i - Len(s) \in 1..n /\ r[i].of = p
                 /\ r[i].place = Low + (i - Len(s)) - 1
        /\ s = <<>> <=> Len(s) = 0
        /\ r = <<>> <=> Len(r) = 0
        /\ s # <<>> => r # <<>> /\ r[1] = s[1]
        /\ s = <<>> /\ r # <<>> => n > 0 /\ r[1] = [of |-> p, place |-> Low]
        /\ n > 0 => r[Len(r)] = [of |-> p, place |-> Low + n - 1]
    <3>1. Low \in {Low, 1} /\ s \in Seq(Byte) /\ r \in Seq(Byte) /\ p \in Packet
      BY <1>3, <1>5
    <3>3. /\ Len(r) = Len(s) + n
          /\ \A i \in 1..Len(s) : r[i] = s[i]
          /\ \A k \in 1..n : r[Len(s) + k] = [of |-> p, place |-> Low + k - 1]
      BY <1>5, <1>8
    <3>2. Grown(s, r, n, p, Low)
      BY <3>1, <3>3, Behind, Zenon
    <3> QED
      BY <3>2 DEF Grown
  <2>3. \A i \in 1..Len(s) : /\ s[i].of.id \in Int /\ s[i].of.size \in Nat /\ s[i].place \in Int
                             /\ handed.id <= s[i].of.id /\ s[i].of.id <= packet.id
                             /\ s[i].of.id = handed.id => s[i].place > 1
                             /\ s[i].of.id \notin cut => Len(s) - i >= s[i].of.size - s[i].place
    <3>1. \A i \in 1..Len(s) : s[i].of.id \in Int /\ s[i].of.size \in Nat /\ s[i].place \in Int
      BY <1>5, Bytes
    <3>2. \A i \in 1..Len(s) : /\ handed.id <= s[i].of.id /\ s[i].of.id <= packet.id
                               /\ s[i].of.id = handed.id => s[i].place > 1
      BY <2>1 DEF Fresh, s
    <3>3. \A i \in 1..Len(s) :
             s[i].of.id \notin cut => Len(s) - i >= s[i].of.size - s[i].place
      BY <1>2, <1>8, <2>1 DEF PhoneThere, s
    <3> QED
      BY <3>1, <3>2, <3>3
  <2>4. handed.id \in Int /\ handed.id <= packet.id /\ handed.id < p.id
    BY <1>3, <2>1 DEF Fresh, Inv, TypeOK
  <2>5. Coherent(r, cut)
    <3>1. Low + n - 1 <= p.size /\ Low # 1 /\ Low \in {Low, 1}
      BY <1>3, <1>5 DEF Low, High
    <3>2. ASSUME NEW i \in 1..Len(s)
          PROVE  /\ s[i].of.id <= p.id
                 /\ s[i].of.id = p.id => /\ Low = 1 /\ s[i].of = p
                                         /\ s[i].place = High - (Len(s) - i)
                 /\ s[i].of.id \notin cut /\ s[i].of.id < p.id
                       => Len(s) - i >= s[i].of.size - s[i].place
      <4>1. s[i].of.id \in Int /\ s[i].of.id <= packet.id
        BY <2>3
      <4>2. s[i].of.id < p.id /\ s[i].of.id <= p.id /\ s[i].of.id # p.id
        BY <1>3, <4>1
      <4> QED
        BY <2>3, <4>2
    <3>3. /\ Low = Low /\ Len(s) > 0 /\ cut = {} => s[Len(s)].of.id = p.id - 1
          /\ Low = 1 /\ Len(s) > 0 => s[Len(s)] = [of |-> p, place |-> High]
      BY <1>3, <1>8, <2>1, <2>2, <3>1 DEF PhoneThere, s
    <3>4. Len(r) = Len(s) + n
          /\ \A i \in 1..Len(s) : r[i] = s[i]
          /\ \A k \in 1..n : r[Len(s) + k] = [of |-> p, place |-> Low + k - 1]
      BY <1>5, <1>8
    <3> QED
      BY <1>3, <1>5, <2>1, <3>1, <3>2, <3>3, <3>4, Extended, Zenon
  <2>6. Coherent(Stream', cut')
    <3>1. 0 \in Nat /\ 0 + Len(r) <= Len(r) /\ cut \subseteq cut'
          /\ \A i \in 1..Len(r) : r[i] = r[0 + i]
      BY <1>5, <2>2
    <3> QED
      BY <1>5, <2>5, <3>1, Part DEF r
  <2>7. Fresh'
    <3>1. ASSUME NEW i \in 1..Len(r)
          PROVE  /\ handed.id <= r[i].of.id /\ r[i].of.id <= p.id
                 /\ r[i].of.id = handed.id => r[i].place > 1
      <4>1. CASE i \in 1..Len(s) /\ r[i] = s[i]
        BY <1>3, <2>3, <4>1
      <4>2. CASE r[i].of = p
        BY <1>3, <2>4, <4>2
      <4> QED
        BY <2>2, <4>1, <4>2
    <3>2. handed.id <= p.id
      BY <1>3, <2>4
    <3> QED
      BY <1>2, <3>1, <3>2 DEF Fresh, r
  <2>8. PhoneThere'
    <3>1. phone' = "body" => r[Len(r)] = [of |-> p, place |-> High]
      BY <1>5, <2>2 DEF Low, High
    <3>2. ASSUME NEW i \in 1..Len(r), r[i].of.id \notin cut',
                 phone' = "body" => r[i].of.id < p.id
          PROVE  Len(r) - i >= r[i].of.size - r[i].place
      <4>1. i \in 1..Len(s) /\ r[i] = s[i]
        <5>1. r[i].of # p
          BY <1>3, <1>5, <3>2
        <5> QED
          BY <2>2, <5>1
      <4>2. s[i].of.id \notin cut
        BY <1>5, <3>2, <4>1
      <4>3. Len(s) - i >= s[i].of.size - s[i].place
        BY <2>3, <4>1, <4>2
      <4>4. s[i].of.size - s[i].place \in Int /\ Len(r) >= Len(s)
        BY <1>5, <1>8, <2>2, <2>3, <4>1
      <4> QED
        BY <2>2, <4>1, <4>3, <4>4
    <3>3. cut' = {} /\ r # <<>> => r[Len(r)].of.id = p.id
      BY <1>5, <3>1
    <3>4. phone' # "closed"
      BY <1>5
    <3> QED
      BY <1>2, <2>4, <3>1, <3>2, <3>3, <3>4 DEF PhoneThere, r
  <2>9. ReaderThere'
    <3>1. reader # "accept"
      BY <1>8, <2>1 DEF ReaderThere
    <3>2. reader = "body" /\ r # <<>> /\ r[1].place = 1 => want = r[1].of.size
      BY <2>1, <2>2 DEF ReaderThere, s, Low
    <3>3. phone' = "body" => r # <<>>
      <4>1. phone' = "body" => n = 2
        BY <1>5 DEF Low, High
      <4> QED
        BY <1>5, <1>8, <2>2, <4>1
    <3>4. cut' = {} /\ reader = "length" =>
            r # <<>> /\ r[1].place = Low /\ r[1].of.id = handed.id + 1
      <4> SUFFICES ASSUME cut' = {}, reader = "length"
                   PROVE  r # <<>> /\ r[1].place = Low /\ r[1].of.id = handed.id + 1
        OBVIOUS
      <4>1. cut = {} /\ r # <<>>
        BY <1>5, <3>3
      <4>2. CASE s # <<>>
        BY <2>1, <2>2, <4>1, <4>2 DEF ReaderThere, s
      <4>3. CASE s = <<>>
        <5>1. packet.id = handed.id
          BY <1>8, <2>1, <4>1, <4>3 DEF ReaderThere, s
        <5> QED
          BY <1>3, <2>2, <4>1, <4>3, <5>1
      <4> QED
        BY <4>2, <4>3
    <3>5. cut' = {} /\ reader = "body" =>
            r # <<>> /\ r[1].place = 1 /\ r[1].of.id = handed.id + 1
      <4> SUFFICES ASSUME cut' = {}, reader = "body"
                   PROVE  r # <<>> /\ r[1].place = 1 /\ r[1].of.id = handed.id + 1
        OBVIOUS
      <4>1. cut = {}
        BY <1>5
      <4>2. s # <<>>
        BY <1>2, <1>8, <2>1, <4>1 DEF ReaderThere, s
      <4> QED
        BY <2>1, <2>2, <4>1, <4>2 DEF ReaderThere, s
    <3> QED
      BY <1>2, <2>1, <3>1, <3>2, <3>3, <3>4, <3>5 DEF ReaderThere, r
  <2> QED
    BY <1>2, <1>3, <1>6, <2>6, <2>7, <2>8, <2>9 DEF Inv
<1> QED
  BY <1>7, <1>8

\* A body is sent right behind its length.
LEMMA InvSendBody == ASSUME Inv, SendBody PROVE Inv'
<1> DEFINE s == Stream
           r == Stream'
           p == packet
<1>1. /\ phone = "body" /\ ended' = ended /\ packet' = p /\ Send(p, 1, p.size, "open")
      /\ reader' = reader /\ want' = want /\ buf' = buf /\ handed' = handed
      /\ UNCHANGED <<ended, daemon>>
  BY DEF SendBody, daemon
<1>2. p \in Packet /\ p.id \in Int /\ p.id > 0 /\ p.size \in Nat
  BY <1>1, Fields DEF Inv, TypeOK
<1> HIDE DEF p, s, r
<1>3. PICK n \in Nat :
              /\ 1 + n - 1 <= p.size
              /\ pipe' \in Seq(Byte) /\ Len(pipe') <= PipeSize
              /\ s \in Seq(Byte) /\ r \in Seq(Byte)
              /\ ended => r = s
              /\ ~ended =>
                    /\ Len(r) = Len(s) + n
                    /\ \A i \in 1..Len(s) : r[i] = s[i]
                    /\ \A k \in 1..n : r[Len(s) + k] = [of |-> p, place |-> 1 + k - 1]
              /\ \/ 1 + n - 1 = p.size /\ phone' = "open" /\ cut' = cut
                 \/ 1 + n - 1 < p.size /\ phone' = "open" /\ cut' = cut \cup {p.id}
  <2>1. 1 \in {Low, 1} /\ p.size \in Int /\ 1 - 1 <= p.size /\ p.size <= p.size /\ TypeOK
    BY <1>2 DEF Inv
  <2> QED
    BY <1>1, <1>2, <2>1, Sends, Zenon DEF s, r
<1>4. /\ n <= p.size /\ phone' = "open" /\ cut \subseteq cut'
      /\ \/ n = p.size /\ cut' = cut
         \/ n < p.size /\ cut' = cut \cup {p.id}
  BY <1>2, <1>3
<1>5. TypeOK'
  <2>1. cut' \subseteq 1..MaxSent
    BY <1>2, <1>4, Sizes DEF Inv, TypeOK, Packet, p
  <2> QED
    BY <1>1, <1>2, <1>3, <1>4, <2>1 DEF Inv, TypeOK
<1>6. CASE ended
  <2>1. packet.id <= packet'.id /\ (phone' = "body" => packet'.id > 0)
    BY <1>1, <1>2, <1>4 DEF p
  <2> QED
    BY <1>1, <1>3, <1>4, <1>5, <1>6, <2>1, SentNowhere DEF s, r
<1>7. CASE ~ended
  <2>1. Coherent(s, cut) /\ Fresh /\ PhoneThere /\ ReaderThere
    BY DEF Inv, s
  <2>2. Grown(s, r, n, p, 1)
    <3>1. 1 \in {Low, 1} /\ s \in Seq(Byte) /\ r \in Seq(Byte) /\ p \in Packet
      BY <1>2, <1>3
    <3>2. /\ Len(r) = Len(s) + n
          /\ \A i \in 1..Len(s) : r[i] = s[i]
          /\ \A k \in 1..n : r[Len(s) + k] = [of |-> p, place |-> 1 + k - 1]
      BY <1>3, <1>7
    <3> QED
      BY <3>1, <3>2, Behind, Zenon
  <2>3. s # <<>> => s[Len(s)] = [of |-> p, place |-> High]
    BY <1>1, <1>7, <2>1 DEF PhoneThere, s, p
  <2>4. ASSUME NEW i \in 1..Len(s)
        PROVE  /\ s[i].of.id \in Int /\ s[i].of.size \in Nat /\ s[i].place \in Int
               /\ handed.id <= s[i].of.id /\ s[i].of.id <= p.id
               /\ s[i].of.id = handed.id => s[i].place > 1
               /\ s[i].of.id = p.id => s[i].of = p /\ s[i].place = High - (Len(s) - i)
               /\ s[i].of.id \notin cut /\ s[i].of.id < p.id
                     => Len(s) - i >= s[i].of.size - s[i].place
    <3>1. s[i].of.id \in Int /\ s[i].of.size \in Nat /\ s[i].place \in Int
      BY <1>3, Bytes
    <3>2. /\ handed.id <= s[i].of.id /\ s[i].of.id <= p.id
          /\ s[i].of.id = handed.id => s[i].place > 1
      BY <2>1 DEF Fresh, s, p
    <3>3. s[i].of.id \notin cut /\ s[i].of.id < p.id
             => Len(s) - i >= s[i].of.size - s[i].place
      BY <1>1, <1>7, <2>1 DEF PhoneThere, s, p
    <3>4. ASSUME s[i].of.id = p.id
          PROVE  s[i].of = p /\ s[i].place = High - (Len(s) - i)
      <4>1. Len(s) \in 1..Len(s) /\ i <= Len(s) /\ Len(s) \in Nat /\ s # <<>>
        BY <2>2 DEF Grown
      <4>2. s[Len(s)].of = p /\ s[Len(s)].place = High
        BY <2>3, <4>1
      <4>3. s[Len(s)].of = s[i].of /\ s[Len(s)].place = s[i].place + (Len(s) - i)
        BY <2>1, <3>4, <4>1, <4>2 DEF Coherent, Ordered
      <4> QED
        BY <3>1, <4>1, <4>2, <4>3 DEF High
    <3> QED
      BY <3>1, <3>2, <3>3, <3>4
  <2>5. handed.id \in Int /\ handed.id < p.id
    BY <1>1, <1>7, <2>1 DEF PhoneThere, Inv, TypeOK, p
  <2>6. Coherent(r, cut)
    <3>1. 1 + n - 1 <= p.size /\ 1 # Low /\ 1 \in {Low, 1} /\ 1 = 1
      BY <1>3 DEF Low
    <3>2. \A i \in 1..Len(s) :
             /\ s[i].of.id <= p.id
             /\ s[i].of.id = p.id => /\ 1 = 1 /\ s[i].of = p
                                     /\ s[i].place = High - (Len(s) - i)
             /\ s[i].of.id \notin cut /\ s[i].of.id < p.id
                   => Len(s) - i >= s[i].of.size - s[i].place
      BY <2>4
    <3>3. /\ 1 = 1 /\ Len(s) > 0 => s[Len(s)] = [of |-> p, place |-> High]
          /\ 1 = Low /\ Len(s) > 0 /\ cut = {} => s[Len(s)].of.id = p.id - 1
      BY <2>2, <2>3, <3>1 DEF Grown
    <3>4. Len(r) = Len(s) + n
          /\ \A i \in 1..Len(s) : r[i] = s[i]
          /\ \A k \in 1..n : r[Len(s) + k] = [of |-> p, place |-> 1 + k - 1]
      BY <1>3, <1>7
    <3> QED
      BY <1>2, <1>3, <2>1, <3>1, <3>2, <3>3, <3>4, Extended, Zenon
  <2>7. Coherent(Stream', cut')
    <3>1. 0 \in Nat /\ 0 + Len(r) <= Len(r) /\ cut \subseteq cut'
          /\ \A i \in 1..Len(r) : r[i] = r[0 + i]
      BY <1>4, <2>2 DEF Grown
    <3> QED
      BY <1>3, <2>6, <3>1, Part DEF r
  <2>8. ASSUME NEW i \in 1..Len(r)
        PROVE  \/ i \in 1..Len(s) /\ r[i] = s[i]
               \/ /\ i - Len(s) \in 1..n /\ r[i].of = p /\ r[i].place = i - Len(s)
                  /\ i \in Int /\ Len(s) \in Nat
    BY <2>2 DEF Grown
  <2>9. Fresh'
    <3>1. ASSUME NEW i \in 1..Len(r)
          PROVE  /\ handed.id <= r[i].of.id /\ r[i].of.id <= p.id
                 /\ r[i].of.id = handed.id => r[i].place > 1
      <4>1. CASE i \in 1..Len(s) /\ r[i] = s[i]
        BY <2>4, <4>1
      <4>2. CASE r[i].of = p
        BY <1>2, <2>5, <4>2
      <4> QED
        BY <2>8, <4>1, <4>2
    <3> QED
      BY <1>1, <1>2, <2>5, <3>1 DEF Fresh, r
  <2>10. PhoneThere'
    <3>1. ASSUME NEW i \in 1..Len(r), r[i].of.id \notin cut'
          PROVE  Len(r) - i >= r[i].of.size - r[i].place
      <4>1. Len(r) = Len(s) + n /\ Len(s) \in Nat /\ i \in Int
        BY <1>3, <1>7, <2>2 DEF Grown
      <4>2. r[i].of.id = p.id => n = p.size
        BY <1>4, <3>1
      <4>3. CASE i \in 1..Len(s) /\ r[i] = s[i]
        <5>1. CASE s[i].of.id = p.id
          <6>1. s[i].of.size = n /\ s[i].place = 0 - (Len(s) - i)
            BY <2>4, <4>2, <4>3, <5>1 DEF High
          <6> QED
            BY <4>1, <4>3, <6>1
        <5>2. CASE s[i].of.id # p.id
          <6>1. s[i].of.id < p.id /\ s[i].of.id \notin cut
            BY <1>2, <1>4, <2>4, <3>1, <4>3, <5>2
          <6>2. Len(s) - i >= s[i].of.size - s[i].place
                /\ s[i].of.size - s[i].place \in Int
            BY <2>4, <4>3, <6>1
          <6> QED
            BY <4>1, <4>3, <6>2
        <5> QED
          BY <5>1, <5>2
      <4>4. CASE r[i].of = p /\ r[i].place = i - Len(s)
        BY <4>1, <4>2, <4>4
      <4> QED
        BY <2>8, <4>3, <4>4
    <3>2. cut' = {} /\ r # <<>> => r[Len(r)].of.id = p.id
      <4>1. CASE n > 0
        BY <2>2, <4>1 DEF Grown
      <4>2. CASE n = 0 /\ r # <<>>
        <5>1. Len(r) = Len(s) /\ Len(r) \in 1..Len(r) /\ s # <<>>
          BY <1>3, <1>7, <2>2, <4>2 DEF Grown
        <5>2. r[Len(r)] = s[Len(s)]
          BY <1>3, <1>7, <5>1
        <5> QED
          BY <2>3, <5>1, <5>2
      <4> QED
        BY <4>1, <4>2
    <3> QED
      BY <1>1, <1>4, <3>1, <3>2 DEF PhoneThere, r
  <2>11. ReaderThere'
    <3>1. reader # "accept"
      BY <1>7, <2>1 DEF ReaderThere
    <3>2. /\ s # <<>> => r # <<>> /\ r[1] = s[1]
          /\ s = <<>> /\ r # <<>> => r[1] = [of |-> p, place |-> 1]
      BY <2>2 DEF Grown
    <3>3. reader = "body" /\ s = <<>> => want = p.size
      BY <1>1, <1>7, <2>1 DEF ReaderThere, s, p
    <3>4. reader = "body" /\ r # <<>> /\ r[1].place = 1 => want = r[1].of.size
      BY <2>1, <3>2, <3>3 DEF ReaderThere, s
    <3>5. cut' = {} /\ reader = "length" =>
            r # <<>> /\ r[1].place = Low /\ r[1].of.id = handed.id + 1
      BY <1>1, <1>4, <1>7, <2>1, <3>2 DEF ReaderThere, s
    <3>6. cut' = {} /\ reader = "body" =>
            r # <<>> /\ r[1].place = 1 /\ r[1].of.id = handed.id + 1
      <4> SUFFICES ASSUME cut' = {}, reader = "body"
                   PROVE  r # <<>> /\ r[1].place = 1 /\ r[1].of.id = handed.id + 1
        OBVIOUS
      <4>1. cut = {} /\ n = p.size
        BY <1>4
      <4>2. CASE s # <<>>
        BY <2>1, <3>2, <4>1, <4>2 DEF ReaderThere, s
      <4>3. CASE s = <<>>
        <5>1. p.id = handed.id + 1 /\ want = p.size
          BY <1>7, <2>1, <3>3, <4>1, <4>3 DEF ReaderThere, s, p
        <5>2. n > 0
          BY <4>1, <5>1 DEF Inv, TypeOK
        <5>3. r # <<>>
          BY <1>3, <1>7, <2>2, <5>2 DEF Grown
        <5> QED
          BY <3>2, <4>3, <5>1, <5>3
      <4> QED
        BY <4>2, <4>3
    <3> QED
      BY <1>1, <1>4, <2>1, <3>1, <3>4, <3>5, <3>6 DEF ReaderThere, r
  <2> QED
    BY <1>1, <1>4, <1>5, <2>7, <2>9, <2>10, <2>11 DEF Inv
<1> QED
  BY <1>6, <1>7

----------------------------------------------------------------------------

\* A step of anything else changes nothing.
LEMMA InvStutter == ASSUME Inv, UNCHANGED vars PROVE Inv'
<1>1. /\ phone' = phone /\ packet' = packet /\ pipe' = pipe /\ ended' = ended
      /\ reader' = reader /\ want' = want /\ buf' = buf /\ handed' = handed /\ cut' = cut
  BY DEF vars, daemon
<1>2. Stream' = Stream
  BY <1>1 DEF Stream
<1>3. TypeOK' /\ Fresh' /\ PhoneThere' /\ ReaderThere'
  BY <1>1, <1>2 DEF Inv, TypeOK, Fresh, PhoneThere, ReaderThere
<1> QED
  BY <1>1, <1>2, <1>3 DEF Inv

\* The invariant holds in every reachable state.
THEOREM Invariance == Spec => []Inv
<1>1. ASSUME Inv, [Next]_vars PROVE Inv'
  BY <1>1, InvConnect, InvSendLength, InvSendBody, InvClose, InvBreak, InvReadSome,
     InvReadLength, InvReadBody, InvReadEnd, InvStutter DEF Next
<1> QED
  BY InvInit, <1>1, PTL DEF Spec

\* Every variable keeps its type: the reader never asks for more than the buffer
\* holds, and never has more than it asked for.
THEOREM TypeCorrect == Spec => []TypeOK
<1>1. Inv => TypeOK
  BY DEF Inv
<1> QED
  BY <1>1, Invariance, PTL

\* A packet that was not cut is whole when it is handled.
LEMMA WholeUnlessCut ==
    ASSUME Inv, ReadBody, handed' # handed, handed'.id \notin cut
    PROVE  handed'.whole
<1> DEFINE s == Stream
           g == Got(want - Len(buf))
<1>1. /\ want \in Nat \ {0} /\ want <= Len(s) /\ s # <<>> /\ s \in Seq(Byte)
      /\ Len(s) \in Nat /\ 1 \in 1..Len(s)
      /\ s[1].place = 1 /\ handed'.id = s[1].of.id /\ want - Len(buf) <= Len(pipe)
      /\ reader = "body"
  BY BodyRead
<1>2. g \in Seq(Byte) /\ Len(g) = want /\ \A i \in 1..want : g[i] = s[i]
  BY <1>1, Unit
<1>3. handed' = Handled(g)
  BY DEF ReadBody
<1> HIDE DEF s, g
<1>4. want = s[1].of.size
  BY <1>1 DEF Inv, ReaderThere, s
<1> DEFINE p == g[1].of
           w == [i \in 1..p.size |-> [of |-> p, place |-> i]]
<1>5. g[1] = s[1] /\ p = s[1].of /\ p.size = want
  BY <1>1, <1>2, <1>4
<1>6. ASSUME NEW i \in 1..want PROVE g[i] = [of |-> p, place |-> i]
  <2>1. i \in 1..Len(s) /\ 1 <= i /\ i \in Int /\ i - 1 <= s[1].of.size - s[1].place
    BY <1>1, <1>4
  <2>2. s[i].of = s[1].of
    BY <1>1, <2>1 DEF Inv, Coherent, Untorn, s
  <2>3. s[i].place = 1 + (i - 1)
    BY <1>1, <2>1, <2>2 DEF Inv, Coherent, Ordered, s
  <2>4. s[i] \in Byte /\ s[i].of = p /\ s[i].place = i
    BY <1>1, <1>5, <2>1, <2>2, <2>3, Bytes
  <2>5. s[i] = [of |-> s[i].of, place |-> s[i].place]
    BY <2>4 DEF Byte
  <2> QED
    BY <1>2, <2>4, <2>5
<1> HIDE DEF p
<1>7. g = w
  <2>1. g = [i \in 1..want |-> g[i]]
    BY <1>2, LenProperties
  <2> QED
    BY <1>5, <1>6, <2>1
<1>8. Len(g) >= HeaderSize /\ g[1].place = 1
  <2> SUFFICES ASSUME ~(Len(g) >= HeaderSize /\ g[1].place = 1) PROVE FALSE
    OBVIOUS
  <2> QED
    BY <1>3 DEF Handled
<1>9. handed' = [id |-> p.id, whole |-> g = w]
  BY <1>3, <1>8 DEF Handled, p
<1> HIDE DEF w
<1> QED
  BY <1>7, <1>9

\* What a packet handled is, whatever was cut or lost on the way to the daemon.
LEMMA HandedNew ==
    ASSUME Inv, ReadBody, handed' # handed
    PROVE  /\ handed'.id > handed.id
           /\ cut = {} => handed'.id = handed.id + 1
<1>1. /\ Stream[1].place = 1 /\ handed'.id = Stream[1].of.id
      /\ 1 \in 1..Len(Stream) /\ Stream \in Seq(Byte)
      /\ cut = {} => handed'.id = handed.id + 1
  BY BodyRead
<1>2. handed.id <= Stream[1].of.id /\ (Stream[1].of.id = handed.id => Stream[1].place > 1)
  BY <1>1 DEF Inv, Fresh
<1>3. Stream[1].of.id \in Int /\ handed.id \in Int
  BY <1>1, Bytes DEF Inv, TypeOK
<1> QED
  BY <1>1, <1>2, <1>3

\* Only a body that was read is handled.
LEMMA OnlyRead ==
    ASSUME [Next]_vars, reader = "body", handed' # handed
    PROVE  ReadBody
BY DEF Next, vars, daemon, Connect, SendLength, SendBody, Close, Break, ReadSome, ReadLength,
       ReadEnd

\* Whatever is cut or lost, a packet that passes the daemon's checks is new, whole
\* unless its own send was cut, and until a send is cut the next one.
THEOREM AlwaysHandedWhole == Spec => HandedWhole
<1>1. Inv /\ [Next]_vars =>
        [reader = "body" /\ handed' # handed =>
           /\ handed'.id > handed.id
           /\ handed'.whole \/ handed'.id \in cut
           /\ cut = {} => handed'.id = handed.id + 1]_vars
  <2> SUFFICES ASSUME Inv, [Next]_vars, reader = "body", handed' # handed
               PROVE  /\ handed'.id > handed.id
                      /\ handed'.whole \/ handed'.id \in cut
                      /\ cut = {} => handed'.id = handed.id + 1
    OBVIOUS
  <2>1. ReadBody
    BY OnlyRead
  <2> QED
    BY <2>1, WholeUnlessCut, HandedNew
<1> QED
  BY <1>1, Invariance, PTL DEF Spec, HandedWhole
=============================================================================
