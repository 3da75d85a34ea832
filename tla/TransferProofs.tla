---------------------------- MODULE TransferProofs ----------------------------
(***************************************************************************)
(* Proofs about the wire format: for any commands, any number of messages  *)
(* and of bytes between them, the reader returns what was sent, skips      *)
(* nothing, and panics only at a magic number outside of a message.        *)
(***************************************************************************)
EXTENDS Transfer, SequenceTheorems, TLAPS

-----------------------------------------------------------------------------
(***************************************************************************)
(* Messages                                                                *)
(***************************************************************************)
\* What a message consists of before its tag, and with its tag.
Plain == Byte \union Uuid \union {MessageType[t] : t \in DOMAIN MessageType}
Symbol == Plain \union [key : {ClientKey, SystemKey}, over : Seq(Plain)]

Body(cmd) == IF IsClient(cmd.type) THEN serialize_client_rc(cmd) ELSE serialize_system_rc(cmd)

\* The number of bytes in fields of the sizes in s, which are at most five.
Size(s, k) == IF k <= Len(s) THEN s[k] ELSE 0
Rest(s) == Size(s, 1) + Size(s, 2) + Size(s, 3) + Size(s, 4) + Size(s, 5)

\* The bytes of a number give the number back.
LEMMA NumberRoundTrip ==
    ASSUME NEW n \in U64
    PROVE  /\ to_be_bytes(n) \in Seq(Plain)
           /\ Len(to_be_bytes(n)) = 2
           /\ Base * to_be_bytes(n)[1] + to_be_bytes(n)[2] = n
  <1>1. Base \in Nat \ {0} /\ n \in Nat /\ n < Base * Base
    BY SizesAssumption DEF U64
  <1>2. n % Base \in 0 .. Base - 1
    BY <1>1
  <1>3. n = Base * (n \div Base) + (n % Base)
    BY <1>1
  <1>4. n \div Base \in Int
    BY <1>1
  <1>5. n \div Base \in 0 .. Base - 1
    BY <1>1, <1>2, <1>3, <1>4
  <1>6. n \div Base \in Plain /\ n % Base \in Plain
    BY <1>2, <1>5, Zenon DEF Plain, Byte
  <1> QED
    BY <1>3, <1>6 DEF to_be_bytes

\* s is a sequence of n bytes; w holds the n bytes of s after its first m.
Piece(s, n) == s \in Seq(Plain) /\ Len(s) = n /\ n \in Nat
Has(w, m, s, n) == \A k \in 1 .. n : w[m + k] = s[k]

\* What is written one after the other.
LEMMA Joined ==
    ASSUME NEW s, NEW t, NEW m, NEW n, Piece(s, m), Piece(t, n)
    PROVE  Piece(s \o t, m + n) /\ Has(s \o t, 0, s, m) /\ Has(s \o t, m, t, n)
  <1>1. s \in Seq(Plain) /\ t \in Seq(Plain) /\ Len(s) = m /\ Len(t) = n /\ m \in Nat /\ n \in Nat
    BY Zenon DEF Piece
  <1>2. /\ s \o t \in Seq(Plain)
        /\ Len(s \o t) = Len(s) + Len(t)
        /\ \A i \in 1 .. Len(s) + Len(t) :
               (s \o t)[i] = IF i <= Len(s) THEN s[i] ELSE t[i - Len(s)]
    BY <1>1, ConcatProperties, Zenon
  <1>3. \A k \in 1 .. m : (s \o t)[0 + k] = s[k]
    BY <1>1, <1>2
  <1>4. \A k \in 1 .. n : (s \o t)[m + k] = t[k]
    BY <1>1, <1>2
  <1> QED
    BY <1>1, <1>2, <1>3, <1>4 DEF Has, Piece

\* What a part of w holds, w holds.
LEMMA HasWithin ==
    ASSUME NEW w, NEW m \in Nat, NEW v, NEW n \in Nat, Has(w, m, v, n),
           NEW o \in Nat, NEW s, NEW l \in Nat, Has(v, o, s, l), o + l <= n
    PROVE  Has(w, m + o, s, l)
  <1> SUFFICES ASSUME NEW k \in 1 .. l
               PROVE  w[m + o + k] = s[k]
    BY Zenon DEF Has
  <1>1. v[o + k] = s[k]
    BY Zenon DEF Has
  <1>2. o + k \in 1 .. n /\ m + (o + k) = m + o + k
    OBVIOUS
  <1>3. w[m + (o + k)] = v[o + k]
    BY <1>2, Zenon DEF Has
  <1> QED
    BY <1>1, <1>2, <1>3, Zenon

\* Three sequences written one after the other.
LEMMA ThreePieces ==
    ASSUME NEW s, NEW t, NEW v, NEW l, NEW m, NEW n, Piece(s, l), Piece(t, m), Piece(v, n)
    PROVE  /\ Piece(s \o t \o v, l + m + n)
           /\ Has(s \o t \o v, 0, s, l)
           /\ Has(s \o t \o v, l, t, m)
           /\ Has(s \o t \o v, l + m, v, n)
  <1>1. l \in Nat /\ m \in Nat /\ n \in Nat
    BY Zenon DEF Piece
  <1> DEFINE x == s \o t
             w == x \o v
  <1>2. Piece(x, l + m) /\ Has(x, 0, s, l) /\ Has(x, l, t, m)
    BY Joined, Zenon
  <1> HIDE DEF x
  <1>3. Piece(w, l + m + n) /\ Has(w, 0, x, l + m) /\ Has(w, l + m, v, n)
    BY <1>2, Joined, Zenon
  <1> HIDE DEF w
  <1>4. l + m \in Nat /\ 0 \in Nat /\ 0 + l <= l + m /\ l + m <= l + m /\ 0 + 0 = 0 /\ 0 + l = l
    BY <1>1
  <1>5. Has(w, 0 + 0, s, l)
    BY <1>1, <1>2, <1>3, <1>4, HasWithin, Zenon
  <1>6. Has(w, 0 + l, t, m)
    BY <1>1, <1>2, <1>3, <1>4, HasWithin, Zenon
  <1> QED
    BY <1>3, <1>4, <1>5, <1>6, Zenon DEF w, x

\* Four sequences written one after the other.
LEMMA FourPieces ==
    ASSUME NEW r, NEW s, NEW t, NEW v, NEW k, NEW l, NEW m, NEW n,
           Piece(r, k), Piece(s, l), Piece(t, m), Piece(v, n)
    PROVE  /\ Piece(r \o s \o t \o v, k + l + m + n)
           /\ Has(r \o s \o t \o v, 0, r, k)
           /\ Has(r \o s \o t \o v, k, s, l)
           /\ Has(r \o s \o t \o v, k + l, t, m)
           /\ Has(r \o s \o t \o v, k + l + m, v, n)
  <1>1. k \in Nat /\ l \in Nat /\ m \in Nat /\ n \in Nat
    BY Zenon DEF Piece
  <1> DEFINE x == r \o s \o t
             w == x \o v
  <1>2. Piece(x, k + l + m) /\ Has(x, 0, r, k) /\ Has(x, k, s, l) /\ Has(x, k + l, t, m)
    BY ThreePieces, Zenon
  <1> HIDE DEF x
  <1>3. Piece(w, k + l + m + n) /\ Has(w, 0, x, k + l + m) /\ Has(w, k + l + m, v, n)
    BY <1>2, Joined, Zenon
  <1> HIDE DEF w
  <1>4. /\ k + l + m \in Nat /\ k + l \in Nat /\ 0 \in Nat
        /\ 0 + k <= k + l + m /\ k + l <= k + l + m /\ (k + l) + m <= k + l + m
        /\ 0 + 0 = 0 /\ 0 + k = k /\ 0 + (k + l) = k + l
    BY <1>1
  <1>5. Has(w, 0 + 0, r, k)
    BY <1>1, <1>2, <1>3, <1>4, HasWithin, Zenon
  <1>6. Has(w, 0 + k, s, l)
    BY <1>1, <1>2, <1>3, <1>4, HasWithin, Zenon
  <1>7. Has(w, 0 + (k + l), t, m)
    BY <1>1, <1>2, <1>3, <1>4, HasWithin, Zenon
  <1> QED
    BY <1>3, <1>4, <1>5, <1>6, <1>7, Zenon DEF w, x

\* A number is read back from the place where it was written.
LEMMA NumberAt ==
    ASSUME NEW w, NEW l, Piece(w, l), NEW n \in U64, NEW m \in Nat, m + 2 <= l,
           Has(w, m, to_be_bytes(n), 2), NEW i, i = m + 1, NEW j, j = m + 2
    PROVE  from_be_bytes(SubSeq(w, i, j)) = n
  <1>1. w \in Seq(Plain) /\ Len(w) = l /\ l \in Nat
    BY Zenon DEF Piece
  <1>2. \A k \in i .. j : w[k] \in Plain
    BY <1>1, ElementOfSeq
  <1>3. SubSeq(w, i, j)[1] = w[m + 1] /\ SubSeq(w, i, j)[2] = w[m + 2]
    BY <1>2, SubSeqProperties
  <1>4. w[m + 1] = to_be_bytes(n)[1] /\ w[m + 2] = to_be_bytes(n)[2]
    BY DEF Has
  <1> QED
    BY <1>3, <1>4, NumberRoundTrip, Zenon DEF from_be_bytes

\* The length of a sector.
LEMMA SectorPiece ==
    ASSUME NEW d \in SectorVec
    PROVE  Piece(d, SectorSize)
  BY SizesAssumption DEF SectorVec, Plain, Piece

\* A sector is read back from the place where it was written.
LEMMA SectorAt ==
    ASSUME NEW w, NEW l, Piece(w, l), NEW d \in SectorVec, NEW m \in Nat, m + SectorSize <= l,
           Has(w, m, d, SectorSize), NEW i, i = m + 1, NEW j, j = m + SectorSize
    PROVE  SubSeq(w, i, j) = d
  <1>1. SectorSize \in Nat /\ w \in Seq(Plain) /\ Len(w) = l /\ l \in Nat
    BY SizesAssumption, Zenon DEF Piece
  <1>2. \A k \in i .. j : w[k] \in Plain
    BY <1>1, ElementOfSeq
  <1>3. d \in Seq(Plain) /\ Len(d) = SectorSize
    BY SectorPiece, Zenon DEF Piece
  <1> DEFINE s == SubSeq(w, i, j)
  <1>4. /\ s \in Seq(Plain)
        /\ Len(s) = SectorSize
        /\ \A k \in 1 .. SectorSize : s[k] = w[m + k]
    BY <1>1, <1>2, SubSeqProperties
  <1>5. \A k \in 1 .. Len(s) : s[k] = d[k]
    BY <1>4, Zenon DEF Has
  <1> HIDE DEF s
  <1>6. s = d
    BY <1>3, <1>4, <1>5, SeqEqual, Zenon
  <1> QED
    BY <1>6, Zenon DEF s

\* The eight bytes of a header.
LEMMA HeaderShape ==
    ASSUME NEW r \in Byte, NEW type \in DOMAIN MessageType
    PROVE  LET h == MAGIC_NUMBER \o <<0, 0, r, MessageType[type]>> IN
           /\ Piece(h, 8)
           /\ h[1] = A /\ h[2] = T /\ h[3] = D /\ h[4] = D
           /\ h[7] = r /\ h[8] = MessageType[type]
  <1> DEFINE x == <<0, 0, r, MessageType[type]>>
             h == MAGIC_NUMBER \o x
  <1>1. Piece(MAGIC_NUMBER, 4)
    <2>1. A \in Plain /\ T \in Plain /\ D \in Plain
      BY Zenon DEF Plain, Byte
    <2>2. <<A, T, D, D>> \in Seq(Plain) /\ Len(<<A, T, D, D>>) = 4
      BY <2>1
    <2> QED
      BY <2>2, Zenon DEF MAGIC_NUMBER, Piece
  <1>2. 0 \in Plain /\ r \in Plain /\ MessageType[type] \in Plain
    BY SizesAssumption DEF Plain, Byte
  <1>3. x \in Seq(Plain) /\ Len(x) = 4 /\ x[3] = r /\ x[4] = MessageType[type]
    BY <1>2
  <1>4. /\ MAGIC_NUMBER[1] = A /\ MAGIC_NUMBER[2] = T
        /\ MAGIC_NUMBER[3] = D /\ MAGIC_NUMBER[4] = D
    BY Zenon DEF MAGIC_NUMBER
  <1>5. Piece(x, 4)
    BY <1>3, Zenon DEF Piece
  <1> HIDE DEF x
  <1>6. Piece(h, 4 + 4) /\ Has(h, 0, MAGIC_NUMBER, 4) /\ Has(h, 4, x, 4)
    BY <1>1, <1>5, Joined, Zenon
  <1> HIDE DEF h
  <1>7. /\ h[0 + 1] = A /\ h[0 + 2] = T /\ h[0 + 3] = D /\ h[0 + 4] = D
        /\ h[4 + 3] = r /\ h[4 + 4] = MessageType[type]
    BY <1>3, <1>4, <1>6 DEF Has
  <1>8. /\ h[1] = A /\ h[2] = T /\ h[3] = D /\ h[4] = D
        /\ h[7] = r /\ h[8] = MessageType[type]
        /\ Piece(h, 8)
    BY <1>6, <1>7
  <1> QED
    BY <1>8, Zenon DEF h, x

\* What the reader relies on in the bytes b of a command.
Shape(b, cmd) ==
    /\ cmd.type \in DOMAIN MessageType
    /\ b \in Seq(Plain)
    /\ Len(b) = 8 + Rest(Fields(cmd.type))
    /\ b[1] = A /\ b[2] = T /\ b[3] = D /\ b[4] = D
    /\ b[8] = MessageType[cmd.type]
    /\ Construct(cmd.type, b) = cmd

\* A message begins with its header.
LEMMA HeaderFirst ==
    ASSUME NEW r \in Byte, NEW type \in DOMAIN MessageType, NEW w,
           Has(w, 0, MAGIC_NUMBER \o <<0, 0, r, MessageType[type]>>, 8)
    PROVE  /\ w[1] = A /\ w[2] = T /\ w[3] = D /\ w[4] = D
           /\ w[7] = r /\ w[8] = MessageType[type]
  <1> DEFINE h == MAGIC_NUMBER \o <<0, 0, r, MessageType[type]>>
  <1>1. /\ h[1] = A /\ h[2] = T /\ h[3] = D /\ h[4] = D
        /\ h[7] = r /\ h[8] = MessageType[type]
    BY HeaderShape, ZenonT(30)
  <1>2. Has(w, 0, h, 8)
    BY Zenon
  <1> HIDE DEF h
  <1>3. \A k \in 1 .. 8 : w[k] = h[k]
    BY <1>2 DEF Has
  <1> QED
    BY <1>1, <1>3

\* serialize_client_rc and construct_client_command agree on a Read.
LEMMA ReadShape ==
    ASSUME NEW cmd \in [type : {"Read"}, rid : U64, sidx : U64]
    PROVE  Shape(serialize_client_rc(cmd), cmd)
  <1> DEFINE h == MAGIC_NUMBER \o <<0, 0, 0, MessageType["Read"]>>
             i == to_be_bytes(cmd.rid)
             j == to_be_bytes(cmd.sidx)
             d == <<>>
             w == h \o i \o j \o d
  <1>1. "Read" \in DOMAIN MessageType /\ 0 \in Byte
    BY SizesAssumption DEF MessageType, Byte
  <1>2. /\ cmd.type = "Read" /\ cmd.rid \in U64 /\ cmd.sidx \in U64
        /\ cmd = [type |-> "Read", rid |-> cmd.rid, sidx |-> cmd.sidx]
    BY Zenon
  <1>3. Piece(h, 8) /\ Piece(i, 2) /\ Piece(j, 2) /\ Piece(d, 0)
    <2>1. Piece(h, 8)
      BY <1>1, HeaderShape, Zenon
    <2>2. Piece(i, 2) /\ Piece(j, 2)
      BY <1>2, NumberRoundTrip, Zenon DEF Piece
    <2>3. Piece(d, 0)
      BY DEF Piece
    <2> QED
      BY <2>1, <2>2, <2>3, Zenon
  <1>4. serialize_client_rc(cmd) = w
    BY <1>2, Zenon DEF serialize_client_rc
  <1> HIDE DEF h, i, j, d
  <1>5. /\ Piece(w, 8 + 2 + 2 + 0) /\ Has(w, 0, h, 8)
        /\ Has(w, 8, i, 2) /\ Has(w, 8 + 2, j, 2)
    BY <1>3, FourPieces, Zenon
  <1> HIDE DEF w
  <1>6. Piece(w, 12) /\ Has(w, 8, i, 2) /\ Has(w, 10, j, 2)
    BY <1>5
  <1>7. w[1] = A /\ w[2] = T /\ w[3] = D /\ w[4] = D /\ w[8] = MessageType["Read"]
    BY <1>1, <1>5, HeaderFirst DEF h
  <1>8. from_be_bytes(SubSeq(w, 9, 10)) = cmd.rid
    <2>1. 8 \in Nat /\ 8 + 2 <= 12 /\ 9 = 8 + 1 /\ 10 = 8 + 2
      OBVIOUS
    <2> QED
      BY <1>2, <1>6, <2>1, NumberAt DEF i
  <1>9. from_be_bytes(SubSeq(w, 11, 12)) = cmd.sidx
    <2>1. 10 \in Nat /\ 10 + 2 <= 12 /\ 11 = 10 + 1 /\ 12 = 10 + 2
      OBVIOUS
    <2> QED
      BY <1>2, <1>6, <2>1, NumberAt DEF j
  <1>10. Construct("Read", w) = cmd
    BY <1>2, <1>8, <1>9, Zenon DEF Construct, construct_client_command, IsClient
  <1>11. Rest(Fields("Read")) = 4
    <2>1. Fields("Read") = <<2, 2>>
      BY Zenon DEF Fields, IsAdvanced
    <2>2. /\ Size(<<2, 2>>, 1) = 2 /\ Size(<<2, 2>>, 2) = 2
          /\ Size(<<2, 2>>, 3) = 0 /\ Size(<<2, 2>>, 4) = 0 /\ Size(<<2, 2>>, 5) = 0
      BY DEF Size
    <2> QED
      BY <2>1, <2>2 DEF Rest
  <1>12. w \in Seq(Plain) /\ Len(w) = 8 + Rest(Fields("Read"))
    BY <1>6, <1>11 DEF Piece
  <1> QED
    BY <1>1, <1>2, <1>4, <1>7, <1>10, <1>12, Zenon DEF Shape

\* serialize_client_rc and construct_client_command agree on a Write.
LEMMA WriteShape ==
    ASSUME NEW cmd \in [type : {"Write"}, rid : U64, sidx : U64, data : SectorVec]
    PROVE  Shape(serialize_client_rc(cmd), cmd)
  <1> DEFINE h == MAGIC_NUMBER \o <<0, 0, 0, MessageType["Write"]>>
             i == to_be_bytes(cmd.rid)
             j == to_be_bytes(cmd.sidx)
             d == cmd.data
             w == h \o i \o j \o d
  <1>1. "Write" \in DOMAIN MessageType /\ 0 \in Byte /\ SectorSize \in Nat
    BY SizesAssumption DEF MessageType, Byte
  <1>2. /\ cmd.type = "Write" /\ cmd.rid \in U64 /\ cmd.sidx \in U64 /\ d \in SectorVec
        /\ cmd = [type |-> "Write", rid |-> cmd.rid, sidx |-> cmd.sidx, data |-> d]
    BY Zenon
  <1>3. Piece(h, 8) /\ Piece(i, 2) /\ Piece(j, 2) /\ Piece(d, SectorSize)
    <2>1. Piece(h, 8)
      BY <1>1, HeaderShape, Zenon
    <2>2. Piece(i, 2) /\ Piece(j, 2)
      BY <1>2, NumberRoundTrip, Zenon DEF Piece
    <2> QED
      BY <1>2, <2>1, <2>2, SectorPiece, Zenon
  <1>4. serialize_client_rc(cmd) = w
    BY <1>2, Zenon DEF serialize_client_rc
  <1> HIDE DEF h, i, j, d
  <1>5. /\ Piece(w, 8 + 2 + 2 + SectorSize) /\ Has(w, 0, h, 8)
        /\ Has(w, 8, i, 2) /\ Has(w, 8 + 2, j, 2) /\ Has(w, 8 + 2 + 2, d, SectorSize)
    BY <1>3, FourPieces, Zenon
  <1> HIDE DEF w
  <1>6. Piece(w, 12 + SectorSize) /\ Has(w, 8, i, 2) /\ Has(w, 10, j, 2) /\ Has(w, 12, d, SectorSize)
    BY <1>1, <1>5
  <1>7. w[1] = A /\ w[2] = T /\ w[3] = D /\ w[4] = D /\ w[8] = MessageType["Write"]
    BY <1>1, <1>5, HeaderFirst DEF h
  <1>8. from_be_bytes(SubSeq(w, 9, 10)) = cmd.rid
    <2>1. 8 \in Nat /\ 8 + 2 <= 12 + SectorSize /\ 9 = 8 + 1 /\ 10 = 8 + 2
      BY <1>1
    <2> QED
      BY <1>2, <1>6, <2>1, NumberAt DEF i
  <1>9. from_be_bytes(SubSeq(w, 11, 12)) = cmd.sidx
    <2>1. 10 \in Nat /\ 10 + 2 <= 12 + SectorSize /\ 11 = 10 + 1 /\ 12 = 10 + 2
      BY <1>1
    <2> QED
      BY <1>2, <1>6, <2>1, NumberAt DEF j
  <1>10. SubSeq(w, 13, 12 + SectorSize) = d
    <2>1. 12 \in Nat /\ 13 = 12 + 1 /\ 12 + SectorSize <= 12 + SectorSize
      BY <1>1
    <2> QED
      BY <1>2, <1>6, <2>1, SectorAt
  <1>11. Construct("Write", w) = cmd
    <2>1. construct_client_command("Write", w) = cmd
      BY <1>2, <1>8, <1>9, <1>10, Zenon DEF construct_client_command
    <2> QED
      BY <2>1, Zenon DEF Construct, IsClient
  <1>12. Rest(Fields("Write")) = 4 + SectorSize
    <2>1. Fields("Write") = <<2, 2, SectorSize>>
      BY Zenon DEF Fields, IsAdvanced
    <2>2. /\ Len(Fields("Write")) = 3
          /\ Fields("Write")[1] = 2 /\ Fields("Write")[2] = 2 /\ Fields("Write")[3] = SectorSize
      BY <2>1
    <2>3. LET s == Fields("Write") IN
          /\ Size(s, 1) = 2 /\ Size(s, 2) = 2 /\ Size(s, 3) = SectorSize
          /\ Size(s, 4) = 0 /\ Size(s, 5) = 0
      BY <1>1, <2>2 DEF Size
    <2> QED
      BY <1>1, <2>3 DEF Rest
  <1>13. w \in Seq(Plain) /\ Len(w) = 8 + Rest(Fields("Write"))
    BY <1>1, <1>6, <1>12 DEF Piece
  <1> QED
    BY <1>1, <1>2, <1>4, <1>7, <1>11, <1>13, Zenon DEF Shape

\* serialize_system_rc and construct_system_command agree.
LEMMA SystemShape ==
    ASSUME NEW cmd \in [type : {"ReadProc", "Ack"}, rank : Byte, uid : Uuid, sidx : U64]
    PROVE  Shape(serialize_system_rc(cmd), cmd)
  <1> DEFINE type == cmd.type
             h == MAGIC_NUMBER \o <<0, 0, cmd.rank, MessageType[type]>>
             i == <<cmd.uid>>
             j == to_be_bytes(cmd.sidx)
             d == <<>>
             w == h \o i \o j \o d
  <1>1. type \in DOMAIN MessageType /\ type \in {"ReadProc", "Ack"}
    BY Zenon DEF MessageType
  <1>2. /\ cmd.rank \in Byte /\ cmd.uid \in Uuid /\ cmd.sidx \in U64
        /\ cmd = [type |-> type, rank |-> cmd.rank, uid |-> cmd.uid, sidx |-> cmd.sidx]
    BY Zenon
  <1>3. Piece(h, 8) /\ Piece(i, 1) /\ Piece(j, 2) /\ Piece(d, 0) /\ i[1] = cmd.uid
    <2>1. Piece(h, 8)
      BY <1>1, <1>2, HeaderShape, Zenon
    <2>2. Piece(j, 2)
      BY <1>2, NumberRoundTrip, Zenon DEF Piece
    <2>3. Piece(i, 1) /\ Piece(d, 0) /\ i[1] = cmd.uid
      BY <1>2 DEF Piece, Plain
    <2> QED
      BY <2>1, <2>2, <2>3, Zenon
  <1>4. serialize_system_rc(cmd) = w
    BY <1>1, Zenon DEF serialize_system_rc, IsAdvanced
  <1> HIDE DEF h, i, j, d
  <1>5. /\ Piece(w, 8 + 1 + 2 + 0) /\ Has(w, 0, h, 8)
        /\ Has(w, 8, i, 1) /\ Has(w, 8 + 1, j, 2)
    BY <1>3, FourPieces, Zenon
  <1> HIDE DEF w
  <1>6. Piece(w, 11) /\ Has(w, 8, i, 1) /\ Has(w, 9, j, 2)
    BY <1>5
  <1>7. /\ w[1] = A /\ w[2] = T /\ w[3] = D /\ w[4] = D
        /\ w[7] = cmd.rank /\ w[8] = MessageType[type]
    BY <1>1, <1>2, <1>5, HeaderFirst DEF h
  <1>8. from_be_bytes(SubSeq(w, 10, 11)) = cmd.sidx
    <2>1. 9 \in Nat /\ 9 + 2 <= 11 /\ 10 = 9 + 1 /\ 11 = 9 + 2
      OBVIOUS
    <2> QED
      BY <1>2, <1>6, <2>1, NumberAt DEF j
  <1>9. w[9] = cmd.uid
    <2>1. w[8 + 1] = i[1]
      BY <1>6 DEF Has
    <2> QED
      BY <1>3, <2>1
  <1>10. Construct(type, w) = cmd
    <2>1. construct_system_command(type, w) = cmd
      BY <1>2, <1>7, <1>8, <1>9, Zenon DEF construct_system_command
    <2> QED
      BY <1>1, <2>1, Zenon DEF Construct, IsClient, IsAdvanced
  <1>11. Rest(Fields(type)) = 3
    <2>1. Fields(type) = <<1, 2>>
      BY <1>1, Zenon DEF Fields, IsAdvanced
    <2> QED
      BY <2>1 DEF Rest, Size
  <1>12. w \in Seq(Plain) /\ Len(w) = 8 + Rest(Fields(type))
    BY <1>6, <1>11 DEF Piece
  <1> QED
    BY <1>1, <1>4, <1>7, <1>10, <1>12, Zenon DEF Shape

\* serialize_system_rc and construct_advanced_system_command agree.
LEMMA AdvancedShape ==
    ASSUME NEW cmd \in [type : {"Value", "WriteProc"}, rank : Byte, uid : Uuid, sidx : U64,
                        ts : U64, wr : Byte, data : SectorVec]
    PROVE  Shape(serialize_system_rc(cmd), cmd)
  <1> DEFINE type == cmd.type
             h == MAGIC_NUMBER \o <<0, 0, cmd.rank, MessageType[type]>>
             i == <<cmd.uid>>
             j == to_be_bytes(cmd.sidx)
             t == to_be_bytes(cmd.ts)
             z == <<0, cmd.wr>>
             d == cmd.data
             x == t \o z \o d
             w == h \o i \o j \o x
  <1>1. type \in DOMAIN MessageType /\ type \in {"Value", "WriteProc"} /\ SectorSize \in Nat
    BY SizesAssumption, Zenon DEF MessageType
  <1>2. /\ cmd.rank \in Byte /\ cmd.uid \in Uuid /\ cmd.sidx \in U64
        /\ cmd.ts \in U64 /\ cmd.wr \in Byte /\ d \in SectorVec
        /\ cmd = [type |-> type, rank |-> cmd.rank, uid |-> cmd.uid, sidx |-> cmd.sidx,
                  ts |-> cmd.ts, wr |-> cmd.wr, data |-> d]
    BY Zenon
  <1>3. Piece(h, 8) /\ Piece(i, 1) /\ Piece(j, 2) /\ i[1] = cmd.uid
    <2>1. Piece(h, 8)
      BY <1>1, <1>2, HeaderShape, Zenon
    <2>2. Piece(j, 2)
      BY <1>2, NumberRoundTrip, Zenon DEF Piece
    <2>3. Piece(i, 1) /\ i[1] = cmd.uid
      BY <1>2 DEF Piece, Plain
    <2> QED
      BY <2>1, <2>2, <2>3, Zenon
  <1>4. Piece(t, 2) /\ Piece(z, 2) /\ Piece(d, SectorSize) /\ z[2] = cmd.wr
    <2>1. Piece(t, 2)
      BY <1>2, NumberRoundTrip, Zenon DEF Piece
    <2>2. 0 \in Plain /\ cmd.wr \in Plain
      BY <1>2, SizesAssumption DEF Plain, Byte
    <2>3. Piece(z, 2) /\ z[2] = cmd.wr
      BY <2>2 DEF Piece
    <2> QED
      BY <1>2, <2>1, <2>3, SectorPiece, Zenon
  <1>5. serialize_system_rc(cmd) = w
    BY <1>1, Zenon DEF serialize_system_rc, IsAdvanced
  <1> HIDE DEF h, i, j, t, z, d
  <1>6. /\ Piece(x, 2 + 2 + SectorSize)
        /\ Has(x, 0, t, 2) /\ Has(x, 2, z, 2) /\ Has(x, 2 + 2, d, SectorSize)
    BY <1>4, ThreePieces, Zenon
  <1> HIDE DEF x
  <1>7. /\ Piece(w, 8 + 1 + 2 + (2 + 2 + SectorSize)) /\ Has(w, 0, h, 8)
        /\ Has(w, 8, i, 1) /\ Has(w, 8 + 1, j, 2) /\ Has(w, 8 + 1 + 2, x, 2 + 2 + SectorSize)
    BY <1>3, <1>6, FourPieces, Zenon
  <1> HIDE DEF w
  <1>8. Piece(w, 15 + SectorSize) /\ Has(w, 9, j, 2) /\ Has(w, 11, x, 4 + SectorSize)
    BY <1>1, <1>7
  <1>9. Has(w, 11, t, 2) /\ Has(w, 13, z, 2) /\ Has(w, 15, d, SectorSize)
    <2>1. /\ 4 + SectorSize \in Nat /\ 0 + 2 <= 4 + SectorSize /\ 2 + 2 <= 4 + SectorSize
          /\ 4 + SectorSize <= 4 + SectorSize
          /\ 11 + 0 = 11 /\ 11 + 2 = 13 /\ 11 + 4 = 15
      BY <1>1
    <2>2. Has(x, 4, d, SectorSize)
      BY <1>6
    <2>3. Has(w, 11 + 0, t, 2)
      BY <1>6, <1>8, <2>1, HasWithin, Zenon
    <2>4. Has(w, 11 + 2, z, 2)
      BY <1>6, <1>8, <2>1, HasWithin, Zenon
    <2>5. Has(w, 11 + 4, d, SectorSize)
      BY <1>1, <1>8, <2>1, <2>2, HasWithin, Zenon
    <2> QED
      BY <2>1, <2>3, <2>4, <2>5, Zenon
  <1>10. /\ w[1] = A /\ w[2] = T /\ w[3] = D /\ w[4] = D
         /\ w[7] = cmd.rank /\ w[8] = MessageType[type]
    BY <1>1, <1>2, <1>7, HeaderFirst DEF h
  <1>11. from_be_bytes(SubSeq(w, 10, 11)) = cmd.sidx
    <2>1. 9 \in Nat /\ 9 + 2 <= 15 + SectorSize /\ 10 = 9 + 1 /\ 11 = 9 + 2
      BY <1>1
    <2> QED
      BY <1>2, <1>8, <2>1, NumberAt DEF j
  <1>12. from_be_bytes(SubSeq(w, 12, 13)) = cmd.ts
    <2>1. 11 \in Nat /\ 11 + 2 <= 15 + SectorSize /\ 12 = 11 + 1 /\ 13 = 11 + 2
      BY <1>1
    <2> QED
      BY <1>2, <1>8, <1>9, <2>1, NumberAt DEF t
  <1>13. w[9] = cmd.uid /\ w[15] = cmd.wr
    <2>1. w[8 + 1] = i[1]
      BY <1>7 DEF Has
    <2>2. w[13 + 2] = z[2]
      BY <1>9 DEF Has
    <2> QED
      BY <1>3, <1>4, <2>1, <2>2
  <1>14. SubSeq(w, 16, 15 + SectorSize) = d
    <2>1. 15 \in Nat /\ 16 = 15 + 1 /\ 15 + SectorSize <= 15 + SectorSize
      BY <1>1
    <2> QED
      BY <1>2, <1>8, <1>9, <2>1, SectorAt
  <1>15. Construct(type, w) = cmd
    <2>1. construct_advanced_system_command(type, w) = cmd
      BY <1>2, <1>10, <1>11, <1>12, <1>13, <1>14, Zenon DEF construct_advanced_system_command
    <2> QED
      BY <1>1, <2>1, Zenon DEF Construct, IsClient, IsAdvanced
  <1>16. Rest(Fields(type)) = 7 + SectorSize
    <2>1. Fields(type) = <<1, 2, 2, 2, SectorSize>>
      BY <1>1, Zenon DEF Fields, IsAdvanced
    <2>2. /\ Len(Fields(type)) = 5
          /\ Fields(type)[1] = 1 /\ Fields(type)[2] = 2 /\ Fields(type)[3] = 2
          /\ Fields(type)[4] = 2 /\ Fields(type)[5] = SectorSize
      BY <2>1
    <2>3. LET s == Fields(type) IN
          /\ Size(s, 1) = 1 /\ Size(s, 2) = 2 /\ Size(s, 3) = 2
          /\ Size(s, 4) = 2 /\ Size(s, 5) = SectorSize
      BY <1>1, <2>2 DEF Size
    <2> QED
      BY <1>1, <2>3 DEF Rest
  <1>17. w \in Seq(Plain) /\ Len(w) = 8 + Rest(Fields(type))
    BY <1>1, <1>8, <1>16 DEF Piece
  <1> QED
    BY <1>1, <1>5, <1>10, <1>15, <1>17, Zenon DEF Shape

\* The round trip: what serialize_rc writes of a command, deserialize_rc makes the same
\* command of, each field with its value.
THEOREM RoundTrip ==
    ASSUME NEW cmd \in RegisterCommand
    PROVE  Shape(Body(cmd), cmd)
  <1>1. CASE cmd \in [type : {"Read"}, rid : U64, sidx : U64]
    <2>1. IsClient(cmd.type)
      BY <1>1, Zenon DEF IsClient
    <2> QED
      BY <1>1, <2>1, ReadShape, Zenon DEF Body
  <1>2. CASE cmd \in [type : {"Write"}, rid : U64, sidx : U64, data : SectorVec]
    <2>1. IsClient(cmd.type)
      BY <1>2, Zenon DEF IsClient
    <2> QED
      BY <1>2, <2>1, WriteShape, Zenon DEF Body
  <1>3. CASE cmd \in [type : {"ReadProc", "Ack"}, rank : Byte, uid : Uuid, sidx : U64]
    <2>1. ~IsClient(cmd.type)
      BY <1>3, Zenon DEF IsClient
    <2> QED
      BY <1>3, <2>1, SystemShape, Zenon DEF Body
  <1>4. CASE cmd \in [type : {"Value", "WriteProc"}, rank : Byte, uid : Uuid, sidx : U64,
                      ts : U64, wr : Byte, data : SectorVec]
    <2>1. ~IsClient(cmd.type)
      BY <1>4, Zenon DEF IsClient
    <2> QED
      BY <1>4, <2>1, AdvancedShape, Zenon DEF Body
  <1> QED
    BY <1>1, <1>2, <1>3, <1>4, Zenon DEF RegisterCommand

-----------------------------------------------------------------------------
(***************************************************************************)
(* The invariant: the whole stream F, with the number of bytes before each *)
(* message (pos) and before the bytes at hand (g), and the place X[k] of   *)
(* each stray byte. The writer only extends them; the reader moves on.     *)
(***************************************************************************)
Message == [cmd : Command, key : {ClientKey, SystemKey}]

Bytes(m) == serialize_rc(m.cmd, m.key)

Places(X) == {X[k] : k \in DOMAIN X}

Layout(F, pos, X) ==
    /\ F \in Seq(Symbol)
    /\ pos \in [DOMAIN sent -> Nat]
    /\ \A i \in DOMAIN sent :
          /\ pos[i] + Len(Bytes(sent[i])) <= Len(F)
          /\ Has(F, pos[i], Bytes(sent[i]), Len(Bytes(sent[i])))
    /\ \A i, j \in DOMAIN sent : i < j => pos[i] + Len(Bytes(sent[i])) <= pos[j]
    /\ \A q \in 1 .. Len(F) :
          \/ q \in Places(X) /\ F[q] \in {A, T, D}
          \/ \E i \in DOMAIN sent : pos[i] < q /\ q <= pos[i] + Len(Bytes(sent[i]))
    /\ X \in [1 .. stray -> Nat]

\* After g bytes of F come the bytes b and then the bytes w, and no more.
Reading(F, g, b, w) ==
    /\ g \in Nat /\ b \in Seq(Symbol) /\ w \in Seq(Symbol)
    /\ g + Len(b) + Len(w) = Len(F)
    /\ Has(F, g, b, Len(b))
    /\ Has(F, g + Len(b), w, Len(w))

\* The messages not yet returned begin after q bytes at least.
Ahead(pos, q) == \A i \in DOMAIN sent : i > Len(results) => pos[i] >= q

\* What the reader has of the message at hand.
AtStage(pos, g) ==
    /\ stage = "start" => got = <<>> /\ Ahead(pos, g)
    /\ stage = "slide" => Len(got) = 4 /\ Ahead(pos, g + 1)
    /\ stage = "header" => got = MAGIC_NUMBER /\ Ahead(pos, g)
    /\ stage = "fields" =>
          /\ Len(results) < Len(sent)
          /\ pos[Len(results) + 1] = g
          /\ todo \in Seq(Nat) /\ Len(todo) <= 5
          /\ Len(got) >= 8
          /\ Len(got) + Rest(todo) = Len(Body(sent[Len(results) + 1].cmd))
    /\ stage = "panicked" => stray >= 4

Reader(F, pos, g) ==
    /\ Reading(F, g, got, wire)
    /\ \A i \in DOMAIN sent : i <= Len(results) => pos[i] + Len(Bytes(sent[i])) <= g
    /\ AtStage(pos, g)

\* What has been sent and what has been returned.
Histories ==
    /\ sent \in Seq(Message)
    /\ results \in Seq([cmd : Command, valid : BOOLEAN])
    /\ stray \in Nat
    /\ stage \in {"start", "slide", "header", "fields", "panicked", "ended"}
    /\ Len(results) <= Len(sent)
    /\ \A i \in 1 .. Len(results) : results[i] = Expected(sent[i])

TransferInv ==
    /\ Histories
    /\ \E F, pos, X, g : Layout(F, pos, X) /\ Reader(F, pos, g)

-----------------------------------------------------------------------------
(***************************************************************************)
(* Lemmas about messages and reads                                         *)
(***************************************************************************)
\* The fields of a message are at most five.
LEMMA FieldsShape ==
    ASSUME NEW type
    PROVE  Fields(type) \in Seq(Nat) /\ Len(Fields(type)) <= 5
  <1>1. SectorSize \in Nat
    BY SizesAssumption, Zenon
  <1>2. CASE type = "Read"
    <2>1. Fields(type) = <<2, 2>>
      BY <1>2, Zenon DEF Fields, IsAdvanced
    <2> QED
      BY <2>1
  <1>3. CASE type = "Write"
    <2>1. Fields(type) = <<2, 2, SectorSize>>
      BY <1>3, Zenon DEF Fields, IsAdvanced
    <2> QED
      BY <2>1, <1>1
  <1>4. CASE IsAdvanced(type)
    <2>1. Fields(type) = <<1, 2, 2, 2, SectorSize>>
      BY <1>4, Zenon DEF Fields, IsAdvanced
    <2> QED
      BY <2>1, <1>1
  <1>5. CASE type # "Read" /\ type # "Write" /\ ~IsAdvanced(type)
    <2>1. Fields(type) = <<1, 2>>
      BY <1>5, Zenon DEF Fields
    <2> QED
      BY <2>1
  <1> QED
    BY <1>2, <1>3, <1>4, <1>5, Zenon

\* Reading a field leaves its size less to read.
LEMMA RestShape ==
    ASSUME NEW s \in Seq(Nat), Len(s) <= 5
    PROVE  /\ Rest(s) \in Nat
           /\ s = <<>> => Rest(s) = 0
           /\ s # <<>> => /\ Head(s) \in Nat /\ Tail(s) \in Seq(Nat) /\ Len(Tail(s)) <= 5
                          /\ Rest(s) = Head(s) + Rest(Tail(s))
  <1>1. Len(s) \in Nat /\ \A k \in 1 .. Len(s) : s[k] \in Nat
    BY ElementOfSeq, LenProperties, Zenon
  <1>2. \A k \in 1 .. 5 : Size(s, k) \in Nat
    BY <1>1 DEF Size
  <1>3. Rest(s) \in Nat
    BY <1>2 DEF Rest
  <1>4. ASSUME s = <<>>
        PROVE  Rest(s) = 0
    BY <1>4 DEF Rest, Size
  <1>5. ASSUME s # <<>>
        PROVE  /\ Head(s) \in Nat /\ Tail(s) \in Seq(Nat) /\ Len(Tail(s)) <= 5
               /\ Rest(s) = Head(s) + Rest(Tail(s))
    <2> DEFINE t == Tail(s)
    <2>1. /\ Head(s) = s[1] /\ Len(s) >= 1
          /\ t \in Seq(Nat)
          /\ Len(t) = Len(s) - 1
          /\ \A k \in 1 .. Len(t) : t[k] = s[k + 1]
      BY <1>1, <1>5, HeadTailProperties, EmptySeq
    <2> HIDE DEF t
    <2>2. /\ Size(t, 1) = Size(s, 2) /\ Size(t, 2) = Size(s, 3) /\ Size(t, 3) = Size(s, 4)
          /\ Size(t, 4) = Size(s, 5) /\ Size(t, 5) = 0
      <3>1. \A k \in 1 .. 5 : Size(t, k) = IF k <= Len(s) - 1 THEN s[k + 1] ELSE 0
        BY <1>1, <2>1 DEF Size
      <3>2. \A k \in 1 .. 4 : k <= Len(s) - 1 <=> k + 1 <= Len(s)
        BY <1>1
      <3>3. ASSUME NEW k \in 1 .. 4
            PROVE  Size(t, k) = Size(s, k + 1)
        <4>1. Size(t, k) = IF k <= Len(s) - 1 THEN s[k + 1] ELSE 0
          BY <3>1, SMTT(30)
        <4>2. Size(s, k + 1) = IF k + 1 <= Len(s) THEN s[k + 1] ELSE 0
          BY Zenon DEF Size
        <4> QED
          BY <3>2, <4>1, <4>2
      <3>4. Size(t, 5) = 0
        BY <1>1, <3>1
      <3> QED
        BY <3>3, <3>4
    <2>3. Size(s, 1) = s[1]
      BY <2>1, Zenon DEF Size
    <2>4. Rest(s) = s[1] + Rest(t)
      BY <1>2, <2>2, <2>3, SMTT(30) DEF Rest
    <2> QED
      BY <1>1, <2>1, <2>4 DEF t
  <1> QED
    BY <1>3, <1>4, <1>5, Zenon

\* A message is the bytes of its command and a tag.
LEMMA MessageShape ==
    ASSUME NEW m \in Message
    PROVE  /\ m.cmd \in RegisterCommand
           /\ Shape(Body(m.cmd), m.cmd)
           /\ Len(Body(m.cmd)) \in Nat /\ Len(Body(m.cmd)) >= 8
           /\ Bytes(m) \in Seq(Symbol)
           /\ Len(Bytes(m)) = Len(Body(m.cmd)) + 1
           /\ Has(Bytes(m), 0, Body(m.cmd), Len(Body(m.cmd)))
           /\ Bytes(m)[Len(Body(m.cmd)) + 1] = Tag(m.key, Body(m.cmd))
  <1> DEFINE b == Body(m.cmd)
             e == Tag(m.key, b)
  <1>1. m.cmd \in RegisterCommand /\ m.key \in {ClientKey, SystemKey}
    BY CommandAssumption, Zenon DEF Message
  <1>2. Shape(b, m.cmd)
    BY <1>1, RoundTrip, Zenon
  <1>3. Bytes(m) = Append(b, e)
    BY Zenon DEF Bytes, serialize_rc, Body
  <1> HIDE DEF b
  <1>4. b \in Seq(Plain) /\ Len(b) = 8 + Rest(Fields(m.cmd.type))
    BY <1>2, Zenon DEF Shape
  <1>5. Rest(Fields(m.cmd.type)) \in Nat
    BY FieldsShape, RestShape, Zenon
  <1>6. e \in Symbol
    BY <1>1, <1>4, Zenon DEF Symbol, Tag
  <1>7. b \in Seq(Symbol)
    <2>1. Plain \subseteq Symbol
      BY Zenon DEF Symbol
    <2> QED
      BY <1>4, <2>1, SeqMonotonic, Zenon
  <1> HIDE DEF e
  <1>8. /\ Append(b, e) \in Seq(Symbol)
        /\ Len(Append(b, e)) = Len(b) + 1
        /\ \A k \in 1 .. Len(b) : Append(b, e)[k] = b[k]
        /\ Append(b, e)[Len(b) + 1] = e
    BY <1>6, <1>7, AppendProperties
  <1>9. Has(Append(b, e), 0, b, Len(b))
    BY <1>8 DEF Has
  <1>10. Len(b) \in Nat /\ Len(b) >= 8
    BY <1>4, <1>5
  <1> QED
    BY <1>1, <1>2, <1>3, <1>8, <1>9, <1>10, Zenon DEF b, e

\* The bytes at hand are those of the stream.
LEMMA AtHand ==
    ASSUME NEW F, NEW g, NEW b, NEW w, Reading(F, g, b, w)
    PROVE  /\ g \in Nat /\ Len(b) \in Nat /\ Len(w) \in Nat
           /\ g + Len(b) + Len(w) = Len(F)
           /\ \A k \in 1 .. Len(b) : F[g + k] = b[k]
           /\ \A k \in 1 .. Len(w) : F[g + Len(b) + k] = w[k]
  BY LenProperties, Zenon DEF Reading, Has

\* read_exact moves bytes from the connection to those at hand.
LEMMA ReadEffect ==
    ASSUME NEW F, NEW g, NEW b, Reading(F, g, b, wire), NEW n \in Nat, Read(n, b)
    PROVE  Reading(F, g, got', wire') /\ Len(got') = Len(b) + n
  <1> DEFINE s == SubSeq(wire, 1, n)
             v == SubSeq(wire, n + 1, Len(wire))
  <1>1. /\ g \in Nat /\ b \in Seq(Symbol) /\ wire \in Seq(Symbol)
        /\ Len(b) \in Nat /\ Len(wire) \in Nat
        /\ g + Len(b) + Len(wire) = Len(F)
        /\ \A k \in 1 .. Len(b) : F[g + k] = b[k]
        /\ \A k \in 1 .. Len(wire) : F[g + Len(b) + k] = wire[k]
    <2>1. g \in Nat /\ b \in Seq(Symbol) /\ wire \in Seq(Symbol)
      BY Zenon DEF Reading
    <2>2. /\ Len(b) \in Nat /\ Len(wire) \in Nat
          /\ g + Len(b) + Len(wire) = Len(F)
          /\ \A k \in 1 .. Len(b) : F[g + k] = b[k]
          /\ \A k \in 1 .. Len(wire) : F[g + Len(b) + k] = wire[k]
      BY LenProperties, Zenon DEF Reading, Has
    <2> QED
      BY <2>1, <2>2, Zenon
  <1>2. n <= Len(wire) /\ got' = b \o s /\ wire' = v
    BY Zenon DEF Read
  <1>3. \A k \in 1 .. Len(wire) : wire[k] \in Symbol
    BY <1>1, ElementOfSeq, Zenon
  <1>4. s \in Seq(Symbol) /\ Len(s) = n /\ \A k \in 1 .. n : s[k] = wire[k]
    <2>1. \A k \in 1 .. n : wire[k] \in Symbol
      BY <1>1, <1>2, <1>3
    <2> QED
      BY <1>1, <1>2, <2>1, SubSeqProperties
  <1>5. v \in Seq(Symbol) /\ Len(v) = Len(wire) - n /\ \A k \in 1 .. Len(v) : v[k] = wire[n + k]
    <2>1. \A k \in n + 1 .. Len(wire) : wire[k] \in Symbol
      BY <1>1, <1>2, <1>3
    <2>2. /\ v \in Seq(Symbol)
          /\ Len(v) = IF n + 1 <= Len(wire) THEN Len(wire) - (n + 1) + 1 ELSE 0
          /\ \A k \in 1 .. Len(wire) - (n + 1) + 1 : v[k] = wire[n + 1 + k - 1]
      BY <1>1, <1>2, <2>1, SubSeqProperties
    <2> HIDE DEF v
    <2>3. Len(v) = Len(wire) - n
      BY <1>1, <1>2, <2>2
    <2> QED
      BY <1>1, <1>2, <2>2, <2>3
  <1> HIDE DEF s, v
  <1>6. /\ b \o s \in Seq(Symbol)
        /\ Len(b \o s) = Len(b) + Len(s)
        /\ \A i \in 1 .. Len(b) + Len(s) :
               (b \o s)[i] = IF i <= Len(b) THEN b[i] ELSE s[i - Len(b)]
    <2>1. b \in Seq(Symbol) /\ s \in Seq(Symbol)
      BY <1>1, <1>4, Zenon
    <2> QED
      BY <2>1, ConcatProperties, Zenon
  <1>7. \A k \in 1 .. Len(b) + n : F[g + k] = (b \o s)[k]
    <2> TAKE k \in 1 .. Len(b) + n
    <2>1. CASE k <= Len(b)
      BY <1>1, <1>4, <1>6, <2>1
    <2>2. CASE k > Len(b)
      <3>1. (b \o s)[k] = s[k - Len(b)] /\ k - Len(b) \in 1 .. n
        BY <1>1, <1>4, <1>6, <2>2
      <3>2. s[k - Len(b)] = wire[k - Len(b)] /\ k - Len(b) \in 1 .. Len(wire)
        BY <1>1, <1>2, <1>4, <3>1
      <3>3. F[g + Len(b) + (k - Len(b))] = wire[k - Len(b)]
        BY <1>1, <3>2, Zenon
      <3>4. g + Len(b) + (k - Len(b)) = g + k
        BY <1>1
      <3> QED
        BY <3>1, <3>2, <3>3, <3>4, Zenon
    <2>3. k <= Len(b) \/ k > Len(b)
      BY <1>1, <1>2
    <2> QED
      BY <2>1, <2>2, <2>3, Zenon
  <1>8. \A k \in 1 .. Len(v) : F[g + (Len(b) + n) + k] = v[k]
    <2> TAKE k \in 1 .. Len(v)
    <2>1. n + k \in 1 .. Len(wire) /\ v[k] = wire[n + k]
      BY <1>1, <1>2, <1>5
    <2>2. F[g + Len(b) + (n + k)] = wire[n + k]
      BY <1>1, <2>1, Zenon
    <2>3. g + Len(b) + (n + k) = g + (Len(b) + n) + k
      BY <1>1, <1>5
    <2> QED
      BY <2>1, <2>2, <2>3, Zenon
  <1>9. Len(b \o s) = Len(b) + n /\ g + (Len(b) + n) + Len(v) = Len(F)
    <2>1. Len(b \o s) = Len(b) + n
      BY <1>4, <1>6, Zenon
    <2>2. /\ g \in Nat /\ Len(b) \in Nat /\ Len(wire) \in Nat
          /\ g + Len(b) + Len(wire) = Len(F) /\ Len(v) = Len(wire) - n
      BY <1>1, <1>5, Zenon
    <2>3. g + (Len(b) + n) + Len(v) = Len(F)
      BY <2>2
    <2> QED
      BY <2>1, <2>3, Zenon
  <1> QED
    BY <1>1, <1>2, <1>5, <1>6, <1>7, <1>8, <1>9, Zenon DEF Reading, Has

\* Where a message lies in the stream.
LEMMA MessageInStream ==
    ASSUME NEW F, NEW pos, NEW X, Histories, Layout(F, pos, X), NEW i \in DOMAIN sent
    PROVE  LET b == Body(sent[i].cmd) IN
           /\ pos[i] \in Nat /\ Len(F) \in Nat
           /\ sent[i] \in Message
           /\ Len(b) \in Nat /\ Len(b) >= 8 /\ Len(Bytes(sent[i])) = Len(b) + 1
           /\ Len(Bytes(sent[i])) \in Nat
           /\ pos[i] + Len(b) + 1 <= Len(F)
           /\ \A k \in 1 .. Len(b) : F[pos[i] + k] = b[k]
           /\ F[pos[i] + Len(b) + 1] = Tag(sent[i].key, b)
  <1> DEFINE b == Body(sent[i].cmd)
             m == Bytes(sent[i])
  <1>1. sent[i] \in Message
    BY LenProperties, ElementOfSeq, Zenon DEF Histories
  <1>2. /\ Len(b) \in Nat /\ Len(b) >= 8 /\ Len(m) = Len(b) + 1
        /\ Has(m, 0, b, Len(b)) /\ m[Len(b) + 1] = Tag(sent[i].key, b)
    BY <1>1, MessageShape, Zenon
  <1>3. pos[i] \in Nat /\ pos[i] + Len(m) <= Len(F) /\ Has(F, pos[i], m, Len(m)) /\ Len(F) \in Nat
    BY LenProperties, Zenon DEF Layout
  <1> HIDE DEF b, m
  <1>4. \A k \in 1 .. Len(b) : F[pos[i] + k] = b[k]
    BY <1>2, <1>3 DEF Has
  <1>5. F[pos[i] + (Len(b) + 1)] = m[Len(b) + 1]
    BY <1>2, <1>3 DEF Has
  <1>6. pos[i] + (Len(b) + 1) = pos[i] + Len(b) + 1
    BY <1>2, <1>3
  <1>7. pos[i] + Len(b) + 1 <= Len(F) /\ Len(m) \in Nat
    BY <1>2, <1>3
  <1> QED
    BY <1>1, <1>2, <1>3, <1>4, <1>5, <1>6, <1>7, Zenon DEF b, m

\* A message begins with the magic number.
LEMMA MagicOfMessage ==
    ASSUME NEW F, NEW pos, NEW X, Histories, Layout(F, pos, X), NEW i \in DOMAIN sent
    PROVE  /\ F[pos[i] + 1] = A /\ F[pos[i] + 2] = T /\ F[pos[i] + 3] = D /\ F[pos[i] + 4] = D
           /\ F[pos[i] + 8] = MessageType[sent[i].cmd.type]
           /\ sent[i].cmd.type \in DOMAIN MessageType
  <1> DEFINE b == Body(sent[i].cmd)
  <1>1. /\ sent[i] \in Message /\ Len(b) \in Nat /\ Len(b) >= 8
        /\ \A k \in 1 .. Len(b) : F[pos[i] + k] = b[k]
    BY MessageInStream
  <1>2. Shape(b, sent[i].cmd)
    BY <1>1, MessageShape, Zenon
  <1> HIDE DEF b
  <1>3. /\ b[1] = A /\ b[2] = T /\ b[3] = D /\ b[4] = D /\ b[8] = MessageType[sent[i].cmd.type]
        /\ sent[i].cmd.type \in DOMAIN MessageType
    BY <1>2, Zenon DEF Shape
  <1> QED
    BY <1>1, <1>3

\* A window of four bytes that is not the magic number is not the beginning of a message.
LEMMA NoMessageHere ==
    ASSUME NEW F, NEW pos, NEW X, Histories, Layout(F, pos, X),
           NEW g, NEW b, NEW w, Reading(F, g, b, w), Len(b) = 4, b # MAGIC_NUMBER,
           Ahead(pos, g)
    PROVE  Ahead(pos, g + 1)
  <1> SUFFICES ASSUME NEW i \in DOMAIN sent, i > Len(results)
               PROVE  pos[i] >= g + 1
    BY Zenon DEF Ahead
  <1>1. pos[i] >= g /\ pos[i] \in Nat /\ g \in Nat
    BY MessageInStream, AtHand, Zenon DEF Ahead
  <1>2. ASSUME pos[i] = g
        PROVE  FALSE
    <2>1. \A k \in 1 .. 4 : F[g + k] = b[k]
      BY Zenon DEF Reading, Has
    <2>2. b[1] = A /\ b[2] = T /\ b[3] = D /\ b[4] = D
      BY <1>2, <2>1, MagicOfMessage
    <2>3. b \in Seq(Symbol)
      BY Zenon DEF Reading
    <2>4. b = <<A, T, D, D>>
      BY <2>2, <2>3
    <2> QED
      BY <2>4, Zenon DEF MAGIC_NUMBER
  <1> QED
    BY <1>1, <1>2

-----------------------------------------------------------------------------
(***************************************************************************)
(* The writer                                                              *)
(***************************************************************************)
\* What is written comes after what is in the stream.
LEMMA Extended ==
    ASSUME NEW F, NEW g, NEW b, NEW w, Reading(F, g, b, w), F \in Seq(Symbol), NEW s \in Seq(Symbol)
    PROVE  /\ F \o s \in Seq(Symbol)
           /\ Len(F) \in Nat /\ Len(s) \in Nat
           /\ Len(F \o s) = Len(F) + Len(s)
           /\ \A k \in 1 .. Len(F) : (F \o s)[k] = F[k]
           /\ \A k \in 1 .. Len(s) : (F \o s)[Len(F) + k] = s[k]
           /\ Reading(F \o s, g, b, w \o s)
  <1> DEFINE G == F \o s
             v == w \o s
  <1>1. g \in Nat /\ g + Len(b) + Len(w) = Len(F)
    BY Zenon DEF Reading
  <1>2. /\ b \in Seq(Symbol) /\ w \in Seq(Symbol)
        /\ \A k \in 1 .. Len(b) : F[g + k] = b[k]
        /\ \A k \in 1 .. Len(w) : F[g + Len(b) + k] = w[k]
    BY Zenon DEF Reading, Has
  <1>3. Len(F) \in Nat /\ Len(s) \in Nat /\ Len(b) \in Nat /\ Len(w) \in Nat
    BY <1>2, LenProperties, Zenon
  <1>4. /\ G \in Seq(Symbol)
        /\ Len(G) = Len(F) + Len(s)
        /\ \A i \in 1 .. Len(F) + Len(s) : G[i] = IF i <= Len(F) THEN F[i] ELSE s[i - Len(F)]
    BY ConcatProperties, Zenon
  <1>5. /\ v \in Seq(Symbol)
        /\ Len(v) = Len(w) + Len(s)
        /\ \A i \in 1 .. Len(w) + Len(s) : v[i] = IF i <= Len(w) THEN w[i] ELSE s[i - Len(w)]
    BY <1>2, ConcatProperties, Zenon
  <1> HIDE DEF G, v
  <1>6. \A k \in 1 .. Len(F) : G[k] = F[k]
    BY <1>3, <1>4
  <1>7. \A k \in 1 .. Len(s) : G[Len(F) + k] = s[k]
    BY <1>3, <1>4
  <1>8. \A k \in 1 .. Len(b) : G[g + k] = b[k]
    <2> TAKE k \in 1 .. Len(b)
    <2>1. g + k \in 1 .. Len(F)
      BY <1>1, <1>3
    <2> QED
      BY <1>2, <1>6, <2>1, Zenon
  <1>9. \A k \in 1 .. Len(v) : G[g + Len(b) + k] = v[k]
    <2> TAKE k \in 1 .. Len(v)
    <2>1. CASE k <= Len(w)
      <3>1. g + Len(b) + k \in 1 .. Len(F) /\ k \in 1 .. Len(w) /\ v[k] = w[k]
        BY <1>1, <1>3, <1>5, <2>1
      <3> QED
        BY <1>2, <1>6, <3>1, Zenon
    <2>2. CASE k > Len(w)
      <3>1. k - Len(w) \in 1 .. Len(s) /\ v[k] = s[k - Len(w)]
        BY <1>3, <1>5, <2>2
      <3>2. Len(F) + (k - Len(w)) = g + Len(b) + k
        BY <1>1, <1>3
      <3> QED
        BY <1>7, <3>1, <3>2, Zenon
    <2>3. k <= Len(w) \/ k > Len(w)
      BY <1>3, <1>5
    <2> QED
      BY <2>1, <2>2, <2>3, Zenon
  <1>10. g + Len(b) + Len(v) = Len(G)
    <2>1. Len(G) = Len(F) + Len(s) /\ Len(v) = Len(w) + Len(s)
      BY <1>4, <1>5, Zenon
    <2> QED
      BY <1>1, <1>3, <2>1
  <1>11. Reading(G, g, b, v)
    BY <1>1, <1>2, <1>5, <1>8, <1>9, <1>10, Zenon DEF Reading, Has
  <1> QED
    BY <1>3, <1>4, <1>6, <1>7, <1>11, Zenon DEF G, v

\* Send writes a message after all others.
LEMMA SendStep ==
    ASSUME TransferInv, NEW cmd \in Command, NEW key \in {ClientKey, SystemKey}, Send(cmd, key)
    PROVE  TransferInv'
  <1>1. PICK F, pos, X, g : Layout(F, pos, X) /\ Reader(F, pos, g)
    BY Zenon DEF TransferInv
  <1> DEFINE m == [cmd |-> cmd, key |-> key]
             s == Bytes(m)
  <1>2. m \in Message
    BY Zenon DEF Message
  <1>3. s \in Seq(Symbol) /\ Len(s) \in Nat
    BY <1>2, MessageShape, LenProperties, Zenon
  <1>4. /\ wire' = wire \o s /\ sent' = Append(sent, m)
        /\ UNCHANGED <<stage, todo, got, results, stray>>
    BY Zenon DEF Send, Bytes
  <1>5. Histories /\ Reading(F, g, got, wire) /\ F \in Seq(Symbol)
    BY <1>1, Zenon DEF TransferInv, Reader, Layout
  <1> HIDE DEF m, s
  <1>6. PICK n : n = Len(sent)
    BY Zenon
  <1>7. PICK G : G = F \o s
    BY Zenon
  <1>8. PICK pos2 : pos2 = [i \in 1 .. n + 1 |-> IF i = n + 1 THEN Len(F) ELSE pos[i]]
    BY Zenon
  <1>9. /\ G \in Seq(Symbol) /\ Len(F) \in Nat /\ Len(G) = Len(F) + Len(s)
        /\ \A k \in 1 .. Len(F) : G[k] = F[k]
        /\ \A k \in 1 .. Len(s) : G[Len(F) + k] = s[k]
        /\ Reading(G, g, got, wire \o s)
    BY <1>3, <1>5, <1>7, Extended
  <1>10. sent \in Seq(Message) /\ n \in Nat /\ DOMAIN sent = 1 .. n
    BY <1>5, <1>6, LenProperties, Zenon DEF Histories
  <1>11. /\ sent' \in Seq(Message) /\ Len(sent') = n + 1 /\ DOMAIN sent' = 1 .. n + 1
         /\ \A i \in 1 .. n : sent'[i] = sent[i]
         /\ sent'[n + 1] = m
    <2>1. /\ sent' \in Seq(Message) /\ Len(sent') = n + 1
          /\ \A i \in 1 .. n : sent'[i] = sent[i]
          /\ sent'[n + 1] = m
      BY <1>2, <1>4, <1>10, <1>6, AppendProperties
    <2> QED
      BY <2>1, LenProperties, Zenon
  <1>12. /\ \A i \in 1 .. n : pos2[i] = pos[i] /\ pos[i] \in Nat
         /\ pos2[n + 1] = Len(F)
         /\ pos2 \in [1 .. n + 1 -> Nat]
    <2>1. pos \in [1 .. n -> Nat]
      BY <1>1, <1>10, Zenon DEF Layout
    <2> QED
      BY <2>1, <1>9, <1>10, <1>8
  <1>13. /\ \A i \in 1 .. n : /\ Len(Bytes(sent[i])) \in Nat
                              /\ pos[i] + Len(Bytes(sent[i])) <= Len(F)
                              /\ \A k \in 1 .. Len(Bytes(sent[i])) : F[pos[i] + k] = Bytes(sent[i])[k]
         /\ \A i, j \in 1 .. n : i < j => pos[i] + Len(Bytes(sent[i])) <= pos[j]
    <2>1. \A i \in 1 .. n : Len(Bytes(sent[i])) \in Nat
      BY <1>1, <1>5, <1>10, MessageInStream, Zenon
    <2> QED
      BY <1>1, <1>10, <2>1, Zenon DEF Layout, Has
  <1>14. sent'[n + 1] = m /\ pos2[n + 1] = Len(F) /\ Bytes(m) = s
    <2>1. sent'[n + 1] = m
      BY <1>11, Zenon
    <2>2. pos2[n + 1] = Len(F)
      BY <1>12, Zenon
    <2>3. Bytes(m) = s
      BY Zenon DEF s
    <2> QED
      BY <2>1, <2>2, <2>3, Zenon
  <1>15. \A i \in 1 .. n + 1 : i \in 1 .. n \/ i = n + 1
    BY <1>10
  <1>16. Layout(G, pos2, X)'
    <2>1. \A i \in 1 .. n + 1 :
             /\ pos2[i] + Len(Bytes(sent'[i])) <= Len(G)
             /\ Has(G, pos2[i], Bytes(sent'[i]), Len(Bytes(sent'[i])))
      <3> TAKE i \in 1 .. n + 1
      <3>1. CASE i \in 1 .. n
        <4>1. /\ sent'[i] = sent[i] /\ pos2[i] = pos[i] /\ pos[i] \in Nat
              /\ Len(Bytes(sent[i])) \in Nat
              /\ pos[i] + Len(Bytes(sent[i])) <= Len(F)
              /\ \A k \in 1 .. Len(Bytes(sent[i])) : F[pos[i] + k] = Bytes(sent[i])[k]
          BY <1>11, <1>12, <1>13, <3>1, Zenon
        <4>2. \A k \in 1 .. Len(Bytes(sent[i])) : pos[i] + k \in 1 .. Len(F)
          BY <1>9, <4>1
        <4>3. \A k \in 1 .. Len(Bytes(sent[i])) : G[pos[i] + k] = Bytes(sent[i])[k]
          BY <1>9, <4>1, <4>2, Zenon
        <4>4. pos[i] + Len(Bytes(sent[i])) <= Len(G)
          BY <1>3, <1>9, <4>1
        <4> QED
          BY <4>1, <4>3, <4>4, Zenon DEF Has
      <3>2. CASE i = n + 1
        <4>1. sent'[i] = m /\ pos2[i] = Len(F) /\ Bytes(m) = s
          BY <1>14, <3>2, Zenon
        <4> QED
          BY <1>3, <1>9, <4>1 DEF Has
      <3> QED
        BY <1>15, <3>1, <3>2, Zenon
    <2>2. \A i, j \in 1 .. n + 1 : i < j => pos2[i] + Len(Bytes(sent'[i])) <= pos2[j]
      <3> SUFFICES ASSUME NEW i \in 1 .. n + 1, NEW j \in 1 .. n + 1, i < j
                   PROVE  pos2[i] + Len(Bytes(sent'[i])) <= pos2[j]
        BY Zenon
      <3>1. i \in 1 .. n
        BY <1>10
      <3>2. sent'[i] = sent[i] /\ pos2[i] = pos[i]
        BY <1>11, <1>12, <3>1, Zenon
      <3>3. CASE j \in 1 .. n
        BY <1>12, <1>13, <3>1, <3>2, <3>3, Zenon
      <3>4. CASE j = n + 1
        BY <1>12, <1>13, <3>1, <3>2, <3>4, Zenon
      <3> QED
        BY <1>15, <3>3, <3>4, Zenon
    <2>3. ASSUME NEW q \in 1 .. Len(G)
          PROVE  \/ q \in Places(X) /\ G[q] \in {A, T, D}
                 \/ \E i \in 1 .. n + 1 : pos2[i] < q /\ q <= pos2[i] + Len(Bytes(sent'[i]))
      <3>1. CASE q \in 1 .. Len(F)
        <4>1. \/ q \in Places(X) /\ F[q] \in {A, T, D}
              \/ \E i \in 1 .. n : pos[i] < q /\ q <= pos[i] + Len(Bytes(sent[i]))
          BY <1>1, <1>10, <3>1, Zenon DEF Layout
        <4>2. ASSUME NEW i \in 1 .. n, pos[i] < q, q <= pos[i] + Len(Bytes(sent[i]))
              PROVE  \E j \in 1 .. n + 1 : pos2[j] < q /\ q <= pos2[j] + Len(Bytes(sent'[j]))
          <5>1. i \in 1 .. n + 1
            BY <1>10
          <5>2. pos2[i] = pos[i] /\ sent'[i] = sent[i]
            BY <1>11, <1>12, Zenon
          <5> QED
            BY <4>2, <5>1, <5>2, Zenon
        <4>3. G[q] = F[q]
          BY <1>9, <3>1, Zenon
        <4> QED
          BY <4>1, <4>2, <4>3, Zenon
      <3>2. CASE q > Len(F)
        <4>1. n + 1 \in 1 .. n + 1 /\ sent'[n + 1] = m /\ pos2[n + 1] = Len(F) /\ Bytes(m) = s
          BY <1>10, <1>14
        <4>2. Len(F) < q /\ q <= Len(F) + Len(s)
          BY <1>9, <3>2
        <4> QED
          BY <4>1, <4>2, Zenon
      <3>3. q \in 1 .. Len(F) \/ q > Len(F)
        BY <1>9
      <3> QED
        BY <3>1, <3>2, <3>3, Zenon
    <2>4. X \in [1 .. stray' -> Nat]
      BY <1>1, <1>4, Zenon DEF Layout
    <2>5. G \in Seq(Symbol) /\ pos2 \in [DOMAIN sent' -> Nat]
      BY <1>9, <1>11, <1>12, Zenon
    <2> QED
      BY <1>11, <2>1, <2>2, <2>3, <2>4, <2>5, Zenon DEF Layout
  <1>17. Reader(G, pos2, g)'
    <2>1. Reading(G, g, got', wire')
      BY <1>4, <1>9, Zenon
    <2>2. /\ g \in Nat /\ Len(got) \in Nat /\ g + Len(got) <= Len(F)
          /\ results' = results /\ stage' = stage /\ got' = got /\ todo' = todo /\ stray' = stray
      <3>1. g \in Nat /\ Len(got) \in Nat /\ Len(wire) \in Nat /\ g + Len(got) + Len(wire) = Len(F)
        BY <1>5, AtHand
      <3> QED
        BY <1>4, <3>1
    <2>3. Len(results) \in Nat /\ Len(results) <= n
      BY <1>5, <1>6, LenProperties, Zenon DEF Histories
    <2>4. ASSUME NEW i \in 1 .. n + 1, i <= Len(results)
          PROVE  pos2[i] + Len(Bytes(sent'[i])) <= g
      <3>1. i \in 1 .. n
        BY <1>10, <2>3, <2>4
      <3>2. pos[i] + Len(Bytes(sent[i])) <= g
        BY <1>1, <1>10, <2>4, <3>1, Zenon DEF Reader
      <3> QED
        BY <1>11, <1>12, <3>1, <3>2, Zenon
    <2>5. ASSUME NEW q \in Nat, Ahead(pos, q), q <= Len(F)
          PROVE  Ahead(pos2, q)'
      <3> SUFFICES ASSUME NEW i \in 1 .. n + 1, i > Len(results)
                   PROVE  pos2[i] >= q
        BY <1>11, <2>2, Zenon DEF Ahead
      <3>1. CASE i \in 1 .. n
        <4>1. pos[i] >= q
          BY <1>10, <2>5, <3>1, Zenon DEF Ahead
        <4> QED
          BY <1>12, <3>1, <4>1, Zenon
      <3>2. CASE i = n + 1
        BY <1>12, <2>5, <3>2, <1>9, Zenon
      <3> QED
        BY <1>15, <3>1, <3>2, Zenon
    <2>6. AtStage(pos2, g)'
      <3>1. AtStage(pos, g)
        BY <1>1, Zenon DEF Reader
      <3>2. ASSUME stage = "start"
            PROVE  got = <<>> /\ Ahead(pos2, g)'
        <4>1. g <= Len(F)
          BY <1>9, <2>2
        <4> QED
          BY <2>2, <2>5, <3>1, <3>2, <4>1, Zenon DEF AtStage
      <3>3. ASSUME stage = "slide"
            PROVE  Len(got) = 4 /\ Ahead(pos2, g + 1)'
        <4>1. Len(got) = 4 /\ Ahead(pos, g + 1)
          BY <3>1, <3>3, Zenon DEF AtStage
        <4>2. g + 1 \in Nat /\ g + 1 <= Len(F)
          BY <1>9, <2>2, <4>1
        <4> QED
          BY <2>5, <4>1, <4>2, Zenon
      <3>4. ASSUME stage = "header"
            PROVE  got = MAGIC_NUMBER /\ Ahead(pos2, g)'
        <4>1. g <= Len(F)
          BY <1>9, <2>2
        <4> QED
          BY <2>2, <2>5, <3>1, <3>4, <4>1, Zenon DEF AtStage
      <3>5. ASSUME stage = "fields"
            PROVE  /\ Len(results) < Len(sent')
                   /\ pos2[Len(results) + 1] = g
                   /\ todo \in Seq(Nat) /\ Len(todo) <= 5 /\ Len(got) >= 8
                   /\ Len(got) + Rest(todo) = Len(Body(sent'[Len(results) + 1].cmd))
        <4>1. /\ Len(results) < n
              /\ pos[Len(results) + 1] = g
              /\ todo \in Seq(Nat) /\ Len(todo) <= 5 /\ Len(got) >= 8
              /\ Len(got) + Rest(todo) = Len(Body(sent[Len(results) + 1].cmd))
          BY <3>1, <3>5, <1>6, Zenon DEF AtStage
        <4>2. Len(results) + 1 \in 1 .. n /\ Len(results) < n + 1
          BY <1>10, <2>3, <4>1
        <4> QED
          BY <1>11, <1>12, <4>1, <4>2, Zenon
      <3>6. stage = "panicked" => stray >= 4
        BY <3>1, Zenon DEF AtStage
      <3> QED
        BY <2>2, <3>2, <3>3, <3>4, <3>5, <3>6, Zenon DEF AtStage
    <2> QED
      BY <1>11, <2>1, <2>2, <2>4, <2>6, Zenon DEF Reader
  <1>18. Histories'
    <2>1. /\ results \in Seq([cmd : Command, valid : BOOLEAN]) /\ stray \in Nat
          /\ stage \in {"start", "slide", "header", "fields", "panicked", "ended"}
          /\ Len(results) \in Nat /\ Len(results) <= n
          /\ \A i \in 1 .. Len(results) : results[i] = Expected(sent[i])
      BY <1>5, <1>6, LenProperties, Zenon DEF Histories
    <2>2. \A i \in 1 .. Len(results) : results[i] = Expected(sent'[i])
      <3> TAKE i \in 1 .. Len(results)
      <3>1. i \in 1 .. n
        BY <1>10, <2>1
      <3> QED
        BY <1>11, <2>1, <3>1, Zenon
    <2>3. Len(results) <= Len(sent')
      BY <1>10, <1>11, <2>1
    <2> QED
      BY <1>4, <1>11, <2>1, <2>2, <2>3, Zenon DEF Histories, Expected
  <1> QED
    BY <1>16, <1>17, <1>18, Zenon DEF TransferInv

\* SendStray writes one byte that belongs to no message.
LEMMA SendStrayStep ==
    ASSUME TransferInv, NEW byte \in {A, T, D}, SendStray(byte)
    PROVE  TransferInv'
  <1>1. PICK F, pos, X, g : Layout(F, pos, X) /\ Reader(F, pos, g)
    BY Zenon DEF TransferInv
  <1> DEFINE s == <<byte>>
  <1>2. PICK n : n = Len(F) + 1
    BY Zenon
  <1>3. PICK G : G = F \o s
    BY Zenon
  <1>4. PICK Y : Y = [k \in 1 .. stray + 1 |-> IF k = stray + 1 THEN n ELSE X[k]]
    BY Zenon
  <1>5. s \in Seq(Symbol) /\ Len(s) = 1 /\ s[1] = byte
    BY DEF Symbol, Plain, Byte
  <1>6. Histories /\ Reading(F, g, got, wire) /\ F \in Seq(Symbol)
    BY <1>1, Zenon DEF TransferInv, Reader, Layout
  <1>7. /\ wire' = wire \o s /\ stray' = stray + 1
        /\ UNCHANGED <<stage, todo, got, results, sent>>
    <2>1. wire \in Seq(Symbol) /\ byte \in Symbol
      BY <1>6, Zenon DEF Reading, Symbol, Plain, Byte
    <2>2. Append(wire, byte) = wire \o s
      BY <2>1, AppendIsConcat, Zenon
    <2> QED
      BY <2>2, Zenon DEF SendStray
  <1> HIDE DEF s
  <1>8. /\ G \in Seq(Symbol) /\ Len(F) \in Nat /\ Len(G) = Len(F) + Len(s)
        /\ \A k \in 1 .. Len(F) : G[k] = F[k]
        /\ \A k \in 1 .. Len(s) : G[Len(F) + k] = s[k]
        /\ Reading(G, g, got, wire \o s)
    <2>1. s \in Seq(Symbol)
      BY <1>5, Zenon
    <2> QED
      BY <1>3, <1>6, <2>1, Extended
  <1>9. Len(G) = n /\ G[n] = byte /\ Len(F) = n - 1 /\ n \in Nat
    BY <1>2, <1>5, <1>8
  <1>10. Y \in [1 .. stray + 1 -> Nat] /\ Places(X) \subseteq Places(Y) /\ n \in Places(Y)
    <2>1. stray \in Nat /\ X \in [1 .. stray -> Nat]
      BY <1>1, <1>6, Zenon DEF Histories, Layout
    <2>2. Y \in [1 .. stray + 1 -> Nat]
      BY <1>4, <1>9, <2>1
    <2>3. \A k \in 1 .. stray : k \in DOMAIN Y /\ Y[k] = X[k]
      BY <1>4, <2>1
    <2>4. stray + 1 \in DOMAIN Y /\ Y[stray + 1] = n
      BY <1>4, <2>1
    <2> QED
      BY <2>1, <2>2, <2>3, <2>4, Zenon DEF Places
  <1>11. Layout(G, pos, Y)'
    <2>1. /\ pos \in [DOMAIN sent -> Nat]
          /\ \A i \in DOMAIN sent :
                /\ pos[i] + Len(Bytes(sent[i])) <= Len(F)
                /\ Has(F, pos[i], Bytes(sent[i]), Len(Bytes(sent[i])))
          /\ \A i, j \in DOMAIN sent : i < j => pos[i] + Len(Bytes(sent[i])) <= pos[j]
      BY <1>1, Zenon DEF Layout
    <2>2. ASSUME NEW i \in DOMAIN sent
          PROVE  /\ pos[i] + Len(Bytes(sent[i])) <= Len(G)
                 /\ Has(G, pos[i], Bytes(sent[i]), Len(Bytes(sent[i])))
      <3>1. Len(Bytes(sent[i])) \in Nat /\ pos[i] \in Nat
        BY <1>1, <1>6, MessageInStream, Zenon
      <3>2. /\ pos[i] + Len(Bytes(sent[i])) <= Len(F)
            /\ \A k \in 1 .. Len(Bytes(sent[i])) : F[pos[i] + k] = Bytes(sent[i])[k]
        BY <2>1, Zenon DEF Has
      <3>3. \A k \in 1 .. Len(Bytes(sent[i])) : pos[i] + k \in 1 .. Len(F)
        BY <1>8, <3>1, <3>2
      <3>4. \A k \in 1 .. Len(Bytes(sent[i])) : G[pos[i] + k] = Bytes(sent[i])[k]
        BY <1>8, <3>2, <3>3, Zenon
      <3>5. pos[i] + Len(Bytes(sent[i])) <= Len(G)
        BY <1>9, <3>1, <3>2
      <3> QED
        BY <3>4, <3>5, Zenon DEF Has
    <2>3. ASSUME NEW q \in 1 .. Len(G)
          PROVE  \/ q \in Places(Y) /\ G[q] \in {A, T, D}
                 \/ \E i \in DOMAIN sent : pos[i] < q /\ q <= pos[i] + Len(Bytes(sent[i]))
      <3>1. CASE q \in 1 .. Len(F)
        <4>1. \/ q \in Places(X) /\ F[q] \in {A, T, D}
              \/ \E i \in DOMAIN sent : pos[i] < q /\ q <= pos[i] + Len(Bytes(sent[i]))
          BY <1>1, <3>1, Zenon DEF Layout
        <4>2. G[q] = F[q]
          BY <1>8, <3>1, Zenon
        <4> QED
          BY <1>10, <4>1, <4>2, Zenon
      <3>2. CASE q = n
        BY <1>9, <1>10, <3>2, Zenon
      <3>3. q \in 1 .. Len(F) \/ q = n
        BY <1>9
      <3> QED
        BY <3>1, <3>2, <3>3, Zenon
    <2> QED
      BY <1>7, <1>8, <1>10, <2>1, <2>2, <2>3, Zenon DEF Layout
  <1>12. Reader(G, pos, g)'
    <2>1. Reading(G, g, got', wire')
      BY <1>7, <1>8, Zenon
    <2>2. \A i \in DOMAIN sent' : i <= Len(results') => pos[i] + Len(Bytes(sent'[i])) <= g
      BY <1>1, <1>7, Zenon DEF Reader
    <2>3. AtStage(pos, g)'
      <3>1. AtStage(pos, g) /\ stray \in Nat
        BY <1>1, <1>6, Zenon DEF Reader, Histories
      <3>2. \A q : Ahead(pos, q)' <=> Ahead(pos, q)
        BY <1>7, Zenon DEF Ahead
      <3>3. stray >= 4 => stray' >= 4
        BY <1>7, <3>1
      <3> QED
        BY <1>7, <3>1, <3>2, <3>3, Zenon DEF AtStage
    <2> QED
      BY <2>1, <2>2, <2>3, Zenon DEF Reader
  <1>13. Histories'
    BY <1>6, <1>7 DEF Histories, Expected
  <1> QED
    BY <1>11, <1>12, <1>13, Zenon DEF TransferInv

-----------------------------------------------------------------------------
(***************************************************************************)
(* The reader                                                              *)
(***************************************************************************)
\* A step of the reader that returns nothing leaves the histories as they are.
LEMMA ReaderOnly ==
    ASSUME Histories, UNCHANGED <<sent, stray, results>>,
           stage' \in {"start", "slide", "header", "fields", "panicked", "ended"},
           NEW F, NEW pos, NEW X, NEW g, Layout(F, pos, X),
           \A i \in DOMAIN sent : i <= Len(results) => pos[i] + Len(Bytes(sent[i])) <= g,
           Reading(F, g, got', wire'), AtStage(pos, g)'
    PROVE  TransferInv'
  <1>1. Layout(F, pos, X)'
    BY Zenon DEF Layout
  <1>2. Histories'
    BY Zenon DEF Histories, Expected
  <1>3. Reader(F, pos, g)'
    BY Zenon DEF Reader
  <1> QED
    BY <1>1, <1>2, <1>3, Zenon DEF TransferInv

\* Four bytes at hand, which begin no message before the next one: AfterMagic.
LEMMA WindowStep ==
    ASSUME Histories, UNCHANGED <<sent, stray, results>>,
           NEW F, NEW pos, NEW X, NEW g, Layout(F, pos, X),
           \A i \in DOMAIN sent : i <= Len(results) => pos[i] + Len(Bytes(sent[i])) <= g,
           Reading(F, g, got', wire'), Len(got') = 4, Ahead(pos, g), stage' = AfterMagic(got')
    PROVE  TransferInv'
  <1>1. CASE got' = MAGIC_NUMBER
    <2>1. stage' = "header"
      BY <1>1, Zenon DEF AfterMagic
    <2>2. Ahead(pos, g)'
      BY Zenon DEF Ahead
    <2>3. AtStage(pos, g)'
      BY <1>1, <2>1, <2>2, Zenon DEF AtStage
    <2> QED
      BY <2>1, <2>3, ReaderOnly, Zenon
  <1>2. CASE got' # MAGIC_NUMBER
    <2>1. stage' = "slide"
      BY <1>2, Zenon DEF AfterMagic
    <2>2. Ahead(pos, g + 1)
      BY <1>2, NoMessageHere, Zenon
    <2>3. Ahead(pos, g + 1)'
      BY <2>2, Zenon DEF Ahead
    <2>4. AtStage(pos, g)'
      BY <2>1, <2>3, Zenon DEF AtStage
    <2> QED
      BY <2>1, <2>4, ReaderOnly, Zenon
  <1> QED
    BY <1>1, <1>2, Zenon

\* deserialize_rc reads the first four bytes.
LEMMA ReadMagicStep ==
    ASSUME TransferInv, ReadMagic
    PROVE  TransferInv'
  <1>1. PICK F, pos, X, g : Layout(F, pos, X) /\ Reader(F, pos, g)
    BY Zenon DEF TransferInv
  <1>2. /\ stage = "start" /\ Read(4, <<>>) /\ stage' = AfterMagic(got')
        /\ UNCHANGED <<sent, stray, results>>
    BY Zenon DEF ReadMagic, Read
  <1>3. /\ Reading(F, g, got, wire) /\ got = <<>> /\ Ahead(pos, g)
        /\ \A i \in DOMAIN sent : i <= Len(results) => pos[i] + Len(Bytes(sent[i])) <= g
    BY <1>1, <1>2, Zenon DEF Reader, AtStage
  <1>4. Reading(F, g, <<>>, wire)
    BY <1>3, Zenon
  <1>5. Reading(F, g, got', wire') /\ Len(got') = 4
    <2>1. Reading(F, g, got', wire') /\ Len(got') = Len(<<>>) + 4
      BY <1>2, <1>4, ReadEffect, Zenon
    <2> QED
      BY <2>1
  <1>6. Histories
    BY Zenon DEF TransferInv
  <1> QED
    BY <1>1, <1>2, <1>3, <1>5, <1>6, WindowStep, Zenon

\* The window slides by one byte.
LEMMA SlideStep ==
    ASSUME TransferInv, Slide
    PROVE  TransferInv'
  <1>1. PICK F, pos, X, g : Layout(F, pos, X) /\ Reader(F, pos, g)
    BY DEF TransferInv
  <1>2. /\ stage = "slide" /\ Read(1, Tail(got)) /\ stage' = AfterMagic(got')
        /\ UNCHANGED <<sent, stray, results>>
    BY Zenon DEF Slide, Read
  <1>3. /\ Reading(F, g, got, wire) /\ Len(got) = 4 /\ Ahead(pos, g + 1)
        /\ \A i \in DOMAIN sent : i <= Len(results) => pos[i] + Len(Bytes(sent[i])) <= g
    BY <1>1, <1>2, Zenon DEF Reader, AtStage
  <1>4. PICK h : h = g + 1
    BY Zenon
  <1>5. Reading(F, h, Tail(got), wire) /\ Len(Tail(got)) = 3
    <2> DEFINE t == Tail(got)
    <2>1. /\ g \in Nat /\ got \in Seq(Symbol) /\ wire \in Seq(Symbol)
          /\ g + 4 + Len(wire) = Len(F)
          /\ \A k \in 1 .. 4 : F[g + k] = got[k]
          /\ \A k \in 1 .. Len(wire) : F[g + 4 + k] = wire[k]
      BY <1>3, Zenon DEF Reading, Has
    <2>2. got # <<>>
      BY <1>3
    <2>3. t \in Seq(Symbol) /\ Len(t) = 3 /\ \A k \in 1 .. Len(t) : t[k] = got[k + 1]
      BY <1>3, <2>1, <2>2, HeadTailProperties
    <2> HIDE DEF t
    <2>4. \A k \in 1 .. 3 : F[h + k] = t[k]
      <3> TAKE k \in 1 .. 3
      <3>1. k + 1 \in 1 .. 4 /\ g + (k + 1) = h + k
        BY <1>4, <2>1
      <3> QED
        BY <2>1, <2>3, <3>1, Zenon
    <2>5. Len(wire) \in Nat
      BY <2>1, LenProperties, Zenon
    <2>6. h \in Nat /\ h + 3 = g + 4 /\ h + 3 + Len(wire) = Len(F)
      BY <1>4, <2>1, <2>5
    <2> QED
      BY <2>1, <2>3, <2>4, <2>6, ZenonT(30) DEF Reading, Has, t
  <1>6. Reading(F, h, got', wire') /\ Len(got') = 4
    <2>1. Reading(F, h, got', wire') /\ Len(got') = Len(Tail(got)) + 1
      BY <1>2, <1>5, ReadEffect, Zenon
    <2> QED
      BY <1>5, <2>1
  <1>7. Histories
    BY DEF TransferInv
  <1>8. Ahead(pos, h)
    BY <1>3, <1>4, Zenon
  <1>9. \A i \in DOMAIN sent : i <= Len(results) => pos[i] + Len(Bytes(sent[i])) <= h
    <2> SUFFICES ASSUME NEW i \in DOMAIN sent, i <= Len(results)
                 PROVE  pos[i] + Len(Bytes(sent[i])) <= h
      BY Zenon
    <2>1. pos[i] + Len(Bytes(sent[i])) <= g
      BY <1>3, Zenon
    <2>2. pos[i] \in Nat /\ Len(Bytes(sent[i])) \in Nat /\ g \in Nat
      BY <1>1, <1>3, <1>7, MessageInStream, Zenon DEF Reading
    <2> QED
      BY <1>4, <2>1, <2>2
  <1> QED
    BY <1>1, <1>2, <1>6, <1>7, <1>8, <1>9, WindowStep, Zenon

\* Nothing of the magic number is a message type, and a message type is known by its byte.
LEMMA TypeBytes ==
    /\ \A byte \in {A, T, D} : ~ValidType(byte)
    /\ \A t \in DOMAIN MessageType : ValidType(MessageType[t]) /\ TypeOf(MessageType[t]) = t
  <1>1. \A byte \in {A, T, D} : ~ValidType(byte)
    BY MagicAssumption, Zenon DEF ValidType
  <1>2. ASSUME NEW t \in DOMAIN MessageType
        PROVE  ValidType(MessageType[t]) /\ TypeOf(MessageType[t]) = t
    <2>1. \A r \in DOMAIN MessageType : MessageType[r] = MessageType[t] => r = t
      BY DEF MessageType
    <2> QED
      BY <2>1, Zenon DEF ValidType, TypeOf
  <1> QED
    BY <1>1, <1>2, Zenon

\* A magic number where no message begins: its four bytes are stray, and the byte that
\* is taken for the type is stray, too, or of the magic number of the next message.
LEMMA StrayMagic ==
    ASSUME NEW F, NEW pos, NEW X, NEW g \in Nat, Histories, Layout(F, pos, X), Ahead(pos, g),
           g + 8 <= Len(F),
           F[g + 1] = A, F[g + 2] = T, F[g + 3] = D, F[g + 4] = D,
           \A i \in DOMAIN sent : i <= Len(results) => pos[i] + Len(Bytes(sent[i])) <= g,
           \A i \in DOMAIN sent : i > Len(results) => pos[i] # g
    PROVE  stray >= 4 /\ ~ValidType(F[g + 8])
  <1>1. Len(F) \in Nat /\ stray \in Nat /\ X \in [1 .. stray -> Nat]
    BY LenProperties, Zenon DEF Layout, Histories
  <1>2. DOMAIN sent \subseteq Nat /\ Len(results) \in Nat
    BY LenProperties DEF Histories
  <1>3. ASSUME NEW i \in DOMAIN sent, i > Len(results)
        PROVE  pos[i] >= g + 4 /\ pos[i] \in Nat
    <2>1. pos[i] >= g /\ pos[i] # g /\ pos[i] \in Nat
      BY <1>3, MessageInStream, Zenon DEF Ahead
    <2>2. F[pos[i] + 1] = A
      BY MagicOfMessage
    <2>3. A # T /\ A # D
      BY MagicAssumption, Zenon
    <2>4. pos[i] # g + 1 /\ pos[i] # g + 2 /\ pos[i] # g + 3
      <3>1. pos[i] # g + 1
        <4>1. g + 1 + 1 = g + 2
          OBVIOUS
        <4> QED
          BY <2>2, <2>3, <4>1, Zenon
      <3>2. pos[i] # g + 2
        <4>1. g + 2 + 1 = g + 3
          OBVIOUS
        <4> QED
          BY <2>2, <2>3, <4>1, Zenon
      <3>3. pos[i] # g + 3
        <4>1. g + 3 + 1 = g + 4
          OBVIOUS
        <4> QED
          BY <2>2, <2>3, <4>1, Zenon
      <3> QED
        BY <3>1, <3>2, <3>3, Zenon
    <2> QED
      BY <2>1, <2>4
  <1>4. ASSUME NEW q \in 1 .. Len(F), q > g
        PROVE  \/ q \in Places(X) /\ F[q] \in {A, T, D}
               \/ \E i \in DOMAIN sent : i > Len(results) /\ pos[i] < q
    <2>1. CASE q \in Places(X) /\ F[q] \in {A, T, D}
      BY <2>1, Zenon
    <2>2. ASSUME NEW i \in DOMAIN sent, pos[i] < q, q <= pos[i] + Len(Bytes(sent[i]))
          PROVE  i > Len(results)
      <3>1. pos[i] \in Nat /\ Len(Bytes(sent[i])) \in Nat
        BY MessageInStream, Zenon
      <3>2. ~(pos[i] + Len(Bytes(sent[i])) <= g)
        BY <1>4, <2>2, <3>1
      <3>3. ~(i <= Len(results))
        BY <3>2, Zenon
      <3> QED
        BY <1>2, <3>3
    <2>3. \/ q \in Places(X) /\ F[q] \in {A, T, D}
          \/ \E i \in DOMAIN sent : pos[i] < q /\ q <= pos[i] + Len(Bytes(sent[i]))
      BY Zenon DEF Layout
    <2> QED
      BY <2>1, <2>2, <2>3, Zenon
  <1>5. g + 1 .. g + 4 \subseteq Places(X)
    <2> SUFFICES ASSUME NEW q \in g + 1 .. g + 4
                 PROVE  q \in Places(X)
      BY Zenon
    <2>1. q \in 1 .. Len(F) /\ q > g /\ q <= g + 4
      BY <1>1
    <2>2. ASSUME NEW i \in DOMAIN sent, i > Len(results)
          PROVE  ~(pos[i] < q)
      BY <1>3, <2>1, <2>2
    <2> QED
      BY <1>4, <2>1, <2>2, Zenon
  <1>6. stray >= 4
    <2>1. \A q \in {g + 1, g + 2, g + 3, g + 4} : \E k \in 1 .. stray : X[k] = q
      <3>1. {g + 1, g + 2, g + 3, g + 4} \subseteq g + 1 .. g + 4
        OBVIOUS
      <3> QED
        BY <1>1, <1>5, <3>1, Zenon DEF Places
    <2>2. PICK k1 \in 1 .. stray : X[k1] = g + 1
      BY <2>1, Zenon
    <2>3. PICK k2 \in 1 .. stray : X[k2] = g + 2
      BY <2>1, Zenon
    <2>4. PICK k3 \in 1 .. stray : X[k3] = g + 3
      BY <2>1, Zenon
    <2>5. PICK k4 \in 1 .. stray : X[k4] = g + 4
      BY <2>1, Zenon
    <2>6. k1 # k2 /\ k1 # k3 /\ k1 # k4 /\ k2 # k3 /\ k2 # k4 /\ k3 # k4
      BY <2>2, <2>3, <2>4, <2>5
    <2> QED
      BY <1>1, <2>6
  <1>7. F[g + 8] \in {A, T, D}
    <2>1. g + 8 \in 1 .. Len(F) /\ g + 8 > g
      BY <1>1
    <2>2. ASSUME NEW i \in DOMAIN sent, i > Len(results), pos[i] < g + 8
          PROVE  F[g + 8] \in {A, T, D}
      <3>1. pos[i] \in Nat /\ pos[i] >= g + 4
        BY <1>3, <2>2, Zenon
      <3>2. pos[i] = g + 4 \/ pos[i] = g + 5 \/ pos[i] = g + 6 \/ pos[i] = g + 7
        BY <2>2, <3>1
      <3>3. F[pos[i] + 1] = A /\ F[pos[i] + 2] = T /\ F[pos[i] + 3] = D /\ F[pos[i] + 4] = D
        BY MagicOfMessage
      <3>4. g + 4 + 4 = g + 8 /\ g + 5 + 3 = g + 8 /\ g + 6 + 2 = g + 8 /\ g + 7 + 1 = g + 8
        OBVIOUS
      <3> QED
        BY <3>2, <3>3, <3>4, Zenon
    <2> QED
      BY <1>4, <2>1, <2>2, Zenon
  <1> QED
    BY <1>6, <1>7, TypeBytes, Zenon

\* ReadHeader finds the type of the next message, or panics at a stray magic number.
LEMMA ReadHeaderStep ==
    ASSUME TransferInv, ReadHeader
    PROVE  TransferInv'
  <1>1. PICK F, pos, X, g : Layout(F, pos, X) /\ Reader(F, pos, g)
    BY DEF TransferInv
  <1>2. stage = "header" /\ Read(4, got) /\ UNCHANGED <<sent, stray, results>>
    BY Zenon DEF ReadHeader, Read
  <1>3. /\ Reading(F, g, got, wire) /\ got = MAGIC_NUMBER /\ Ahead(pos, g)
        /\ \A i \in DOMAIN sent : i <= Len(results) => pos[i] + Len(Bytes(sent[i])) <= g
    BY <1>1, <1>2, Zenon DEF Reader, AtStage
  <1>4. Histories
    BY DEF TransferInv
  <1>5. Reading(F, g, got', wire') /\ Len(got') = 8
    <2>1. Reading(F, g, got', wire') /\ Len(got') = Len(got) + 4
      BY <1>2, <1>3, ReadEffect, Zenon
    <2>2. Len(got) = 4
      BY <1>3, Zenon DEF MAGIC_NUMBER
    <2> QED
      BY <2>1, <2>2
  <1>6. g \in Nat /\ g + 8 <= Len(F) /\ F[g + 8] = got'[8]
    <2>1. /\ g \in Nat /\ wire' \in Seq(Symbol) /\ g + 8 + Len(wire') = Len(F)
          /\ \A k \in 1 .. 8 : F[g + k] = got'[k]
      BY <1>5, Zenon DEF Reading, Has
    <2>2. Len(wire') \in Nat
      BY <2>1, LenProperties, Zenon
    <2> QED
      BY <2>1, <2>2
  <1>7. F[g + 1] = A /\ F[g + 2] = T /\ F[g + 3] = D /\ F[g + 4] = D
    <2>1. got[1] = A /\ got[2] = T /\ got[3] = D /\ got[4] = D /\ Len(got) = 4
      BY <1>3, Zenon DEF MAGIC_NUMBER
    <2>2. \A k \in 1 .. 4 : F[g + k] = got[k]
      BY <1>3, <2>1, Zenon DEF Reading, Has
    <2> QED
      BY <2>1, <2>2
  <1>8. Len(results) \in Nat /\ Len(sent) \in Nat /\ DOMAIN sent = 1 .. Len(sent)
    BY <1>4, LenProperties, Zenon DEF Histories
  <1>9. CASE \E i \in DOMAIN sent : i > Len(results) /\ pos[i] = g
    <2>1. PICK i \in DOMAIN sent : i > Len(results) /\ pos[i] = g
      BY <1>9, Zenon
    <2>2. i = Len(results) + 1
      <3>1. ASSUME i > Len(results) + 1
            PROVE  FALSE
        <4> DEFINE j == Len(results) + 1
        <4>1. j \in DOMAIN sent /\ j > Len(results) /\ j < i
          BY <1>8, <3>1
        <4>2. pos[j] >= g /\ pos[j] + Len(Bytes(sent[j])) <= pos[i]
          BY <1>1, <1>3, <4>1, Zenon DEF Ahead, Layout
        <4>3. pos[j] \in Nat /\ Len(Bytes(sent[j])) \in Nat /\ Len(Bytes(sent[j])) >= 9
          BY <1>1, <1>4, <4>1, MessageInStream
        <4> HIDE DEF j
        <4> QED
          BY <1>6, <2>1, <4>2, <4>3
      <3> QED
        BY <1>8, <2>1, <3>1
    <2>3. got'[8] = MessageType[sent[i].cmd.type] /\ sent[i].cmd.type \in DOMAIN MessageType
      BY <1>1, <1>4, <1>6, <2>1, MagicOfMessage
    <2>4. ValidType(got'[8]) /\ TypeOf(got'[8]) = sent[i].cmd.type
      BY <2>3, TypeBytes, Zenon
    <2>5. stage' = "fields" /\ todo' = Fields(sent[i].cmd.type)
      BY <2>4, Zenon DEF ReadHeader
    <2>6. Len(Body(sent[i].cmd)) = 8 + Rest(todo')
      <3>1. sent[i] \in Message
        BY <1>1, <1>4, MessageInStream, Zenon
      <3>2. Shape(Body(sent[i].cmd), sent[i].cmd)
        BY <3>1, MessageShape, Zenon
      <3> QED
        BY <2>5, <3>2, Zenon DEF Shape
    <2>7. todo' \in Seq(Nat) /\ Len(todo') <= 5
      BY <2>5, FieldsShape, Zenon
    <2>8. Len(results) < Len(sent)
      BY <1>8, <2>2
    <2>9. AtStage(pos, g)'
      BY <1>2, <1>5, <2>1, <2>2, <2>5, <2>6, <2>7, <2>8 DEF AtStage
    <2>10. stage' \in {"start", "slide", "header", "fields", "panicked", "ended"}
      BY <2>5, Zenon
    <2> QED
      BY <1>1, <1>2, <1>3, <1>4, <1>5, <2>9, <2>10, ReaderOnly, Zenon
  <1>10. CASE \A i \in DOMAIN sent : i > Len(results) => pos[i] # g
    <2>1. stray >= 4 /\ ~ValidType(F[g + 8])
      BY <1>1, <1>3, <1>4, <1>6, <1>7, <1>10, StrayMagic, Zenon
    <2>2. stage' = "panicked"
      BY <1>6, <2>1, Zenon DEF ReadHeader
    <2>3. AtStage(pos, g)'
      BY <1>2, <2>1, <2>2, Zenon DEF AtStage
    <2>4. stage' \in {"start", "slide", "header", "fields", "panicked", "ended"}
      BY <2>2, Zenon
    <2> QED
      BY <1>1, <1>2, <1>3, <1>4, <1>5, <2>3, <2>4, ReaderOnly, Zenon
  <1> QED
    BY <1>9, <1>10, Zenon

\* ReadField leaves less of the message to be read.
LEMMA ReadFieldStep ==
    ASSUME TransferInv, ReadField
    PROVE  TransferInv'
  <1>1. PICK F, pos, X, g : Layout(F, pos, X) /\ Reader(F, pos, g)
    BY DEF TransferInv
  <1>2. /\ stage = "fields" /\ todo # <<>> /\ Read(Head(todo), got) /\ todo' = Tail(todo)
        /\ stage' = "fields" /\ UNCHANGED <<sent, stray, results>>
    BY Zenon DEF ReadField, Read
  <1>3. /\ Reading(F, g, got, wire)
        /\ \A i \in DOMAIN sent : i <= Len(results) => pos[i] + Len(Bytes(sent[i])) <= g
        /\ Len(results) < Len(sent)
        /\ pos[Len(results) + 1] = g
        /\ todo \in Seq(Nat) /\ Len(todo) <= 5
        /\ Len(got) >= 8
        /\ Len(got) + Rest(todo) = Len(Body(sent[Len(results) + 1].cmd))
    BY <1>1, <1>2, Zenon DEF Reader, AtStage
  <1>4. /\ Head(todo) \in Nat /\ todo' \in Seq(Nat) /\ Len(todo') <= 5
        /\ Rest(todo) = Head(todo) + Rest(todo') /\ Rest(todo') \in Nat
    <2>1. /\ Head(todo) \in Nat /\ todo' \in Seq(Nat) /\ Len(todo') <= 5
          /\ Rest(todo) = Head(todo) + Rest(todo')
      BY <1>2, <1>3, RestShape, Zenon
    <2> QED
      BY <2>1, RestShape, Zenon
  <1>5. Reading(F, g, got', wire') /\ Len(got') = Len(got) + Head(todo)
    BY <1>2, <1>3, <1>4, ReadEffect, Zenon
  <1>6. Len(got) \in Nat
    BY <1>3, LenProperties, Zenon DEF Reading
  <1>7. Len(got') >= 8 /\ Len(got') + Rest(todo') = Len(Body(sent[Len(results) + 1].cmd))
    <2>1. Len(got) >= 8 /\ Len(got) + Rest(todo) = Len(Body(sent[Len(results) + 1].cmd))
      BY <1>3, Zenon
    <2>2. Head(todo) \in Nat /\ Rest(todo') \in Nat /\ Rest(todo) = Head(todo) + Rest(todo')
      BY <1>4, Zenon
    <2>3. Len(got') = Len(got) + Head(todo)
      BY <1>5, Zenon
    <2> QED
      BY <1>6, <2>1, <2>2, <2>3
  <1>8. AtStage(pos, g)'
    BY <1>2, <1>3, <1>4, <1>7, Zenon DEF AtStage
  <1>9. Histories /\ stage' \in {"start", "slide", "header", "fields", "panicked", "ended"}
    BY <1>2, Zenon DEF TransferInv
  <1> QED
    BY <1>1, <1>2, <1>3, <1>5, <1>8, <1>9, ReaderOnly, Zenon

\* ReadTag returns the command that was sent, valid if it was signed with the key of its
\* kind, and goes on after the message.
LEMMA ReadTagStep ==
    ASSUME TransferInv, ReadTag
    PROVE  TransferInv'
  <1>1. PICK F, pos, X, g : Layout(F, pos, X) /\ Reader(F, pos, g)
    BY DEF TransferInv
  <1>2. Histories
    BY DEF TransferInv
  <1>3. PICK i : i = Len(results) + 1
    BY Zenon
  <1>4. PICK m : m = sent[i]
    BY Zenon
  <1> DEFINE b == Body(m.cmd)
             type == TypeOf(got[8])
             res == [cmd |-> Construct(type, got), valid |-> Head(wire) = Tag(KeyOf(type), got)]
  <1>5. /\ stage = "fields" /\ todo = <<>> /\ wire # <<>>
        /\ results' = Append(results, res) /\ wire' = Tail(wire) /\ got' = <<>> /\ stage' = "start"
        /\ UNCHANGED <<sent, stray>>
    BY Zenon DEF ReadTag
  <1>6. /\ Reading(F, g, got, wire)
        /\ \A j \in DOMAIN sent : j <= Len(results) => pos[j] + Len(Bytes(sent[j])) <= g
        /\ Len(results) < Len(sent)
        /\ pos[i] = g
        /\ Len(got) + Rest(todo) = Len(b)
    BY <1>1, <1>3, <1>4, <1>5, Zenon DEF Reader, AtStage
  <1>7. Len(results) \in Nat /\ Len(sent) \in Nat /\ DOMAIN sent = 1 .. Len(sent) /\ i \in DOMAIN sent
    <2>1. Len(results) \in Nat /\ Len(sent) \in Nat /\ DOMAIN sent = 1 .. Len(sent)
      BY <1>2, LenProperties DEF Histories
    <2> QED
      BY <1>3, <1>6, <2>1
  <1>8. /\ g \in Nat /\ m \in Message
        /\ Len(b) \in Nat /\ Len(b) >= 8 /\ Len(Bytes(m)) = Len(b) + 1
        /\ \A k \in 1 .. Len(b) : F[g + k] = b[k]
        /\ F[g + Len(b) + 1] = Tag(m.key, b)
    <2>1. i \in DOMAIN sent
      BY <1>7, Zenon
    <2>2. /\ pos[i] \in Nat /\ sent[i] \in Message
          /\ Len(Body(sent[i].cmd)) \in Nat /\ Len(Body(sent[i].cmd)) >= 8
          /\ Len(Bytes(sent[i])) = Len(Body(sent[i].cmd)) + 1
          /\ \A k \in 1 .. Len(Body(sent[i].cmd)) : F[pos[i] + k] = Body(sent[i].cmd)[k]
          /\ F[pos[i] + Len(Body(sent[i].cmd)) + 1] = Tag(sent[i].key, Body(sent[i].cmd))
      BY <1>1, <1>2, <2>1, MessageInStream
    <2> QED
      BY <1>4, <1>6, <2>2, Zenon
  <1>9. Shape(b, m.cmd) /\ m.cmd \in RegisterCommand
    BY <1>8, MessageShape, Zenon
  <1> HIDE DEF b
  <1>10. /\ got \in Seq(Symbol) /\ wire \in Seq(Symbol) /\ g + Len(got) + Len(wire) = Len(F)
         /\ \A k \in 1 .. Len(got) : F[g + k] = got[k]
         /\ \A k \in 1 .. Len(wire) : F[g + Len(got) + k] = wire[k]
    BY <1>6, Zenon DEF Reading, Has
  <1>11. got = b
    <2>1. Len(got) \in Nat
      BY <1>10, LenProperties, Zenon
    <2>2. Rest(todo) = 0
      <3>1. todo \in Seq(Nat) /\ Len(todo) <= 5
        BY <1>5
      <3> QED
        BY <1>5, <3>1, RestShape, Zenon
    <2>3. Len(got) = Len(b)
      BY <1>6, <2>1, <2>2
    <2>4. \A k \in 1 .. Len(got) : got[k] = b[k]
      BY <1>8, <1>10, <2>3, Zenon
    <2>5. b \in Seq(Symbol)
      <3>1. b \in Seq(Plain) /\ Plain \subseteq Symbol
        BY <1>9, Zenon DEF Shape, Symbol
      <3> QED
        BY <3>1, SeqMonotonic, Zenon
    <2> QED
      BY <1>10, <2>3, <2>4, <2>5, SeqEqual, Zenon
  <1>12. type = m.cmd.type /\ Construct(type, got) = m.cmd
    <2>1. got[8] = MessageType[m.cmd.type] /\ m.cmd.type \in DOMAIN MessageType
      BY <1>9, <1>11, Zenon DEF Shape
    <2>2. type = m.cmd.type
      BY <2>1, TypeBytes, Zenon
    <2> HIDE DEF type
    <2> QED
      BY <1>9, <1>11, <2>2, Zenon DEF Shape
  <1>13. PICK v : v = Tail(wire)
    BY Zenon
  <1>14. /\ Head(wire) = wire[1] /\ v \in Seq(Symbol) /\ Len(v) = Len(wire) - 1
         /\ Len(wire) \in Nat /\ Len(wire) >= 1
         /\ \A k \in 1 .. Len(v) : v[k] = wire[k + 1]
    <2>1. /\ Tail(wire) \in Seq(Symbol) /\ Len(Tail(wire)) = Len(wire) - 1
          /\ \A k \in 1 .. Len(Tail(wire)) : Tail(wire)[k] = wire[k + 1]
      BY <1>5, <1>10, HeadTailProperties, Zenon
    <2>2. Len(wire) \in Nat /\ Len(wire) >= 1
      BY <1>5, <1>10, EmptySeq
    <2>3. Head(wire) = wire[1]
      BY <1>10, <2>2
    <2> QED
      BY <1>13, <2>1, <2>2, <2>3, Zenon
  <1>15. Head(wire) = Tag(m.key, b)
    <2>1. F[g + Len(got) + 1] = wire[1]
      BY <1>10, <1>14
    <2> QED
      BY <1>8, <1>11, <1>14, <2>1, Zenon
  <1>16. (Head(wire) = Tag(KeyOf(type), got)) = ((m.key = ClientKey) = IsClient(m.cmd.type))
    <2>1. (Tag(m.key, b) = Tag(KeyOf(type), b)) <=> (m.key = KeyOf(type))
      BY Zenon DEF Tag
    <2>2. m.key \in {ClientKey, SystemKey}
      BY <1>8, Zenon DEF Message
    <2>3. CASE IsClient(m.cmd.type)
      <3>1. KeyOf(type) = ClientKey
        BY <1>12, <2>3, Zenon DEF KeyOf
      <3>2. (Head(wire) = Tag(KeyOf(type), got)) <=> (m.key = ClientKey)
        BY <1>11, <1>15, <2>1, <3>1, Zenon
      <3> QED
        BY <2>3, <3>2, Zenon
    <2>4. CASE ~IsClient(m.cmd.type)
      <3>1. KeyOf(type) = SystemKey
        BY <1>12, <2>4, Zenon DEF KeyOf
      <3>2. (Head(wire) = Tag(KeyOf(type), got)) <=> (m.key = SystemKey)
        BY <1>11, <1>15, <2>1, <3>1
      <3>3. (m.key = SystemKey) <=> ~(m.key = ClientKey)
        BY <2>2, KeysAssumption, Zenon
      <3> QED
        BY <2>4, <3>2, <3>3 DEF IsClient
    <2> QED
      BY <2>3, <2>4, Zenon
  <1>17. res = Expected(m) /\ res \in [cmd : Command, valid : BOOLEAN]
    <2>1. res = Expected(m)
      BY <1>12, <1>16, Zenon DEF Expected
    <2>2. m.cmd \in Command
      BY <1>8, Zenon DEF Message
    <2> QED
      BY <1>12, <2>1, <2>2, Zenon
  <1> HIDE DEF res, type
  <1>18. /\ results' \in Seq([cmd : Command, valid : BOOLEAN]) /\ Len(results') = i
         /\ \A j \in 1 .. Len(results) : results'[j] = results[j]
         /\ results'[i] = Expected(m)
    <2>1. results \in Seq([cmd : Command, valid : BOOLEAN])
      BY <1>2, Zenon DEF Histories
    <2> QED
      BY <1>3, <1>5, <1>17, <2>1, AppendProperties
  <1>19. Histories'
    <2>1. \A j \in 1 .. i : results'[j] = Expected(sent[j])
      <3> TAKE j \in 1 .. i
      <3>1. CASE j = i
        BY <1>4, <1>18, <3>1, Zenon
      <3>2. CASE j # i
        <4>1. j \in 1 .. Len(results)
          BY <1>3, <1>7, <3>2
        <4> QED
          BY <1>2, <1>18, <4>1, Zenon DEF Histories
      <3> QED
        BY <3>1, <3>2, Zenon
    <2>2. i <= Len(sent)
      BY <1>7
    <2> QED
      BY <1>2, <1>5, <1>18, <2>1, <2>2, Zenon DEF Histories, Expected
  <1>20. PICK h : h = g + Len(Bytes(m))
    BY Zenon
  <1>21. Reading(F, h, got', wire')
    <2>1. h = g + Len(got) + 1 /\ h \in Nat /\ Len(got) \in Nat
      BY <1>8, <1>11, <1>20
    <2>2. h + Len(v) = Len(F)
      <3>1. g \in Nat /\ g + Len(got) + Len(wire) = Len(F)
        BY <1>8, <1>10, Zenon
      <3>2. Len(v) = Len(wire) - 1 /\ Len(wire) \in Nat
        BY <1>14, Zenon
      <3> QED
        BY <2>1, <3>1, <3>2
    <2>3. \A k \in 1 .. Len(v) : F[h + k] = v[k]
      <3> TAKE k \in 1 .. Len(v)
      <3>1. k + 1 \in 1 .. Len(wire) /\ g + Len(got) + (k + 1) = h + k
        BY <1>8, <1>14, <2>1, SMTT(30)
      <3> QED
        BY <1>10, <1>14, <3>1, Zenon
    <2>4. got' = <<>> /\ wire' = v /\ Len(<<>>) = 0 /\ <<>> \in Seq(Symbol)
      BY <1>5, <1>13
    <2>5. h + Len(<<>>) = h
      BY <2>1
    <2>6. Has(F, h, <<>>, Len(<<>>)) /\ Has(F, h + Len(<<>>), v, Len(v))
      BY <2>3, <2>5 DEF Has
    <2>7. v \in Seq(Symbol) /\ h \in Nat /\ h + Len(<<>>) + Len(v) = Len(F)
      BY <1>14, <2>1, <2>2, <2>5, Zenon
    <2>8. Reading(F, h, <<>>, v)
      BY <2>4, <2>6, <2>7, Zenon DEF Reading
    <2> QED
      BY <2>4, <2>8, Zenon
  <1>22. \A j \in DOMAIN sent' : j <= Len(results') => pos[j] + Len(Bytes(sent'[j])) <= h
    <2> SUFFICES ASSUME NEW j \in DOMAIN sent, j <= i
                 PROVE  pos[j] + Len(Bytes(sent[j])) <= h
      BY <1>5, <1>18, Zenon
    <2>1. CASE j = i
      BY <1>4, <1>6, <1>8, <1>20, <2>1
    <2>2. CASE j # i
      <3>1. j <= Len(results)
        BY <1>3, <1>7, <2>2
      <3>2. pos[j] + Len(Bytes(sent[j])) <= g /\ pos[j] \in Nat /\ Len(Bytes(sent[j])) \in Nat
        BY <1>1, <1>2, <1>6, <3>1, MessageInStream, Zenon
      <3> QED
        BY <1>8, <1>20, <3>2
    <2> QED
      BY <2>1, <2>2, Zenon
  <1>23. AtStage(pos, h)'
    <2>1. ASSUME NEW j \in DOMAIN sent, j > i
          PROVE  pos[j] >= h
      <3>1. pos[i] + Len(Bytes(sent[i])) <= pos[j]
        BY <1>1, <1>7, <2>1, Zenon DEF Layout
      <3>2. pos[j] \in Nat
        BY <1>1, <1>2, MessageInStream, Zenon
      <3> QED
        BY <1>4, <1>6, <1>8, <1>20, <3>1, <3>2, Zenon
    <2>2. Ahead(pos, h)'
      BY <1>5, <1>18, <2>1, Zenon DEF Ahead
    <2> QED
      BY <1>5, <2>2, Zenon DEF AtStage
  <1>24. Layout(F, pos, X)'
    BY <1>1, <1>5, Zenon DEF Layout
  <1>25. Reader(F, pos, h)'
    BY <1>21, <1>22, <1>23, Zenon DEF Reader
  <1> QED
    BY <1>19, <1>24, <1>25, Zenon DEF TransferInv

\* The end of the connection, and steps that change nothing.
LEMMA OtherSteps ==
    ASSUME TransferInv, Close \/ ReadFails \/ UNCHANGED vars
    PROVE  TransferInv'
  <1>1. PICK F, pos, X, g : Layout(F, pos, X) /\ Reader(F, pos, g)
    BY Zenon DEF TransferInv
  <1>2. /\ UNCHANGED <<wire, todo, got, results, sent, stray>>
        /\ stage' \in {stage, "ended"}
    BY Zenon DEF Close, ReadFails, vars
  <1>3. /\ Reading(F, g, got', wire')
        /\ \A i \in DOMAIN sent : i <= Len(results) => pos[i] + Len(Bytes(sent[i])) <= g
    BY <1>1, <1>2, Zenon DEF Reader
  <1>4. AtStage(pos, g)'
    <2>1. CASE stage' = stage
      <3>1. \A q : Ahead(pos, q)' <=> Ahead(pos, q)
        BY <1>2, Zenon DEF Ahead
      <3>2. AtStage(pos, g)
        BY <1>1, Zenon DEF Reader
      <3> QED
        BY <1>2, <2>1, <3>1, <3>2, Zenon DEF AtStage
    <2>2. CASE stage' = "ended"
      BY <2>2, Zenon DEF AtStage
    <2> QED
      BY <1>2, <2>1, <2>2, Zenon
  <1>5. Histories /\ stage' \in {"start", "slide", "header", "fields", "panicked", "ended"}
    BY <1>2, Zenon DEF TransferInv, Histories
  <1> QED
    BY <1>1, <1>2, <1>3, <1>4, <1>5, ReaderOnly, Zenon

-----------------------------------------------------------------------------
(***************************************************************************)
(* The theorems                                                            *)
(***************************************************************************)
\* Nothing has been written, and nothing read.
LEMMA TransferInit == Init => TransferInv
  <1> SUFFICES ASSUME Init
               PROVE  TransferInv
    BY Zenon
  <1>1. /\ wire = <<>> /\ stage = "start" /\ got = <<>> /\ results = <<>> /\ sent = <<>> /\ stray = 0
    BY Zenon DEF Init
  <1>2. Len(sent) = 0 /\ DOMAIN sent = {} /\ Len(results) = 0
    BY <1>1
  <1>3. Histories
    BY <1>1, <1>2 DEF Histories
  <1>4. PICK F : F = <<>>
    BY Zenon
  <1>5. F \in Seq(Symbol) /\ Len(F) = 0
    BY <1>4
  <1>6. Layout(F, <<>>, <<>>)
    <2>1. <<>> \in [DOMAIN sent -> Nat] /\ <<>> \in [1 .. stray -> Nat]
      BY <1>1, <1>2
    <2> QED
      BY <1>2, <1>5, <2>1 DEF Layout
  <1>7. Reading(F, 0, got, wire)
    BY <1>1, <1>5 DEF Reading, Has
  <1>8. Reader(F, <<>>, 0)
    BY <1>1, <1>2, <1>7, Zenon DEF Reader, AtStage, Ahead
  <1> QED
    BY <1>3, <1>6, <1>8, Zenon DEF TransferInv

\* The invariant holds of any number of messages and stray bytes, in any order.
LEMMA TransferInvariance == Spec => []TransferInv
  <1>1. TransferInv /\ [Next]_vars => TransferInv'
    <2> SUFFICES ASSUME TransferInv, [Next]_vars
                 PROVE  TransferInv'
      BY Zenon
    <2>1. CASE \E cmd \in Command, key \in {ClientKey, SystemKey} : Send(cmd, key)
      BY <2>1, SendStep, Zenon
    <2>2. CASE \E byte \in {A, T, D} : SendStray(byte)
      BY <2>2, SendStrayStep, Zenon
    <2>3. CASE Close
      BY <2>3, OtherSteps, Zenon
    <2>4. CASE ReadMagic
      BY <2>4, ReadMagicStep, Zenon
    <2>5. CASE Slide
      BY <2>5, SlideStep, Zenon
    <2>6. CASE ReadHeader
      BY <2>6, ReadHeaderStep
    <2>7. CASE ReadField
      BY <2>7, ReadFieldStep
    <2>8. CASE ReadTag
      BY <2>8, ReadTagStep
    <2>9. CASE ReadFails
      BY <2>9, OtherSteps, Zenon
    <2>10. CASE UNCHANGED vars
      BY <2>10, OtherSteps, Zenon
    <2> QED
      BY <2>1, <2>2, <2>3, <2>4, <2>5, <2>6, <2>7, <2>8, <2>9, <2>10, Zenon DEF Next
  <1> QED
    BY <1>1, TransferInit, PTL DEF Spec

\* What deserialize_rc has returned is what serialize_rc was given, from the first
\* message on, for any commands and any bytes between the messages.
THEOREM Returned == Spec => []ReturnsWhatWasSent
  <1>1. TransferInv => ReturnsWhatWasSent
    <2> SUFFICES ASSUME TransferInv
                 PROVE  ReturnsWhatWasSent
      BY Zenon
    <2>1. /\ results \in Seq([cmd : Command, valid : BOOLEAN])
          /\ Len(results) <= Len(sent)
          /\ \A i \in 1 .. Len(results) : results[i] = Expected(sent[i])
      BY Zenon DEF TransferInv, Histories
    <2>2. DOMAIN results = 1 .. Len(results)
      BY <2>1, LenProperties, Zenon
    <2> QED
      BY <2>1, <2>2, Zenon DEF ReturnsWhatWasSent
  <1> QED
    BY <1>1, TransferInvariance, PTL

\* A reader that has read all there is, and still runs, has returned every message.
THEOREM AllReturned == Spec => []NothingSkipped
  <1>1. TransferInv => NothingSkipped
    <2> SUFFICES ASSUME TransferInv, wire = <<>>, stage \notin {"panicked", "ended"},
                        Len(results) # Len(sent)
                 PROVE  FALSE
      BY Zenon DEF NothingSkipped
    <2>1. PICK F, pos, X, g : Layout(F, pos, X) /\ Reader(F, pos, g)
      BY Zenon DEF TransferInv
    <2>2. Histories
      BY Zenon DEF TransferInv
    <2> DEFINE i == Len(results) + 1
    <2>3. /\ Len(results) \in Nat /\ Len(sent) \in Nat /\ DOMAIN sent = 1 .. Len(sent)
          /\ Len(results) <= Len(sent)
      BY <2>2, LenProperties, Zenon DEF Histories
    <2>4. i \in DOMAIN sent /\ i > Len(results)
      BY <2>3
    <2>5. /\ g \in Nat /\ Len(got) \in Nat /\ g + Len(got) = Len(F)
      <3>1. g \in Nat /\ got \in Seq(Symbol) /\ g + Len(got) + Len(wire) = Len(F)
        BY <2>1, Zenon DEF Reader, Reading
      <3>2. Len(got) \in Nat /\ Len(wire) = 0
        BY <3>1, LenProperties, Zenon
      <3> QED
        BY <3>1, <3>2
    <2>6. /\ pos[i] \in Nat /\ Len(Body(sent[i].cmd)) \in Nat /\ Len(Body(sent[i].cmd)) >= 8
          /\ pos[i] + Len(Body(sent[i].cmd)) + 1 <= Len(F)
      BY <2>1, <2>2, <2>4, MessageInStream, Zenon
    <2>7. AtStage(pos, g) /\ stage \in {"start", "slide", "header", "fields"}
      BY <2>1, <2>2, Zenon DEF Reader, Histories
    <2> HIDE DEF i
    <2>8. CASE stage = "start"
      <3>1. Len(got) = 0 /\ pos[i] >= g
        BY <2>4, <2>7, <2>8, Zenon DEF AtStage, Ahead
      <3> QED
        BY <2>5, <2>6, <3>1
    <2>9. CASE stage = "slide"
      <3>1. Len(got) = 4 /\ pos[i] >= g + 1
        BY <2>4, <2>7, <2>9, Zenon DEF AtStage, Ahead
      <3> QED
        BY <2>5, <2>6, <3>1
    <2>10. CASE stage = "header"
      <3>1. Len(got) = 4 /\ pos[i] >= g
        BY <2>4, <2>7, <2>10, Zenon DEF AtStage, Ahead, MAGIC_NUMBER
      <3> QED
        BY <2>5, <2>6, <3>1
    <2>11. CASE stage = "fields"
      <3>1. /\ pos[i] = g /\ todo \in Seq(Nat) /\ Len(todo) <= 5
            /\ Len(got) + Rest(todo) = Len(Body(sent[i].cmd))
        BY <2>7, <2>11, Zenon DEF AtStage, i
      <3>2. Rest(todo) \in Nat
        BY <3>1, RestShape, Zenon
      <3> QED
        BY <2>5, <2>6, <3>1, <3>2
    <2> QED
      BY <2>7, <2>8, <2>9, <2>10, <2>11, Zenon
  <1> QED
    BY <1>1, TransferInvariance, PTL

\* try_from(buff[3]).unwrap() panics only at a magic number outside of a message, whatever
\* the sectors hold.
THEOREM PanicTakesStrayMagic == Spec => []StopsOnlyAtStrayMagic
  <1>1. TransferInv => StopsOnlyAtStrayMagic
    <2> SUFFICES ASSUME TransferInv, stage = "panicked"
                 PROVE  stray >= Len(MAGIC_NUMBER)
      BY Zenon DEF StopsOnlyAtStrayMagic
    <2>1. stray >= 4
      BY Zenon DEF TransferInv, Reader, AtStage
    <2>2. Len(MAGIC_NUMBER) = 4
      BY Zenon DEF MAGIC_NUMBER
    <2> QED
      BY <2>1, <2>2, Zenon
  <1> QED
    BY <1>1, TransferInvariance, PTL
=============================================================================
