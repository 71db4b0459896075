----------------------- MODULE SeedlinkStationProofs -----------------------
(***************************************************************************)
(* Proofs about SeedlinkStation: memory and disk stay consistent, the      *)
(* cursors of the clients stay valid, no check fails, clients are marked   *)
(* for delivery, no packet is skipped and the packets come in order.       *)
(*                                                                         *)
(* The segment files, the list of buffers and the buffers are first        *)
(* treated as values F, O and B, with what is invariant about them (Chain, *)
(* Linked, Recent, Handed, Leading) and what the operations on them keep.  *)
(* The cursor of a client is then Placed among them.  The steps of Next    *)
(* are taken one by one for this invariant (Inv), and once more for what   *)
(* rests on it: marks for delivery (MarkInv), packets passed over          *)
(* (SkipInv) and the order of packets (OrderInv).                          *)
(***************************************************************************)
EXTENDS SeedlinkStation, FiniteSetTheorems, SequenceTheorems, WellFoundedInduction, TLAPS

\* The segment files as a value: each but the last is full, and each begins where
\* the one before it ends.
Base(i) == (i - 1) * SegmentSize
File == [name : Nat, seq : SeqNumbers, packets : Seq(Packet)]
Stored(F, i) == Len(F[i].packets)
Chain(F) ==
  /\ F \in Seq(File) /\ Len(F) <= Segments
  /\ F = <<>> => Start = 0
  /\ \A i \in 1..Len(F) :
       /\ F[i].name = F[1].name + Base(i)
       /\ F[i].name >= Start
       /\ F[i].seq = F[i].name % Mod
       /\ Stored(F, i) <= SegmentSize
       /\ i < Len(F) => Stored(F, i) = SegmentSize
       /\ \A k \in 1..Stored(F, i) : F[i].packets[k].number = F[i].name + k - 1

\* The number behind the last packet, and what the files hold.
Behind(F) == IF F = <<>> THEN 0 ELSE F[Len(F)].name + Stored(F, Len(F))
Holds(F, p) == \E i \in 1..Len(F) : \E k \in 1..Stored(F, i) : F[i].packets[k] = p

\* The list of buffers as a value: every buffer is in one place.
Elements(O) == {O[i] : i \in 1..Len(O)}
Linked(O) ==
  /\ O \in Seq(1..MaxBuffers) /\ Buffers <= Len(O)
  /\ \A i, j \in 1..Len(O) : O[i] = O[j] => i = j
  /\ Cardinality(Elements(O)) = Len(O)

\* Memory holds the packets before number n, the last one in the last buffer.
Recent(F, B, O, n) ==
  /\ \A b \in 1..MaxBuffers : b \notin Elements(O) => B[b] = None
  /\ \A i \in 1..Len(O) : B[O[i]] # None =>
       /\ \A j \in i..Len(O) : B[O[j]] # None
       /\ B[O[i]].packet.number = n - 1 - (Len(O) - i)
       /\ B[O[i]].seq = B[O[i]].packet.number % Mod
       /\ Holds(F, B[O[i]].packet)

\* The buffers in H have been handed out; they are the first ones, and f is the next.
Handed(O, B, H, f) ==
  /\ IsFiniteSet(H) /\ Cardinality(H) <= Streams
  /\ H = {O[i] : i \in 1..Cardinality(H)}
  /\ f = O[Cardinality(H) + 1]
  /\ \A b \in H : B[b] = None

Leading(O, B, g) ==
  /\ g = None <=> \A i \in 1..Len(O) : B[O[i]] = None
  /\ g # None => g \in Elements(O) /\ B[g] # None

\* Memory and disk agree, as long as the server runs.
Agrees ==
  /\ Behind(files) = seqLong /\ seq = seqLong % Mod
  /\ Recent(files, buffer, order, seqLong)
  /\ Handed(order, buffer, held, free)
  /\ Leading(order, buffer, first)

StoreInv ==
  /\ TypeOK /\ Chain(files) /\ Linked(order)
  /\ Start <= seqLong /\ Behind(files) <= seqLong
  /\ phase = "recovering" => held = {} /\ blanks >= 1
  /\ phase # "down" => Agrees

\* Where a client reads its file, and the number that it must not pass there.
At(x) == x.file + (IF x.fd = None THEN 0 ELSE x.fd)
Ahead(x, F, B) == IF x.queue = None THEN Behind(F) ELSE B[x.queue].packet.number

\* The cursor of a client is at something that is there.  As long as a file has not
\* been opened, its sequence number may be out of date, but only if the packets in
\* memory are further on.
InFile(x, F, n) ==
  /\ \E i \in 1..Len(F) :
       /\ F[i].name = x.file
       /\ x.fd # None => x.fd <= Stored(F, i) /\ x.seq = At(x) % Mod
  /\ At(x) <= n
  /\ At(x) = n => x.seq = n % Mod
Placed(x, F, B, O) ==
  /\ x.queue # None => x.queue \in Elements(O) /\ B[x.queue] # None
  /\ x.file # None => InFile(x, F, Ahead(x, F, B))

ClientInv ==
  /\ ~aborted
  /\ phase # "up" => sx = [c \in Clients |-> Idle] /\ serving = None
  /\ \A c \in Clients : Placed(sx[c], files, buffer, order)

-----------------------------------------------------------------------------
\* Sequence numbers are numbers modulo Mod; the position of a file is a multiple of
\* its size.

LEMMA ConstantTypes ==
  /\ Buffers \in Nat /\ MaxBuffers \in Nat /\ Streams \in Nat /\ SegmentSize \in Nat
  /\ Segments \in Nat /\ Mod \in Nat /\ Start \in Nat /\ Blanks \in Nat
  /\ MaxPackets \in Nat /\ MaxStops \in Nat /\ MaxLost \in Nat
  /\ 1 <= Streams /\ 3 * Streams <= Buffers /\ Buffers <= MaxBuffers
  /\ 1 <= SegmentSize /\ 2 <= Segments /\ None \notin Nat
  BY ConstantAssumption DEF ConstantAssumption

\* What memory and disk hold together has fewer numbers than there are.
Room == Segments * SegmentSize

LEMMA RingFits ==
  Room \in Nat /\ MaxBuffers + Room < Mod /\ 0 < Mod
<1>1. Room \in Nat
  BY ConstantTypes DEF Room
<1>. QED
  BY <1>1, ConstantTypes, ConstantAssumption DEF ConstantAssumption, Room

LEMMA Quotient ==
  ASSUME NEW x \in Int
  PROVE  /\ x % Mod \in 0..(Mod - 1)
         /\ \E q \in Int : x = q * Mod + (x % Mod)
<1>. Mod \in Nat /\ Mod > 0
  BY ConstantTypes, RingFits
<1>1. x % Mod \in 0..(Mod - 1)
  OBVIOUS
<1>2. x = (x \div Mod) * Mod + (x % Mod) /\ x \div Mod \in Int
  OBVIOUS
<1>. QED
  BY <1>1, <1>2

LEMMA Remainder ==
  ASSUME NEW q \in Int, NEW r \in 0..(Mod - 1)
  PROVE  (q * Mod + r) % Mod = r
  BY ConstantTypes, RingFits

LEMMA ModRange ==
  ASSUME NEW x \in Int
  PROVE  x % Mod \in SeqNumbers
  BY Quotient DEF SeqNumbers

LEMMA ModSame ==
  ASSUME NEW x \in Int, NEW y \in Int, x % Mod = y % Mod, x - y < Mod, y - x < Mod
  PROVE  x = y
<1>1. PICK q \in Int : x = q * Mod + (x % Mod)
  BY Quotient
<1>2. PICK p \in Int : y = p * Mod + (y % Mod)
  BY Quotient
<1>3. x % Mod \in Int /\ q * Mod \in Int /\ p * Mod \in Int /\ Mod \in Int /\ Mod > 0
  BY Quotient, ConstantTypes, RingFits
<1>4. CASE q > p
  <2>1. (q - p) * Mod >= Mod
    BY <1>3, <1>4
  <2>2. (q - p) * Mod = q * Mod - p * Mod
    BY <1>3
  <2>. QED
    BY <1>1, <1>2, <1>3, <2>1, <2>2
<1>5. CASE p > q
  <2>1. (p - q) * Mod >= Mod
    BY <1>3, <1>5
  <2>2. (p - q) * Mod = p * Mod - q * Mod
    BY <1>3
  <2>. QED
    BY <1>1, <1>2, <1>3, <2>1, <2>2
<1>. QED
  BY <1>1, <1>2, <1>4, <1>5

\* The sum, and the difference, with a remainder.
LEMMA ModSum ==
  ASSUME NEW x \in Int, NEW y \in Int
  PROVE  (x + (y % Mod)) % Mod = (x + y) % Mod
<1>1. PICK q \in Int : y = q * Mod + (y % Mod)
  BY Quotient
<1>2. PICK p \in Int : x + y = p * Mod + ((x + y) % Mod)
  BY Quotient
<1>3. y % Mod \in Int /\ (x + y) % Mod \in Int /\ (x + y) % Mod \in 0..(Mod - 1)
  BY Quotient
<1>4. (p - q) * Mod = p * Mod - q * Mod /\ q * Mod \in Int /\ p * Mod \in Int
  BY ConstantTypes
<1>5. x + (y % Mod) = (p - q) * Mod + ((x + y) % Mod)
  BY <1>1, <1>2, <1>3, <1>4
<1>. QED
  BY <1>3, <1>5, Remainder

LEMMA ModDifference ==
  ASSUME NEW x \in Int, NEW y \in Int
  PROVE  (x - (y % Mod)) % Mod = (x - y) % Mod
<1>1. PICK q \in Int : y = q * Mod + (y % Mod)
  BY Quotient
<1>2. PICK p \in Int : x - y = p * Mod + ((x - y) % Mod)
  BY Quotient
<1>3. y % Mod \in Int /\ (x - y) % Mod \in Int /\ (x - y) % Mod \in 0..(Mod - 1)
  BY Quotient
<1>4. (p + q) * Mod = p * Mod + q * Mod /\ q * Mod \in Int /\ p * Mod \in Int
  BY ConstantTypes
<1>5. x - (y % Mod) = (p + q) * Mod + ((x - y) % Mod)
  BY <1>1, <1>2, <1>3, <1>4
<1>. QED
  BY <1>3, <1>5, Remainder

LEMMA ModSmall ==
  ASSUME NEW x \in SeqNumbers
  PROVE  x % Mod = x
  BY ConstantTypes, RingFits DEF SeqNumbers

LEMMA Next1Is ==
  ASSUME NEW x \in Int
  PROVE  Next1(x % Mod) = (x + 1) % Mod
<1>1. (1 + (x % Mod)) % Mod = (1 + x) % Mod
  BY ModSum
<1>2. 1 + (x % Mod) = (x % Mod) + 1 /\ 1 + x = x + 1
  BY Quotient
<1>. QED
  BY <1>1, <1>2 DEF Next1

\* The distance of two sequence numbers is that of the numbers.
LEMMA DistanceIs ==
  ASSUME NEW x \in Int, NEW y \in Int, y <= x, x - y < Mod
  PROVE  ((x % Mod) - (y % Mod)) % Mod = x - y
<1>1. x % Mod \in Int /\ x % Mod \in SeqNumbers /\ y % Mod \in SeqNumbers
  BY ModRange DEF SeqNumbers
<1>2. ((x % Mod) - (y % Mod)) % Mod = ((x % Mod) - y) % Mod
  BY <1>1, ModDifference
<1>3. ((x % Mod) - y) % Mod = ((-y) + (x % Mod)) % Mod
  BY <1>1
<1>4. ((-y) + (x % Mod)) % Mod = ((-y) + x) % Mod
  BY ModSum
<1>5. (-y) + x = x - y /\ x - y \in SeqNumbers
  BY ConstantTypes DEF SeqNumbers
<1>. QED
  BY <1>2, <1>3, <1>4, <1>5, ModSmall

\* The number at a given distance from another one.
LEMMA DistanceBack ==
  ASSUME NEW m \in SeqNumbers, NEW y \in Int
  PROVE  /\ (m - (y % Mod)) % Mod \in SeqNumbers
         /\ (y + ((m - (y % Mod)) % Mod)) % Mod = m
<1>1. m \in Int /\ y % Mod \in Int /\ y % Mod \in SeqNumbers
  BY ModRange DEF SeqNumbers
<1>2. (m - (y % Mod)) % Mod = (m - y) % Mod
  BY <1>1, ModDifference
<1>3. (y + ((m - y) % Mod)) % Mod = (y + (m - y)) % Mod
  BY <1>1, ModSum
<1>4. y + (m - y) = m /\ m - (y % Mod) \in Int
  BY <1>1
<1>. QED
  BY <1>1, <1>2, <1>3, <1>4, ModSmall, ModRange

\* Where the i-th file begins, relative to the first.

LEMMA BaseStep ==
  /\ Base(1) = 0
  /\ \A i \in Nat : i >= 1 => Base(i) \in Nat /\ Base(i + 1) = Base(i) + SegmentSize
<1>. SegmentSize \in Nat
  BY ConstantTypes
<1>1. Base(1) = 0
  BY DEF Base
<1>2. ASSUME NEW i \in Nat, i >= 1
      PROVE  Base(i) \in Nat /\ Base(i + 1) = Base(i) + SegmentSize
  <2>1. ((i + 1) - 1) * SegmentSize = (i - 1) * SegmentSize + SegmentSize
    OBVIOUS
  <2>2. i - 1 \in Nat
    BY <1>2
  <2>3. (i - 1) * SegmentSize \in Nat
    BY <2>2
  <2>. QED
    BY <2>1, <2>3 DEF Base
<1>. QED
  BY <1>1, <1>2

LEMMA BaseOrder ==
  ASSUME NEW i \in Nat, NEW j \in Nat, i >= 1, i < j
  PROVE  Base(i) + SegmentSize <= Base(j)
<1>. SegmentSize \in Nat
  BY ConstantTypes
<1>1. (j - 1) * SegmentSize = (i - 1) * SegmentSize + (j - i) * SegmentSize
  OBVIOUS
<1>2. j - i \in Nat /\ j - i >= 1
  OBVIOUS
<1>3. (j - i) * SegmentSize >= SegmentSize
  BY <1>2
<1>4. (i - 1) * SegmentSize \in Int /\ (j - i) * SegmentSize \in Int
  OBVIOUS
<1>. QED
  BY <1>1, <1>3, <1>4 DEF Base

LEMMA BaseBound ==
  ASSUME NEW i \in Nat, i >= 1, i <= Segments
  PROVE  Base(i) + SegmentSize <= Room
<1>1. Base(i) + SegmentSize <= Base(Segments + 1)
  BY BaseOrder, ConstantTypes
<1>2. (Segments + 1) - 1 = Segments
  BY ConstantTypes
<1>. QED
  BY <1>1, <1>2 DEF Base, Room

-----------------------------------------------------------------------------
\* The segment files.

LEMMA FileTypes ==
  ASSUME NEW F \in Seq(File), NEW i \in 1..Len(F)
  PROVE  /\ F[i] \in File /\ F[i].name \in Nat /\ F[i].seq \in SeqNumbers
         /\ F[i].packets \in Seq(Packet) /\ Stored(F, i) \in Nat
         /\ \A k \in 1..Stored(F, i) : F[i].packets[k] \in Packet
<1>1. F[i] \in File
  OBVIOUS
<1>2. F[i].packets \in Seq(Packet)
  BY <1>1 DEF File
<1>. QED
  BY <1>1, <1>2 DEF File, Stored

LEMMA ChainOrder ==
  ASSUME NEW F, Chain(F), NEW i \in 1..Len(F)
  PROVE  /\ F[1].name <= F[i].name
         /\ i < Len(F) => F[i + 1].name = F[i].name + SegmentSize
         /\ \A j \in 1..Len(F) : i < j => F[i].name + SegmentSize <= F[j].name
<1>1. F \in Seq(File) /\ Len(F) \in Nat /\ 1 \in 1..Len(F)
  BY DEF Chain
<1>2. \A j \in 1..Len(F) : F[j].name = F[1].name + Base(j) /\ F[j].name \in Nat
  BY <1>1, FileTypes DEF Chain
<1>3. F[1].name \in Nat /\ SegmentSize \in Nat /\ i \in Nat /\ i >= 1
  BY <1>1, <1>2, ConstantTypes
<1>4. \A j \in 1..Len(F) : Base(j) \in Nat
  BY BaseStep
<1>5. F[1].name <= F[i].name
  BY <1>2, <1>3, <1>4
<1>6. i < Len(F) => F[i + 1].name = F[i].name + SegmentSize
  <2>1. SUFFICES ASSUME i < Len(F) PROVE F[i + 1].name = F[i].name + SegmentSize
    OBVIOUS
  <2>2. i + 1 \in 1..Len(F) /\ Base(i + 1) = Base(i) + SegmentSize
    BY <1>1, <1>3, <2>1, BaseStep
  <2>. QED
    BY <1>2, <1>3, <1>4, <2>2
<1>7. ASSUME NEW j \in 1..Len(F), i < j
      PROVE  F[i].name + SegmentSize <= F[j].name
  <2>1. Base(i) + SegmentSize <= Base(j)
    BY <1>3, <1>7, BaseOrder
  <2>. QED
    BY <1>2, <1>3, <1>4, <2>1
<1>. QED
  BY <1>5, <1>6, <1>7

LEMMA ChainRange ==
  ASSUME NEW F, Chain(F), NEW i \in 1..Len(F)
  PROVE  /\ F # <<>> /\ Behind(F) \in Nat
         /\ F[i].name \in Nat /\ Stored(F, i) \in 0..SegmentSize
         /\ F[i].name + Stored(F, i) <= Behind(F)
         /\ Behind(F) <= F[1].name + Room
<1>1. F \in Seq(File) /\ Len(F) \in Nat /\ Len(F) \in 1..Len(F) /\ 1 \in 1..Len(F) /\ F # <<>>
  BY DEF Chain
<1>2. \A j \in 1..Len(F) :
        /\ F[j].name \in Nat /\ Stored(F, j) \in 0..SegmentSize
        /\ F[j].name = F[1].name + Base(j) /\ Base(j) \in Nat
  <2>1. SUFFICES ASSUME NEW j \in 1..Len(F)
                 PROVE  /\ F[j].name \in Nat /\ Stored(F, j) \in 0..SegmentSize
                        /\ F[j].name = F[1].name + Base(j) /\ Base(j) \in Nat
    OBVIOUS
  <2>2. F[j].name \in Nat /\ Stored(F, j) \in Nat
    BY <1>1, FileTypes
  <2>3. Stored(F, j) <= SegmentSize /\ F[j].name = F[1].name + Base(j)
    BY DEF Chain
  <2>4. Base(j) \in Nat
    BY BaseStep
  <2>. QED
    BY <2>2, <2>3, <2>4, ConstantTypes
<1>3. Behind(F) = F[Len(F)].name + Stored(F, Len(F)) /\ Behind(F) \in Nat
  BY <1>1, <1>2, ConstantTypes DEF Behind
<1>7. SegmentSize \in Nat /\ Room \in Nat
  BY ConstantTypes, RingFits
<1>8. /\ F[i].name \in Nat /\ Stored(F, i) \in 0..SegmentSize /\ F[1].name \in Nat
      /\ F[Len(F)].name \in Nat /\ Stored(F, Len(F)) \in 0..SegmentSize
      /\ F[Len(F)].name = F[1].name + Base(Len(F)) /\ Base(Len(F)) \in Nat
  BY <1>1, <1>2
<1>4. F[i].name + Stored(F, i) <= Behind(F)
  <2>1. CASE i = Len(F)
    BY <1>3, <2>1, <1>2, ConstantTypes
  <2>2. CASE i < Len(F)
    <3>1. F[i].name + SegmentSize <= F[Len(F)].name
      BY <1>1, <2>2, ChainOrder
    <3>2. F[i].name + Stored(F, i) <= F[i].name + SegmentSize
      BY <1>7, <1>8
    <3>3. F[Len(F)].name <= F[Len(F)].name + Stored(F, Len(F))
      BY <1>8
    <3>4. F[i].name + Stored(F, i) <= F[Len(F)].name + Stored(F, Len(F))
      BY <1>7, <1>8, <3>1, <3>2, <3>3
    <3>. QED
      BY <1>3, <3>4
  <2>. QED
    BY <1>1, <2>1, <2>2
<1>5. Base(Len(F)) + SegmentSize <= Room
  BY <1>1, BaseBound DEF Chain
<1>6. Behind(F) <= F[1].name + Room
  BY <1>3, <1>5, <1>7, <1>8
<1>. QED
  BY <1>1, <1>3, <1>4, <1>6, <1>8

\* Every number from the first to the last is in a file.
LEMMA ChainCovers ==
  ASSUME NEW F, Chain(F), F # <<>>, NEW n \in Int, F[1].name <= n, n < Behind(F)
  PROVE  \E i \in 1..Len(F) : F[i].name <= n /\ n < F[i].name + Stored(F, i)
<1>1. F \in Seq(File) /\ Len(F) \in Nat /\ Len(F) \in 1..Len(F) /\ 1 \in 1..Len(F)
  BY DEF Chain
<1>2. \A i \in 1..Len(F) : F[i].name \in Nat /\ Stored(F, i) \in 0..SegmentSize
  BY ChainRange
<1>. DEFINE T == {i \in Nat : i \in 1..Len(F) /\ n < F[i].name}
<1>3. CASE T = {}
  <2>1. F[Len(F)].name <= n
    BY <1>1, <1>2, <1>3
  <2>. QED
    BY <1>1, <2>1 DEF Behind
<1>4. CASE T # {}
  <2>1. PICK j \in T : \A i \in T : ~(i < j)
    <3>1. \E x \in T : \A y \in T : ~(<<y, x>> \in OpToRel(<, Nat))
      BY <1>4, NatLessThanWellFounded, WFMin
    <3>. QED
      BY <3>1 DEF OpToRel
  <2>2. j # 1 /\ j \in 2..Len(F)
    BY <1>1, <1>2
  <2>3. j - 1 \in 1..Len(F) /\ j - 1 < Len(F) /\ j - 1 < j /\ (j - 1) + 1 = j
    BY <1>1, <2>2
  <2>7. j - 1 \notin T
    BY <2>1, <2>3
  <2>4. F[j].name = F[j - 1].name + SegmentSize
    BY <2>3, ChainOrder
  <2>5. Stored(F, j - 1) = SegmentSize
    BY <2>3 DEF Chain
  <2>6. F[j - 1].name <= n
    BY <1>2, <2>3, <2>7
  <2>. QED
    BY <2>1, <2>3, <2>4, <2>5, <2>6
<1>. QED
  BY <1>3, <1>4
\* Two files that hold the same number are one.
LEMMA FilesDisjoint ==
  ASSUME NEW F, Chain(F), NEW i \in 1..Len(F), NEW j \in 1..Len(F), NEW n \in Int,
         F[i].name <= n, n < F[i].name + Stored(F, i),
         F[j].name <= n, n < F[j].name + Stored(F, j)
  PROVE  i = j
<1>1. /\ F[i].name \in Nat /\ Stored(F, i) \in 0..SegmentSize
      /\ F[j].name \in Nat /\ Stored(F, j) \in 0..SegmentSize /\ SegmentSize \in Nat
  BY ChainRange, ConstantTypes
<1>2. CASE i < j
  <2>1. F[i].name + SegmentSize <= F[j].name
    BY <1>2, ChainOrder
  <2>. QED
    BY <1>1, <2>1
<1>3. CASE j < i
  <2>1. F[j].name + SegmentSize <= F[i].name
    BY <1>3, ChainOrder
  <2>. QED
    BY <1>1, <2>1
<1>. QED
  BY <1>2, <1>3

LEMMA IndexOfIs ==
  ASSUME Chain(files), NEW i \in 1..Len(files)
  PROVE  IndexOf(files[i].name) = i
<1>1. \A j \in 1..Len(files) : files[j].name = files[i].name => j = i
  <2>1. SUFFICES ASSUME NEW j \in 1..Len(files), files[j].name = files[i].name, j # i
                 PROVE  FALSE
    OBVIOUS
  <2>2. files[i].name \in Nat /\ SegmentSize \in Nat /\ 1 <= SegmentSize
    BY ChainRange, ConstantTypes
  <2>3. CASE i < j
    <3>1. files[i].name + SegmentSize <= files[j].name
      BY <2>3, ChainOrder
    <3>. QED
      BY <2>1, <2>2, <3>1
  <2>4. CASE j < i
    <3>1. files[j].name + SegmentSize <= files[i].name
      BY <2>4, ChainOrder
    <3>. QED
      BY <2>1, <2>2, <3>1
  <2>. QED
    BY <2>1, <2>3, <2>4
<1>. QED
  BY <1>1 DEF IndexOf

\* The offset of a sequence number in a file, and the number it stands for.
LEMMA OffsetIs ==
  ASSUME Chain(files), NEW i \in 1..Len(files), NEW m \in SeqNumbers, Offset(i, m) < Size(i)
  PROVE  /\ Offset(i, m) \in Nat /\ files[i].name + Offset(i, m) < Behind(files)
         /\ (files[i].name + Offset(i, m)) % Mod = m
<1>1. files[i].name \in Nat /\ files[i].seq = files[i].name % Mod
  BY ChainRange DEF Chain
<1>2. Offset(i, m) \in SeqNumbers /\ (files[i].name + Offset(i, m)) % Mod = m
  BY <1>1, DistanceBack DEF Offset
<1>3. /\ files[i].name + Size(i) <= Behind(files)
      /\ Size(i) \in Nat /\ Behind(files) \in Nat
  BY ChainRange DEF Size, Stored
<1>. QED
  BY <1>1, <1>2, <1>3 DEF SeqNumbers

\* find_packet_in_filestore() finds a number that is on disk where it is.
LEMMA FileWithIs ==
  ASSUME Chain(files), NEW i \in 1..Len(files), NEW n \in Int,
         files[i].name <= n, n < files[i].name + Size(i)
  PROVE  FileWith(n % Mod) = i /\ Offset(i, n % Mod) = n - files[i].name
<1>. DEFINE m == n % Mod
<1>1. m \in SeqNumbers
  BY ModRange
<1>2. /\ files[i].name \in Nat /\ Size(i) \in 0..SegmentSize /\ files[1].name \in Nat
      /\ files[1].name <= files[i].name /\ files[i].name + Size(i) <= Behind(files)
      /\ Behind(files) <= files[1].name + Room /\ Behind(files) \in Nat
      /\ 1 \in 1..Len(files)
  <2>1. 1 \in 1..Len(files)
    BY DEF Chain
  <2>. QED
    BY <2>1, ChainRange, ChainOrder DEF Size, Stored
<1>3. Room \in Nat /\ Room < Mod /\ Mod \in Nat
  BY RingFits, ConstantTypes
<1>4. files[i].seq = files[i].name % Mod
  BY DEF Chain
<1>5. Offset(i, m) = n - files[i].name
  <2>1. n - files[i].name < Mod
    BY <1>2, <1>3
  <2>. QED
    BY <1>2, <1>4, <2>1, DistanceIs DEF Offset
<1>6. ASSUME NEW j \in 1..Len(files), Offset(j, m) < Size(j)
      PROVE  j = i
  <2>1. /\ Offset(j, m) \in Nat /\ files[j].name + Offset(j, m) < Behind(files)
        /\ (files[j].name + Offset(j, m)) % Mod = m
    BY <1>1, <1>6, OffsetIs
  <2>2. /\ files[j].name \in Nat /\ files[1].name <= files[j].name /\ Size(j) \in Nat
    BY ChainRange, ChainOrder DEF Size, Stored
  <2>3. files[j].name + Offset(j, m) = n
    <3>. DEFINE x == files[j].name + Offset(j, m)
    <3>1. x \in Nat /\ files[1].name <= x /\ x < Behind(files) /\ x % Mod = n % Mod
      <4>1. x % Mod = n % Mod
        BY <2>1
      <4>. HIDE DEF m
      <4>2. x \in Nat /\ files[1].name <= x /\ x < Behind(files)
        BY <1>2, <2>1, <2>2
      <4>. QED
        BY <4>1, <4>2
    <3>2. files[1].name <= n /\ n < Behind(files)
      BY <1>2
    <3>. HIDE DEF x, m
    <3>3. x - n < Mod /\ n - x < Mod
      BY <1>2, <1>3, <3>1, <3>2
    <3>. QED
      BY <3>1, <3>3, ModSame DEF x
  <2>4. /\ files[j].name <= n /\ n < files[j].name + Stored(files, j)
        /\ files[i].name <= n /\ n < files[i].name + Stored(files, i)
    BY <1>6, <2>1, <2>2, <2>3 DEF Size, Stored
  <2>. QED
    BY <2>4, FilesDisjoint
<1>. DEFINE S == {j \in 1..Len(files) : Offset(j, m) < Size(j)}
<1>7. S = {i}
  <2>1. i \in S
    BY <1>2, <1>5
  <2>. QED
    BY <1>6, <2>1
<1>8. Least(S) = i
  <2>1. Least({i}) = i
    BY DEF Least
  <2>. QED
    BY <1>7, <2>1
<1>9. FileWith(m) = IF S = {} THEN 0 ELSE Least(S)
  BY DEF FileWith
<1>. QED
  BY <1>5, <1>7, <1>8, <1>9

\* What it finds is there.
LEMMA FileWithSound ==
  ASSUME Chain(files), NEW m \in SeqNumbers, FileWith(m) # 0
  PROVE  LET i == FileWith(m) IN
         /\ i \in 1..Len(files) /\ Offset(i, m) \in Nat /\ Offset(i, m) < Size(i)
         /\ (files[i].name + Offset(i, m)) % Mod = m
<1>1. PICK j \in 1..Len(files) : Offset(j, m) < Size(j)
  BY DEF FileWith
<1>2. /\ Offset(j, m) \in Nat /\ (files[j].name + Offset(j, m)) % Mod = m
      /\ files[j].name \in Nat /\ Size(j) \in Nat
  BY <1>1, OffsetIs, ChainRange DEF Size, Stored
<1>. DEFINE n == files[j].name + Offset(j, m)
<1>3. n \in Int /\ files[j].name <= n /\ n < files[j].name + Size(j)
  BY <1>1, <1>2
<1>4. FileWith(n % Mod) = j
  BY <1>3, FileWithIs
<1>5. FileWith(m) = j
  BY <1>2, <1>4
<1>. QED
  BY <1>1, <1>2, <1>5
\* The oldest file is deleted.
LEMMA TailChain ==
  ASSUME NEW F, Chain(F), Len(F) >= 2
  PROVE  /\ Chain(Tail(F)) /\ Behind(Tail(F)) = Behind(F) /\ Len(Tail(F)) = Len(F) - 1
         /\ \A i \in 1..(Len(F) - 1) : Tail(F)[i] = F[i + 1] /\ Stored(Tail(F), i) = Stored(F, i + 1)
<1>. DEFINE G == Tail(F)
<1>1. F \in Seq(File) /\ Len(F) \in Nat
  BY DEF Chain
<1>2. G \in Seq(File) /\ Len(G) = Len(F) - 1 /\ \A i \in 1..Len(G) : G[i] = F[i + 1]
  BY <1>1
<1>3. \A i \in 1..Len(G) : i + 1 \in 1..Len(F) /\ Stored(G, i) = Stored(F, i + 1)
  BY <1>1, <1>2 DEF Stored
<1>. HIDE DEF G
<1>4. ASSUME NEW i \in 1..Len(G)
      PROVE  /\ G[i].name = G[1].name + Base(i)
             /\ G[i].name >= Start /\ G[i].seq = G[i].name % Mod
             /\ Stored(G, i) <= SegmentSize
             /\ i < Len(G) => Stored(G, i) = SegmentSize
             /\ \A k \in 1..Stored(G, i) : G[i].packets[k].number = G[i].name + k - 1
  <2>1. G[i] = F[i + 1] /\ G[1] = F[2] /\ i + 1 \in 1..Len(F) /\ Stored(G, i) = Stored(F, i + 1)
    BY <1>1, <1>2, <1>3
  <2>2. Base(i + 1) = Base(i) + SegmentSize /\ Base(2) = SegmentSize /\ Base(i) \in Nat
    <3>1. Base(1 + 1) = Base(1) + SegmentSize /\ Base(1) = 0 /\ 1 + 1 = 2
      BY BaseStep
    <3>2. SegmentSize \in Nat /\ i \in Nat /\ i >= 1
      BY <1>1, <1>2, ConstantTypes
    <3>. QED
      BY <3>1, <3>2, BaseStep
  <2>3. F[i + 1].name = F[1].name + Base(i + 1) /\ F[2].name = F[1].name + Base(2)
    BY <1>1, <2>1 DEF Chain
  <2>4. F[1].name \in Nat /\ SegmentSize \in Nat
    <3>1. 1 \in 1..Len(F)
      BY <1>1
    <3>. QED
      BY <3>1, ChainRange, ConstantTypes
  <2>5. G[i].name = G[1].name + Base(i)
    BY <2>1, <2>2, <2>3, <2>4
  <2>6. i < Len(G) => i + 1 < Len(F)
    BY <1>1, <1>2
  <2>. QED
    BY <2>1, <2>5, <2>6 DEF Chain
<1>5. G # <<>> /\ Len(G) <= Segments
  BY <1>1, <1>2, ConstantTypes DEF Chain
<1>6. Chain(G)
  BY <1>2, <1>4, <1>5 DEF Chain
<1>7. Behind(G) = Behind(F)
  <2>1. Len(G) \in 1..Len(G) /\ Len(G) + 1 = Len(F) /\ F # <<>>
    BY <1>1, <1>2
  <2>. QED
    BY <1>2, <1>3, <1>5, <2>1 DEF Behind
<1>. QED
  BY <1>2, <1>3, <1>6, <1>7 DEF G

\* A new file begins where the last one, which is full, ends.
LEMMA NewFileChain ==
  ASSUME NEW F, Chain(F), Len(F) < Segments, NEW n \in Nat, n >= Start,
         NEW f, f = [name |-> n, seq |-> n % Mod, packets |-> <<>>],
         F # <<>> => n = Behind(F) /\ Stored(F, Len(F)) = SegmentSize
  PROVE  /\ Chain(Append(F, f)) /\ Behind(Append(F, f)) = n
         /\ Stored(Append(F, f), Len(F) + 1) = 0
<1>. DEFINE G == Append(F, f)
<1>1. F \in Seq(File) /\ Len(F) \in Nat
  BY DEF Chain
<1>2. f \in File /\ f.name = n /\ f.seq = n % Mod /\ f.packets = <<>>
  BY ModRange DEF File
<1>3. /\ G \in Seq(File) /\ Len(G) = Len(F) + 1 /\ G[Len(F) + 1] = f
      /\ \A i \in 1..Len(F) : G[i] = F[i]
  BY <1>1, <1>2
<1>4. Stored(G, Len(F) + 1) = 0 /\ \A i \in 1..Len(F) : Stored(G, i) = Stored(F, i)
  BY <1>2, <1>3 DEF Stored
<1>. HIDE DEF G
<1>5. f.name = G[1].name + Base(Len(F) + 1)
  <2>1. CASE F = <<>>
    BY <1>2, <1>3, <2>1, BaseStep
  <2>2. CASE F # <<>>
    <3>1. Len(F) \in 1..Len(F) /\ 1 \in 1..Len(F)
      BY <1>1, <2>2
    <3>2. n = F[Len(F)].name + SegmentSize
      BY <2>2 DEF Behind
    <3>3. F[Len(F)].name = F[1].name + Base(Len(F))
      BY <3>1 DEF Chain
    <3>4. Base(Len(F) + 1) = Base(Len(F)) + SegmentSize /\ Base(Len(F)) \in Nat
      BY <3>1, BaseStep
    <3>5. F[1].name \in Nat /\ SegmentSize \in Nat /\ G[1] = F[1]
      BY <1>3, <3>1, ChainRange, ConstantTypes
    <3>. QED
      BY <1>2, <3>2, <3>3, <3>4, <3>5
  <2>. QED
    BY <2>1, <2>2
<1>6. ASSUME NEW i \in 1..Len(G)
      PROVE  /\ G[i].name = G[1].name + Base(i)
             /\ G[i].name >= Start /\ G[i].seq = G[i].name % Mod
             /\ Stored(G, i) <= SegmentSize
             /\ i < Len(G) => Stored(G, i) = SegmentSize
             /\ \A k \in 1..Stored(G, i) : G[i].packets[k].number = G[i].name + k - 1
  <2>1. CASE i = Len(F) + 1
    BY <1>2, <1>3, <1>4, <1>5, <2>1, ConstantTypes
  <2>2. CASE i # Len(F) + 1
    <3>1. i \in 1..Len(F) /\ G[i] = F[i] /\ G[1] = F[1] /\ Stored(G, i) = Stored(F, i)
      BY <1>1, <1>3, <1>4, <2>2
    <3>2. i < Len(G) => Stored(F, i) = SegmentSize
      <4>1. CASE i = Len(F)
        <5>1. F # <<>>
          BY <3>1
        <5>. QED
          BY <4>1, <5>1
      <4>2. CASE i < Len(F)
        BY <3>1, <4>2 DEF Chain
      <4>. QED
        BY <1>1, <3>1, <4>1, <4>2
    <3>. QED
      BY <3>1, <3>2 DEF Chain
  <2>. QED
    BY <2>1, <2>2
<1>7. Chain(G)
  BY <1>1, <1>3, <1>6, ConstantTypes DEF Chain
<1>8. Behind(G) = n
  BY <1>1, <1>2, <1>3, <1>4 DEF Behind
<1>. QED
  BY <1>4, <1>7, <1>8 DEF G

\* One element of a sequence is replaced.
LEMMA ReplaceElement ==
  ASSUME NEW S, NEW q \in Seq(S), NEW n \in 1..Len(q), NEW f \in S
  PROVE  /\ [q EXCEPT ![n] = f] \in Seq(S) /\ Len([q EXCEPT ![n] = f]) = Len(q)
         /\ [q EXCEPT ![n] = f][n] = f
         /\ \A i \in 1..Len(q) : i # n => [q EXCEPT ![n] = f][i] = q[i]
OBVIOUS

\* The packets in the last file are replaced.
WithLast(F, q) == [F EXCEPT ![Len(F)].packets = q]

LEMMA LastFileTypes ==
  ASSUME NEW F \in Seq(File), F # <<>>, NEW q \in Seq(Packet),
         NEW G, G = WithLast(F, q)
  PROVE  /\ G \in Seq(File) /\ Len(G) = Len(F)
         /\ G[Len(F)].packets = q /\ G[Len(F)].name = F[Len(F)].name
         /\ G[Len(F)].seq = F[Len(F)].seq
         /\ \A i \in 1..Len(F) : i # Len(F) => G[i] = F[i]
<1>. DEFINE n == Len(F)
            f == [F[n] EXCEPT !.packets = q]
<1>1. n \in Nat /\ n \in 1..n
  OBVIOUS
<1>2. F[n] \in File
  BY <1>1, FileTypes
<1>3. f \in File /\ f.name = F[n].name /\ f.seq = F[n].seq /\ f.packets = q
  BY <1>2 DEF File
<1>4. G = [F EXCEPT ![n] = f]
  BY DEF WithLast
<1>. HIDE DEF f
<1>5. f \in File /\ n \in 1..Len(F)
  BY <1>1, <1>3
<1>. QED
  BY <1>3, <1>4, <1>5, ReplaceElement

LEMMA LastFileChain ==
  ASSUME NEW F, Chain(F), F # <<>>, NEW q \in Seq(Packet), Len(q) <= SegmentSize,
         \A k \in 1..Len(q) : q[k].number = F[Len(F)].name + k - 1,
         NEW G, G = WithLast(F, q)
  PROVE  /\ Chain(G) /\ G # <<>> /\ Len(G) = Len(F) /\ Behind(G) = F[Len(F)].name + Len(q)
         /\ G[Len(F)].packets = q /\ Stored(G, Len(F)) = Len(q)
         /\ \A i \in 1..Len(F) :
              /\ G[i].name = F[i].name
              /\ i # Len(F) => G[i] = F[i] /\ Stored(G, i) = Stored(F, i)
<1>. DEFINE n == Len(F)
<1>1. F \in Seq(File) /\ n \in Nat /\ n \in 1..n
  BY DEF Chain
<1>2. F[n].name \in Nat
  BY <1>1, FileTypes
<1>5. /\ G \in Seq(File) /\ Len(G) = n
      /\ G[n].packets = q /\ G[n].name = F[n].name /\ G[n].seq = F[n].seq
      /\ \A i \in 1..n : i # n => G[i] = F[i]
  BY <1>1, LastFileTypes
<1>6. Stored(G, n) = Len(q) /\ G[n].packets = q
  BY <1>5 DEF Stored
<1>7. \A i \in 1..n :
        /\ G[i].name = F[i].name /\ G[i].seq = F[i].seq
        /\ i # n => Stored(G, i) = Stored(F, i)
  BY <1>5 DEF Stored
<1>8. ASSUME NEW i \in 1..n
      PROVE  /\ G[i].name = G[1].name + Base(i)
             /\ G[i].name >= Start /\ G[i].seq = G[i].name % Mod
             /\ Stored(G, i) <= SegmentSize
             /\ i < n => Stored(G, i) = SegmentSize
             /\ \A k \in 1..Stored(G, i) : G[i].packets[k].number = G[i].name + k - 1
  <2>1. G[1].name = F[1].name /\ G[i].name = F[i].name /\ G[i].seq = F[i].seq
    BY <1>1, <1>7
  <2>2. /\ F[i].name = F[1].name + Base(i)
        /\ F[i].name >= Start /\ F[i].seq = F[i].name % Mod
        /\ Stored(F, i) <= SegmentSize
        /\ i < n => Stored(F, i) = SegmentSize
        /\ \A k \in 1..Stored(F, i) : F[i].packets[k].number = F[i].name + k - 1
    BY DEF Chain
  <2>3. CASE i = n
    <3>1. ~(i < n) /\ Stored(G, i) = Len(q) /\ G[i].packets = q /\ G[i].name = F[Len(F)].name
      BY <1>1, <1>6, <2>1, <2>3
    <3>. HIDE DEF n
    <3>. QED
      BY <2>1, <2>2, <3>1
  <2>4. CASE i # n
    <3>1. G[i] = F[i] /\ Stored(G, i) = Stored(F, i)
      BY <1>5, <1>7, <2>4
    <3>. QED
      BY <2>1, <2>2, <3>1
  <2>. QED
    BY <2>3, <2>4
<1>9. G # <<>> /\ Chain(G)
  <2>1. n <= Segments /\ n # 0
    BY <1>1 DEF Chain
  <2>2. G # <<>>
    BY <1>5, <2>1
  <2>3. \A i \in 1..Len(G) : i \in 1..n /\ (i < Len(G) <=> i < n)
    BY <1>5
  <2>4. G \in Seq(File) /\ Len(G) <= Segments
    BY <1>5, <2>1
  <2>. HIDE DEF n
  <2>. QED
    BY <1>8, <2>2, <2>3, <2>4 DEF Chain
<1>10. Behind(G) = F[n].name + Len(q)
  BY <1>1, <1>5, <1>6, <1>7, <1>9 DEF Behind
<1>. QED
  BY <1>5, <1>6, <1>7, <1>9, <1>10

\* A packet is written to the last file.
LEMMA AppendChain ==
  ASSUME NEW F, Chain(F), F # <<>>, Stored(F, Len(F)) < SegmentSize,
         NEW p \in Packet, p.number = Behind(F),
         NEW G, G = WithLast(F, Append(F[Len(F)].packets, p))
  PROVE  /\ Chain(G) /\ Behind(G) = Behind(F) + 1 /\ Len(G) = Len(F)
         /\ \A i \in 1..Len(F) :
              /\ G[i].name = F[i].name
              /\ \A k \in 1..Stored(F, i) : G[i].packets[k] = F[i].packets[k]
              /\ Stored(G, i) = IF i = Len(F) THEN Stored(F, i) + 1 ELSE Stored(F, i)
         /\ G[Len(F)].packets[Stored(F, Len(F)) + 1] = p
<1>. DEFINE n == Len(F)
            q == Append(F[n].packets, p)
<1>1. F \in Seq(File) /\ n \in 1..n
  BY DEF Chain
<1>2. F[n].packets \in Seq(Packet) /\ F[n].name \in Nat /\ Stored(F, n) \in Nat
  BY <1>1, FileTypes
<1>3. /\ q \in Seq(Packet) /\ Len(q) = Stored(F, n) + 1 /\ q[Stored(F, n) + 1] = p
      /\ \A k \in 1..Stored(F, n) : q[k] = F[n].packets[k]
  BY <1>2 DEF Stored
<1>4. G = WithLast(F, q)
  OBVIOUS
<1>. HIDE DEF q
<1>5. Behind(F) = F[n].name + Stored(F, n)
  BY DEF Behind
<1>6. ASSUME NEW k \in 1..Len(q)
      PROVE  q[k].number = F[n].name + k - 1
  <2>1. CASE k = Stored(F, n) + 1
    <3>1. q[k] = p /\ p.number = F[n].name + Stored(F, n)
      BY <1>3, <1>5, <2>1
    <3>. HIDE DEF n
    <3>. QED
      BY <1>2, <2>1, <3>1
  <2>2. CASE k # Stored(F, n) + 1
    <3>1. k \in 1..Stored(F, n)
      BY <1>2, <1>3, <2>2
    <3>. QED
      BY <1>1, <1>3, <3>1 DEF Chain
  <2>. QED
    BY <2>1, <2>2
<1>7. Len(q) <= SegmentSize
  BY <1>2, <1>3, ConstantTypes
<1>8. /\ Chain(G) /\ Len(G) = n /\ Behind(G) = F[n].name + Len(q)
      /\ G[n].packets = q /\ Stored(G, n) = Len(q)
      /\ \A i \in 1..n :
           /\ G[i].name = F[i].name
           /\ i # n => G[i] = F[i] /\ Stored(G, i) = Stored(F, i)
  BY <1>3, <1>4, <1>6, <1>7, LastFileChain
<1>9. Behind(G) = Behind(F) + 1
  BY <1>2, <1>3, <1>5, <1>8
<1>. HIDE DEF n
<1>10. \A i \in 1..n : \A k \in 1..Stored(F, i) : G[i].packets[k] = F[i].packets[k]
  <2>. SUFFICES ASSUME NEW i \in 1..n, NEW k \in 1..Stored(F, i)
                PROVE  G[i].packets[k] = F[i].packets[k]
    OBVIOUS
  <2>. QED
    BY <1>3, <1>8
<1>11. G[n].packets[Stored(F, n) + 1] = p
  BY <1>3, <1>8
<1>12. \A i \in 1..n : Stored(G, i) = IF i = n THEN Stored(F, i) + 1 ELSE Stored(F, i)
  BY <1>3, <1>8
<1>. QED
  BY <1>8, <1>9, <1>10, <1>11, <1>12 DEF n

\* The last k packets are lost.
LEMMA CutChain ==
  ASSUME NEW F, Chain(F), F # <<>>, NEW k \in Nat, k <= Stored(F, Len(F)),
         NEW G, G = WithLast(F, SubSeq(F[Len(F)].packets, 1, Stored(F, Len(F)) - k))
  PROVE  /\ Chain(G) /\ G # <<>> /\ Behind(G) = Behind(F) - k /\ Len(G) = Len(F)
         /\ \A i \in 1..Len(F) :
              /\ G[i].name = F[i].name
              /\ Stored(G, i) <= Stored(F, i)
              /\ \A l \in 1..Stored(G, i) : G[i].packets[l] = F[i].packets[l]
<1>. DEFINE n == Len(F)
            q == SubSeq(F[n].packets, 1, Stored(F, n) - k)
<1>1. F \in Seq(File) /\ n \in 1..n
  BY DEF Chain
<1>2. F[n].packets \in Seq(Packet) /\ F[n].name \in Nat /\ Stored(F, n) \in Nat
  BY <1>1, FileTypes
<1>3. /\ q \in Seq(Packet) /\ Len(q) = Stored(F, n) - k
      /\ \A l \in 1..Len(q) : q[l] = F[n].packets[l] /\ l \in 1..Stored(F, n)
  BY <1>2 DEF Stored
<1>4. G = WithLast(F, q)
  OBVIOUS
<1>. HIDE DEF q
<1>5. Behind(F) = F[n].name + Stored(F, n)
  BY DEF Behind
<1>6. /\ \A l \in 1..Stored(F, n) : F[n].packets[l].number = F[n].name + l - 1
      /\ Stored(F, n) <= SegmentSize
  BY <1>1 DEF Chain
<1>7. Len(q) <= SegmentSize /\ \A l \in 1..Len(q) : q[l].number = F[n].name + l - 1
  <2>1. Len(q) <= SegmentSize
    BY <1>2, <1>3, <1>6, ConstantTypes
  <2>. QED
    BY <1>3, <1>6, <2>1
<1>8. /\ Chain(G) /\ G # <<>> /\ Len(G) = n /\ Behind(G) = F[n].name + Len(q)
      /\ G[n].packets = q /\ Stored(G, n) = Len(q)
      /\ \A i \in 1..n :
           /\ G[i].name = F[i].name
           /\ i # n => G[i] = F[i] /\ Stored(G, i) = Stored(F, i)
  BY <1>3, <1>4, <1>7, LastFileChain
<1>9. Behind(G) = Behind(F) - k
  BY <1>2, <1>3, <1>5, <1>8
<1>10. \A i \in 1..n : Stored(F, i) \in Nat
  BY <1>1, FileTypes
<1>. HIDE DEF n
<1>11. \A i \in 1..n : Stored(G, i) <= Stored(F, i)
  <2>. SUFFICES ASSUME NEW i \in 1..n
                PROVE  Stored(G, i) <= Stored(F, i)
    OBVIOUS
  <2>1. Stored(F, i) \in Nat /\ Stored(F, n) \in Nat
    BY <1>2, <1>10
  <2>2. CASE i = n
    <3>1. Stored(G, n) = Stored(F, n) - k
      BY <1>3, <1>8
    <3>. QED
      BY <2>1, <2>2, <3>1
  <2>3. CASE i # n
    BY <1>8, <2>1, <2>3
  <2>. QED
    BY <2>2, <2>3
<1>12. \A i \in 1..n : \A l \in 1..Stored(G, i) : G[i].packets[l] = F[i].packets[l]
  BY <1>3, <1>8
<1>. QED
  BY <1>8, <1>9, <1>11, <1>12 DEF n
\* What a sequence of files holds.

LEMMA HeldNumber ==
  ASSUME NEW F, Chain(F), NEW p, Holds(F, p)
  PROVE  /\ F # <<>> /\ p \in Packet /\ p.number \in Nat
         /\ F[1].name <= p.number /\ p.number < Behind(F)
         /\ \E i \in 1..Len(F) : /\ F[i].name <= p.number
                                 /\ p.number < F[i].name + Stored(F, i)
<1>0. PICK i \in 1..Len(F) : \E k \in 1..Stored(F, i) : F[i].packets[k] = p
  BY DEF Holds
<1>1. PICK k \in 1..Stored(F, i) : F[i].packets[k] = p
  BY <1>0
<1>2. p.number = F[i].name + k - 1
  BY <1>1 DEF Chain
<1>3. F \in Seq(File)
  BY DEF Chain
<1>4. p \in Packet /\ F[i].name \in Nat /\ Stored(F, i) \in Nat
  BY <1>1, <1>3, FileTypes
<1>5. /\ F # <<>> /\ F[1].name <= F[i].name /\ F[1].name \in Nat
      /\ F[i].name + Stored(F, i) <= Behind(F) /\ Behind(F) \in Nat
  <2>1. 1 \in 1..Len(F)
    BY <1>3
  <2>. QED
    BY <2>1, ChainRange, ChainOrder
<1>6. p.number \in Nat /\ F[i].name <= p.number /\ p.number < F[i].name + Stored(F, i)
  BY <1>2, <1>4
<1>. QED
  BY <1>4, <1>5, <1>6

LEMMA HeldOnce ==
  ASSUME NEW F, Chain(F), NEW p, Holds(F, p), NEW q, Holds(F, q), p.number = q.number
  PROVE  p = q
<1>0. PICK i \in 1..Len(F) : \E k \in 1..Stored(F, i) : F[i].packets[k] = p
  BY DEF Holds
<1>1. PICK k \in 1..Stored(F, i) : F[i].packets[k] = p
  BY <1>0
<1>9. PICK j \in 1..Len(F) : \E l \in 1..Stored(F, j) : F[j].packets[l] = q
  BY DEF Holds
<1>2. PICK l \in 1..Stored(F, j) : F[j].packets[l] = q
  BY <1>9
<1>3. p.number = F[i].name + k - 1 /\ q.number = F[j].name + l - 1
  BY <1>1, <1>2 DEF Chain
<1>4. /\ F[i].name \in Nat /\ Stored(F, i) \in Nat
      /\ F[j].name \in Nat /\ Stored(F, j) \in Nat
  BY ChainRange
<1>8. /\ k \in Nat /\ l \in Nat /\ 1 <= k /\ 1 <= l
      /\ k <= Stored(F, i) /\ l <= Stored(F, j)
  BY <1>1, <1>2, <1>4
<1>10. F[i].name + k - 1 = F[j].name + l - 1
  BY <1>3
<1>5. i = j
  <2>. DEFINE n == F[i].name + k - 1
  <2>1. /\ n \in Int /\ F[i].name <= n /\ n < F[i].name + Stored(F, i)
        /\ F[j].name <= n /\ n < F[j].name + Stored(F, j)
    BY <1>4, <1>8, <1>10
  <2>. HIDE DEF n
  <2>. QED
    BY <2>1, FilesDisjoint
<1>7. k = l
  BY <1>4, <1>5, <1>8, <1>10
<1>. QED
  BY <1>1, <1>2, <1>5, <1>7

\* The packet with a given number is at its place in the file.
LEMMA HeldAt ==
  ASSUME NEW F, Chain(F), NEW i \in 1..Len(F), NEW k \in 1..Stored(F, i)
  PROVE  Holds(F, F[i].packets[k]) /\ F[i].packets[k].number = F[i].name + k - 1
  BY DEF Holds, Chain

LEMMA NotEmpty ==
  ASSUME NEW q, Len(q) # 0
  PROVE  q # <<>>
<1>1. Len(<<>>) = 0
  OBVIOUS
<1>. QED
  BY <1>1

\* get_file(): either the last file has room, or there is a new one, for which the
\* oldest makes room if need be.
LEMMA RolledIs ==
  ASSUME Chain(files), Behind(files) = seqLong, seqLong \in Nat, seqLong >= Start,
         seq = seqLong % Mod
  PROVE  /\ Chain(Rolled) /\ Rolled # <<>> /\ Behind(Rolled) = seqLong
         /\ Stored(Rolled, Len(Rolled)) < SegmentSize
         /\ \E d \in {0, 1} :
              /\ \A i \in 1..Len(files) :
                   i > d => i - d \in 1..Len(Rolled) /\ Rolled[i - d] = files[i]
              /\ \A i \in 1..Len(Rolled) :
                   IF i + d <= Len(files) THEN Rolled[i] = files[i + d]
                   ELSE Stored(Rolled, i) = 0 /\ i = Len(Rolled) /\ Rolled[i].name = seqLong
              /\ d = 1 => /\ Len(files) = Segments /\ LastIsFull
                          /\ Rolled[Segments].name = seqLong /\ Len(Rolled) = Segments
<1>. DEFINE n == Len(files)
            G == Append(files, NewFile)
<1>1. files \in Seq(File) /\ n \in Nat /\ n <= Segments
  BY DEF Chain
<1>2. files = <<>> \/ (n \in 1..n /\ Stored(files, n) \in 0..SegmentSize)
  BY <1>1, ChainRange
<1>3. CASE ~LastIsFull
  <2>1. files # <<>> /\ Stored(files, n) < SegmentSize
    <3>1. files # <<>> /\ ~(Stored(files, n) >= SegmentSize)
      BY <1>3 DEF LastIsFull, Size, Stored
    <3>. QED
      BY <1>2, <3>1, ConstantTypes
  <2>2. Rolled = files
    BY <1>1, <1>3, ConstantTypes DEF Rolled, TooMany
  <2>3. /\ \A i \in 1..n : i > 0 => i - 0 \in 1..Len(Rolled) /\ Rolled[i - 0] = files[i]
        /\ \A i \in 1..Len(Rolled) : i + 0 <= n /\ Rolled[i] = files[i + 0]
    BY <1>1, <2>2
  <2>. QED
    BY <2>1, <2>2, <2>3
<1>4. CASE LastIsFull
  <2>1. files # <<>> => Stored(files, n) = SegmentSize
    BY <1>2, <1>4, ConstantTypes DEF LastIsFull, Size, Stored
  <2>2. NewFile = [name |-> seqLong, seq |-> seqLong % Mod, packets |-> <<>>]
    BY DEF NewFile
  <2>3. NewFile \in File /\ NewFile.name = seqLong /\ NewFile.packets = <<>>
    BY <2>2, ModRange DEF File
  <2>. HIDE DEF G
  <2>4. /\ G \in Seq(File) /\ Len(G) = n + 1 /\ G[n + 1] = NewFile
        /\ \A i \in 1..n : G[i] = files[i]
    BY <1>1, <2>3 DEF G
  <2>5. CASE n < Segments
    <3>1. Rolled = G
      <4>1. ~TooMany(Len(G))
        BY <1>1, <2>4, <2>5, ConstantTypes DEF TooMany
      <4>. QED
        BY <1>4, <4>1 DEF Rolled, G
    <3>2. Chain(G) /\ Behind(G) = seqLong /\ Stored(G, n + 1) = 0
      BY <2>1, <2>2, <2>5, NewFileChain DEF G
    <3>3. /\ \A i \in 1..n : i > 0 => i - 0 \in 1..Len(G) /\ G[i - 0] = files[i]
          /\ \A i \in 1..Len(G) :
               IF i + 0 <= n THEN G[i] = files[i + 0]
               ELSE Stored(G, i) = 0 /\ i = Len(G) /\ G[i].name = seqLong
      BY <1>1, <2>3, <2>4, <3>2
    <3>4. G # <<>> /\ Stored(G, Len(G)) < SegmentSize
      BY <1>1, <2>4, <3>2, ConstantTypes
    <3>. QED
      BY <3>1, <3>2, <3>3, <3>4
  <2>6. CASE n = Segments
    <3>. DEFINE H == Append(Tail(files), NewFile)
    <3>1. Rolled = H
      <4>1. TooMany(Len(G))
        BY <1>1, <2>4, <2>6, ConstantTypes DEF TooMany
      <4>2. Rolled = Tail(G)
        BY <1>4, <4>1 DEF Rolled, G
      <4>3. Tail(G) = H
        <5>1. /\ Tail(files) \in Seq(File) /\ Len(Tail(files)) = n - 1
              /\ \A i \in 1..(n - 1) : Tail(files)[i] = files[i + 1]
          BY <1>1, <2>6, ConstantTypes
        <5>2. /\ Tail(G) \in Seq(File) /\ Len(Tail(G)) = n
              /\ \A i \in 1..n : Tail(G)[i] = G[i + 1]
          BY <1>1, <2>4
        <5>3. /\ H \in Seq(File) /\ Len(H) = n /\ H[n] = NewFile
              /\ \A i \in 1..(n - 1) : H[i] = files[i + 1]
          BY <1>1, <2>3, <5>1
        <5>4. \A i \in 1..n : Tail(G)[i] = H[i]
          BY <1>1, <2>4, <5>2, <5>3
        <5>. HIDE DEF H
        <5>. QED
          BY <5>2, <5>3, <5>4
      <4>. QED
        BY <4>2, <4>3
    <3>2. /\ Chain(Tail(files)) /\ Behind(Tail(files)) = seqLong /\ Len(Tail(files)) = n - 1
          /\ \A i \in 1..(n - 1) : /\ Tail(files)[i] = files[i + 1]
                                   /\ Stored(Tail(files), i) = Stored(files, i + 1)
      BY <1>1, <2>6, TailChain, ConstantTypes
    <3>3. /\ n - 1 \in 1..(n - 1) /\ (n - 1) + 1 = n /\ n - 1 < Segments
          /\ Len(files) # 0 /\ Len(Tail(files)) # 0
      BY <1>1, <2>6, <3>2, ConstantTypes
    <3>9. files # <<>> /\ Tail(files) # <<>>
      BY <3>3, NotEmpty
    <3>4. Stored(Tail(files), n - 1) = SegmentSize
      BY <2>1, <3>2, <3>3, <3>9
    <3>5. Chain(H) /\ Behind(H) = seqLong /\ Stored(H, n) = 0
      BY <2>2, <3>2, <3>3, <3>4, <3>9, NewFileChain
    <3>6. /\ Len(H) = n /\ H[n] = NewFile
          /\ \A i \in 1..(n - 1) : H[i] = files[i + 1]
      <4>1. Tail(files) \in Seq(File)
        BY <3>2 DEF Chain
      <4>2. /\ H \in Seq(File) /\ Len(H) = Len(Tail(files)) + 1 /\ H[Len(Tail(files)) + 1] = NewFile
            /\ \A i \in 1..Len(Tail(files)) : H[i] = Tail(files)[i]
        BY <2>3, <4>1
      <4>. HIDE DEF H
      <4>. QED
        BY <3>2, <3>3, <4>2
    <3>. HIDE DEF H
    <3>7. \A i \in 1..n : i > 1 => i - 1 \in 1..Len(H) /\ H[i - 1] = files[i]
      <4>. SUFFICES ASSUME NEW i \in 1..n, i > 1
                    PROVE  i - 1 \in 1..Len(H) /\ H[i - 1] = files[i]
        OBVIOUS
      <4>1. i - 1 \in 1..(n - 1) /\ i - 1 \in 1..n /\ (i - 1) + 1 = i
        BY <1>1
      <4>. HIDE DEF n
      <4>. QED
        BY <3>6, <4>1
    <3>10. \A i \in 1..Len(H) :
             IF i + 1 <= n THEN H[i] = files[i + 1]
             ELSE Stored(H, i) = 0 /\ i = Len(H) /\ H[i].name = seqLong
      <4>. SUFFICES ASSUME NEW i \in 1..Len(H)
                    PROVE  IF i + 1 <= n THEN H[i] = files[i + 1]
                           ELSE Stored(H, i) = 0 /\ i = Len(H) /\ H[i].name = seqLong
        OBVIOUS
      <4>1. CASE i + 1 <= n
        <5>1. i \in 1..(n - 1)
          BY <1>1, <3>6, <4>1
        <5>. QED
          BY <3>6, <4>1, <5>1
      <4>2. CASE ~(i + 1 <= n)
        <5>1. i = n
          BY <1>1, <3>6, <4>2
        <5>. HIDE DEF n
        <5>. QED
          BY <2>3, <3>5, <3>6, <4>2, <5>1
      <4>. QED
        BY <4>1, <4>2
    <3>8. /\ H # <<>> /\ Stored(H, Len(H)) < SegmentSize
          /\ H[Segments].name = seqLong /\ Len(H) = Segments
      BY <2>3, <2>6, <3>3, <3>5, <3>6, ConstantTypes
    <3>. QED
      BY <1>4, <2>6, <3>1, <3>5, <3>7, <3>8, <3>10
  <2>. QED
    BY <1>1, <2>5, <2>6, ConstantTypes
<1>. QED
  BY <1>3, <1>4
\* What storing a packet does to the disk: all but the oldest file is kept.
LEMMA WrittenIs ==
  ASSUME Chain(files), Behind(files) = seqLong, seqLong \in Nat, seqLong >= Start,
         seq = seqLong % Mod, NEW p \in Packet, p.number = seqLong,
         NEW G, G = WithLast(Rolled, Append(Rolled[Len(Rolled)].packets, p))
  PROVE  /\ Chain(G) /\ G # <<>> /\ Behind(G) = seqLong + 1 /\ Holds(G, p)
         /\ G[1].name = Rolled[1].name /\ G[1].name \in Nat /\ G[1].name <= seqLong
         /\ files # <<>> => files[1].name <= G[1].name
         /\ \A q : Holds(files, q) /\ q.number >= G[1].name => Holds(G, q)
         /\ \A q : Holds(G, q) => q = p \/ Holds(files, q)
         /\ \A i \in 1..Len(files) : files[i].name >= G[1].name =>
              \E j \in 1..Len(G) :
                G[j].name = files[i].name /\ Stored(files, i) <= Stored(G, j)
         /\ \A i \in 1..Len(files) : files[i].name < G[1].name =>
              /\ files[i].name + Stored(files, i) <= G[1].name
              /\ G[1].name + Base(Segments) = seqLong
<1>. DEFINE R == Rolled
            n == Len(R)
<1>1. /\ Chain(R) /\ R # <<>> /\ Behind(R) = seqLong /\ Stored(R, n) < SegmentSize
      /\ \E d \in {0, 1} :
           /\ \A i \in 1..Len(files) :
                i > d => i - d \in 1..n /\ R[i - d] = files[i]
           /\ \A i \in 1..n :
                IF i + d <= Len(files) THEN R[i] = files[i + d]
                ELSE Stored(R, i) = 0 /\ i = n /\ R[i].name = seqLong
           /\ d = 1 => /\ Len(files) = Segments
                       /\ R[Segments].name = seqLong /\ n = Segments
  BY RolledIs
<1>2. PICK d \in {0, 1} :
           /\ \A i \in 1..Len(files) :
                i > d => i - d \in 1..n /\ R[i - d] = files[i]
           /\ \A i \in 1..n :
                IF i + d <= Len(files) THEN R[i] = files[i + d]
                ELSE Stored(R, i) = 0 /\ i = n /\ R[i].name = seqLong
           /\ d = 1 => /\ Len(files) = Segments
                       /\ R[Segments].name = seqLong /\ n = Segments
  BY <1>1
<1>3. G = WithLast(R, Append(R[n].packets, p))
  OBVIOUS
<1>. HIDE DEF R
<1>4. /\ Chain(G) /\ Behind(G) = seqLong + 1 /\ Len(G) = n
      /\ \A i \in 1..n :
           /\ G[i].name = R[i].name
           /\ \A k \in 1..Stored(R, i) : G[i].packets[k] = R[i].packets[k]
           /\ Stored(G, i) = IF i = n THEN Stored(R, i) + 1 ELSE Stored(R, i)
      /\ G[n].packets[Stored(R, n) + 1] = p
  BY <1>1, <1>3, AppendChain
<1>5. /\ R \in Seq(File) /\ files \in Seq(File) /\ n \in 1..n /\ 1 \in 1..n
      /\ n \in Nat /\ Len(files) \in Nat /\ G # <<>>
  BY <1>1, <1>4 DEF Chain
<1>6. \A i \in 1..n : Stored(R, i) \in Nat /\ Stored(R, i) <= Stored(G, i) /\ R[i].name \in Nat
  BY <1>1, <1>4, <1>5, ChainRange
<1>7. Holds(G, p)
  <2>1. Stored(G, n) = Stored(R, n) + 1 /\ Stored(R, n) + 1 \in 1..Stored(G, n)
    BY <1>4, <1>5, <1>6
  <2>. QED
    BY <1>4, <1>5, <2>1 DEF Holds
<1>8. G[1].name = R[1].name /\ G[1].name \in Nat
  BY <1>4, <1>5, <1>6
<1>9. G[1].name <= seqLong
  <2>1. /\ R[1].name + Stored(R, 1) <= Behind(R) /\ Stored(R, 1) \in Nat
    BY <1>1, <1>5, <1>6, ChainRange
  <2>. QED
    BY <1>1, <1>8, <2>1
<1>10. \A i \in 1..Len(files) : /\ Stored(files, i) \in Nat /\ files[i].name \in Nat
                                /\ files[1].name <= files[i].name
  BY ChainRange, ChainOrder
\* A file that is kept.
<1>11. ASSUME NEW i \in 1..Len(files), i > d
       PROVE  /\ i - d \in 1..n /\ G[i - d].name = files[i].name
              /\ Stored(files, i) <= Stored(G, i - d)
              /\ \A k \in 1..Stored(files, i) : G[i - d].packets[k] = files[i].packets[k]
  <2>1. i - d \in 1..n /\ R[i - d] = files[i]
    BY <1>2, <1>11
  <2>2. Stored(R, i - d) = Stored(files, i)
    BY <2>1 DEF Stored
  <2>. QED
    BY <1>4, <1>6, <2>1, <2>2
<1>12. /\ files # <<>> => files[1].name <= G[1].name
       /\ \A i \in 1..Len(files) :
            /\ files[i].name >= G[1].name => i > d
            /\ files[i].name < G[1].name => /\ files[i].name + Stored(files, i) <= G[1].name
                                            /\ G[1].name + Base(Segments) = seqLong
  <2>1. CASE d = 0
    <3>1. files # <<>> => files[1].name = G[1].name
      <4>1. SUFFICES ASSUME files # <<>> PROVE files[1].name = G[1].name
        OBVIOUS
      <4>2. 1 \in 1..Len(files) /\ 1 - d = 1 /\ 1 > d
        BY <1>5, <2>1, <4>1
      <4>. QED
        BY <1>11, <4>2
    <3>2. \A i \in 1..Len(files) : files # <<>> /\ ~(files[i].name < G[1].name)
      <4>1. SUFFICES ASSUME NEW i \in 1..Len(files)
                     PROVE  files # <<>> /\ ~(files[i].name < G[1].name)
        OBVIOUS
      <4>2. files # <<>>
        BY <1>5
      <4>. QED
        BY <1>8, <1>10, <3>1, <4>2
    <3>3. \A i \in 1..Len(files) : i > d
      BY <1>5, <2>1
    <3>4. files # <<>> => files[1].name <= G[1].name
      BY <1>8, <3>1
    <3>. QED
      BY <3>2, <3>3, <3>4
  <2>2. CASE d = 1
    <3>1. 2 \in 1..Len(files) /\ 1 \in 1..Len(files) /\ Len(files) = Segments /\ Segments \in 1..n
      BY <1>2, <1>5, <2>2, ConstantTypes
    <3>2. 2 > d /\ 2 - d = 1
      BY <2>2
    <3>3. G[1].name = files[2].name
      BY <1>11, <3>1, <3>2
    <3>4. SegmentSize \in Nat /\ 1 <= SegmentSize
      BY ConstantTypes
    <3>5. files[1].name + SegmentSize <= files[2].name
      <4>1. 1 < 2
        OBVIOUS
      <4>. QED
        BY <3>1, <4>1, ChainOrder
    <3>6. Stored(files, 1) <= SegmentSize
      BY <3>1 DEF Chain
    <3>7. ASSUME NEW i \in 1..Len(files), i > 2 PROVE files[2].name <= files[i].name
      <4>1. files[2].name + SegmentSize <= files[i].name
        BY <3>1, <3>7, ChainOrder
      <4>. QED
        BY <1>10, <3>1, <3>4, <4>1
    <3>8. G[1].name + Base(Segments) = seqLong
      <4>1. R[Segments].name = seqLong
        BY <1>2, <2>2
      <4>2. R[Segments].name = R[1].name + Base(Segments)
        BY <1>1, <3>1 DEF Chain
      <4>. QED
        BY <1>8, <4>1, <4>2
    <3>9. ASSUME NEW i \in 1..Len(files)
          PROVE  /\ files[i].name >= G[1].name => i > d
                 /\ files[i].name < G[1].name => i = 1
      <4>1. files[i].name \in Nat /\ files[1].name \in Nat /\ files[2].name \in Nat
        BY <1>10, <3>1
      <4>2. CASE i = 1
        BY <3>3, <3>4, <3>5, <4>1, <4>2
      <4>3. CASE i = 2
        BY <2>2, <3>3, <4>1, <4>3
      <4>4. CASE i > 2
        BY <2>2, <3>3, <3>7, <4>1, <4>4
      <4>. QED
        BY <4>2, <4>3, <4>4
    <3>10. files[1].name <= G[1].name /\ files[1].name + Stored(files, 1) <= G[1].name
      <4>1. files[1].name \in Nat /\ Stored(files, 1) \in Nat /\ files[2].name \in Nat
        BY <1>10, <3>1
      <4>. QED
        BY <3>3, <3>4, <3>5, <3>6, <4>1
    <3>. QED
      BY <3>8, <3>9, <3>10
  <2>. QED
    BY <2>1, <2>2
<1>13. ASSUME NEW q, Holds(files, q), q.number >= G[1].name
       PROVE  Holds(G, q)
  <2>1. PICK i \in 1..Len(files) : \E k \in 1..Stored(files, i) : files[i].packets[k] = q
    BY <1>13 DEF Holds
  <2>2. PICK k \in 1..Stored(files, i) : files[i].packets[k] = q
    BY <2>1
  <2>3. q.number = files[i].name + k - 1
    BY <2>2, HeldAt
  <2>4. files[i].name >= G[1].name
    <3>1. /\ files[i].name \in Nat /\ Stored(files, i) \in Nat /\ G[1].name \in Nat
          /\ k \in Nat /\ k <= Stored(files, i)
      BY <1>8, <1>10, <2>2
    <3>2. files[i].name + k - 1 >= G[1].name
      BY <1>13, <2>3
    <3>3. files[i].name < G[1].name => files[i].name + Stored(files, i) <= G[1].name
      BY <1>12
    <3>. QED
      BY <3>1, <3>2, <3>3
  <2>5. i > d
    BY <1>12, <2>4
  <2>6. i - d \in 1..n /\ G[i - d].packets[k] = q /\ k \in 1..Stored(G, i - d)
    BY <1>10, <1>11, <1>5, <1>6, <2>2, <2>5, <1>4
  <2>. QED
    BY <1>4, <2>6 DEF Holds
<1>14. ASSUME NEW q, Holds(G, q)
       PROVE  q = p \/ Holds(files, q)
  <2>1. PICK j \in 1..n : \E k \in 1..Stored(G, j) : G[j].packets[k] = q
    BY <1>4, <1>14 DEF Holds
  <2>2. PICK k \in 1..Stored(G, j) : G[j].packets[k] = q
    BY <2>1
  <2>3. CASE k \in 1..Stored(R, j)
    <3>1. R[j].packets[k] = q
      BY <1>4, <2>2, <2>3
    <3>2. j + d <= Len(files)
      BY <1>2, <2>3
    <3>3. R[j] = files[j + d] /\ j + d \in 1..Len(files) /\ Stored(R, j) = Stored(files, j + d)
      BY <1>2, <1>5, <3>2 DEF Stored
    <3>. QED
      BY <2>3, <3>1, <3>3 DEF Holds
  <2>4. CASE k \notin 1..Stored(R, j)
    <3>1. j = n /\ k = Stored(R, j) + 1
      BY <1>4, <1>6, <2>2, <2>4
    <3>. QED
      BY <1>4, <2>2, <3>1
  <2>. QED
    BY <2>3, <2>4
<1>15. ASSUME NEW i \in 1..Len(files), files[i].name >= G[1].name
       PROVE  \E j \in 1..Len(G) :
                G[j].name = files[i].name /\ Stored(files, i) <= Stored(G, j)
  BY <1>4, <1>11, <1>12, <1>15
<1>. QED
  BY <1>4, <1>5, <1>7, <1>8, <1>9, <1>12, <1>13, <1>14, <1>15 DEF R
-----------------------------------------------------------------------------
\* Parts of sequences, and sequences put together.

LEMMA SubSeqIs ==
  ASSUME NEW S, NEW s \in Seq(S), NEW m \in Nat, NEW n \in Nat, 1 <= m, m <= n + 1, n <= Len(s)
  PROVE  /\ SubSeq(s, m, n) \in Seq(S) /\ Len(SubSeq(s, m, n)) = n + 1 - m
         /\ \A i \in 1..(n + 1 - m) : SubSeq(s, m, n)[i] = s[m + i - 1]
<1>1. CASE m <= n
  <2>1. m \in 1..Len(s) /\ n \in m..Len(s)
    BY <1>1
  <2>. QED
    BY <2>1, SubSeqProperties
<1>2. CASE m = n + 1
  BY <1>2, SubSeqProperties
<1>. QED
  BY <1>1, <1>2

LEMMA PrefixIs ==
  ASSUME NEW S, NEW s \in Seq(S), NEW n \in 0..Len(s)
  PROVE  /\ SubSeq(s, 1, n) \in Seq(S) /\ Len(SubSeq(s, 1, n)) = n
         /\ \A i \in 1..n : SubSeq(s, 1, n)[i] = s[i]
<1>1. 1 \in Nat /\ n \in Nat /\ 1 <= n + 1 /\ n <= Len(s) /\ n + 1 - 1 = n
  OBVIOUS
<1>2. /\ SubSeq(s, 1, n) \in Seq(S) /\ Len(SubSeq(s, 1, n)) = n + 1 - 1
      /\ \A i \in 1..(n + 1 - 1) : SubSeq(s, 1, n)[i] = s[1 + i - 1]
  BY <1>1, SubSeqIs
<1>3. \A i \in 1..n : 1 + i - 1 = i
  OBVIOUS
<1>. QED
  BY <1>1, <1>2, <1>3

LEMMA SuffixIs ==
  ASSUME NEW S, NEW s \in Seq(S), NEW n \in 0..Len(s)
  PROVE  /\ SubSeq(s, n + 1, Len(s)) \in Seq(S) /\ Len(SubSeq(s, n + 1, Len(s))) = Len(s) - n
         /\ \A i \in 1..(Len(s) - n) : SubSeq(s, n + 1, Len(s))[i] = s[n + i]
<1>1. /\ n + 1 \in Nat /\ Len(s) \in Nat /\ 1 <= n + 1 /\ n + 1 <= Len(s) + 1
      /\ Len(s) <= Len(s) /\ Len(s) + 1 - (n + 1) = Len(s) - n
  OBVIOUS
<1>2. /\ SubSeq(s, n + 1, Len(s)) \in Seq(S)
      /\ Len(SubSeq(s, n + 1, Len(s))) = Len(s) + 1 - (n + 1)
      /\ \A i \in 1..(Len(s) + 1 - (n + 1)) :
           SubSeq(s, n + 1, Len(s))[i] = s[(n + 1) + i - 1]
  BY <1>1, SubSeqIs
<1>3. \A i \in 1..(Len(s) - n) : (n + 1) + i - 1 = n + i
  OBVIOUS
<1>. QED
  BY <1>1, <1>2, <1>3

LEMMA ConcatIs ==
  ASSUME NEW S, NEW s \in Seq(S), NEW t \in Seq(S)
  PROVE  /\ s \o t \in Seq(S) /\ Len(s \o t) = Len(s) + Len(t)
         /\ \A i \in 1..Len(s) : (s \o t)[i] = s[i]
         /\ \A i \in 1..(Len(s) + Len(t)) : i > Len(s) => (s \o t)[i] = t[i - Len(s)]
  BY ConcatProperties

-----------------------------------------------------------------------------
\* The list of buffers.

LEMMA LinkedTypes ==
  ASSUME NEW O, Linked(O)
  PROVE  \A i \in 1..Len(O) : O[i] \in 1..MaxBuffers
  BY ElementOfSeq DEF Linked

LEMMA LinkedSize ==
  ASSUME NEW O, Linked(O)
  PROVE  /\ Len(O) \in Nat /\ Buffers <= Len(O) /\ Len(O) <= MaxBuffers
         /\ Elements(O) \subseteq 1..MaxBuffers /\ IsFiniteSet(Elements(O))
<1>1. O \in Seq(1..MaxBuffers) /\ Len(O) \in Nat /\ Buffers <= Len(O)
  BY DEF Linked
<1>2. Elements(O) \subseteq 1..MaxBuffers
  BY LinkedTypes DEF Elements
<1>3. IsFiniteSet(1..MaxBuffers) /\ Cardinality(1..MaxBuffers) = MaxBuffers
  <2>1. 1 <= MaxBuffers /\ MaxBuffers - 1 + 1 = MaxBuffers
    BY ConstantTypes
  <2>2. MaxBuffers \in Int /\ 1 \in Int
    BY ConstantTypes
  <2>. QED
    BY <2>1, <2>2, FS_Interval
<1>4. Cardinality(Elements(O)) <= MaxBuffers /\ IsFiniteSet(Elements(O))
  BY <1>2, <1>3, FS_Subset
<1>. QED
  BY <1>1, <1>2, <1>4 DEF Linked

\* A full list has no place for a new buffer.
LEMMA LinkedRoom ==
  ASSUME NEW O, Linked(O), NEW b \in 1..MaxBuffers, b \notin Elements(O)
  PROVE  /\ Len(O) < MaxBuffers /\ Cardinality(Elements(O) \cup {b}) = Len(O) + 1
<1>1. /\ Len(O) \in Nat /\ Elements(O) \subseteq 1..MaxBuffers /\ IsFiniteSet(Elements(O))
      /\ Cardinality(Elements(O)) = Len(O)
  BY LinkedSize DEF Linked
<1>2. Cardinality(Elements(O) \cup {b}) = Len(O) + 1
  BY <1>1, FS_AddElement
<1>3. IsFiniteSet(1..MaxBuffers) /\ Cardinality(1..MaxBuffers) = MaxBuffers
  <2>1. 1 <= MaxBuffers /\ MaxBuffers - 1 + 1 = MaxBuffers
    BY ConstantTypes
  <2>2. MaxBuffers \in Int /\ 1 \in Int
    BY ConstantTypes
  <2>. QED
    BY <2>1, <2>2, FS_Interval
<1>4. Elements(O) \cup {b} \subseteq 1..MaxBuffers
  BY <1>1
<1>5. Cardinality(Elements(O) \cup {b}) <= MaxBuffers
  BY <1>3, <1>4, FS_Subset
<1>. QED
  BY <1>1, <1>2, <1>5, ConstantTypes

LEMMA PlaceIs ==
  ASSUME Linked(order), NEW i \in 1..Len(order)
  PROVE  /\ Place(order[i]) = i /\ order[i] \in Ring /\ order[i] \in 1..MaxBuffers
         /\ NextOf(order[i]) = IF i = Len(order) THEN None ELSE order[i + 1]
<1>1. order \in Seq(1..MaxBuffers) /\ \A j \in 1..Len(order) : order[j] = order[i] => j = i
  BY DEF Linked
<1>2. Place(order[i]) = i
  BY <1>1 DEF Place
<1>3. order[i] \in Ring /\ order[i] \in 1..MaxBuffers
  BY LinkedTypes DEF Ring
<1>. QED
  BY <1>2, <1>3 DEF NextOf

LEMMA RingPlace ==
  ASSUME Linked(order), NEW b \in Ring
  PROVE  Place(b) \in 1..Len(order) /\ order[Place(b)] = b
<1>1. PICK i \in 1..Len(order) : order[i] = b
  BY DEF Ring
<1>. QED
  BY <1>1, PlaceIs

\* The buffer at position q moves to the end of the list.
Moved(i, q) == IF i < q THEN i ELSE IF i < Len(order) THEN i + 1 ELSE q

LEMMA ToTailIs ==
  ASSUME Linked(order), NEW q \in 1..Len(order), NEW T, T = ToTail(order[q])
  PROVE  /\ Linked(T) /\ Len(T) = Len(order) /\ Elements(T) = Ring
         /\ \A i \in 1..Len(order) : Moved(i, q) \in 1..Len(order) /\ T[i] = order[Moved(i, q)]
<1>. DEFINE n == Len(order)
            A == SubSeq(order, 1, q - 1)
            Z == SubSeq(order, q + 1, n)
<1>1. order \in Seq(1..MaxBuffers) /\ n \in Nat /\ q \in 1..n /\ order[q] \in 1..MaxBuffers
  BY LinkedTypes DEF Linked
<1>2. T = A \o Z \o <<order[q]>>
  BY PlaceIs DEF ToTail
<1>3. A \in Seq(1..MaxBuffers) /\ Len(A) = q - 1 /\ \A i \in 1..(q - 1) : A[i] = order[i]
  <2>1. q - 1 \in 0..n
    BY <1>1
  <2>. QED
    BY <1>1, <2>1, PrefixIs
<1>4. Z \in Seq(1..MaxBuffers) /\ Len(Z) = n - q /\ \A i \in 1..(n - q) : Z[i] = order[q + i]
  <2>1. q \in 0..n
    BY <1>1
  <2>. QED
    BY <1>1, <2>1, SuffixIs
<1>. HIDE DEF A, Z
<1>5. /\ A \o Z \in Seq(1..MaxBuffers) /\ Len(A \o Z) = n - 1
      /\ \A i \in 1..(n - 1) : (A \o Z)[i] = IF i < q THEN order[i] ELSE order[i + 1]
  <2>1. A \o Z \in Seq(1..MaxBuffers) /\ Len(A \o Z) = n - 1
    BY <1>1, <1>3, <1>4
  <2>2. ASSUME NEW i \in 1..(n - 1)
        PROVE  (A \o Z)[i] = IF i < q THEN order[i] ELSE order[i + 1]
    <3>1. CASE i < q
      BY <1>1, <1>3, <1>4, <3>1
    <3>2. CASE ~(i < q)
      <4>1. (A \o Z)[i] = Z[i - (q - 1)] /\ i - (q - 1) \in 1..(n - q) /\ q + (i - (q - 1)) = i + 1
        BY <1>1, <1>3, <1>4, <3>2
      <4>. QED
        BY <1>4, <3>2, <4>1
    <3>. QED
      BY <3>1, <3>2
  <2>. QED
    BY <2>1, <2>2
<1>. DEFINE Y == A \o Z
<1>. HIDE DEF Y
<1>6. /\ T \in Seq(1..MaxBuffers) /\ Len(T) = n
      /\ \A i \in 1..n : T[i] = order[Moved(i, q)] /\ Moved(i, q) \in 1..n
  <2>1. T = Y \o <<order[q]>> /\ Y \in Seq(1..MaxBuffers) /\ Len(Y) = n - 1
    BY <1>2, <1>5 DEF Y
  <2>2. \A i \in 1..(n - 1) : Y[i] = IF i < q THEN order[i] ELSE order[i + 1]
    BY <1>5 DEF Y
  <2>3. T \in Seq(1..MaxBuffers) /\ Len(T) = n /\ T[n] = order[q] /\ \A i \in 1..(n - 1) : T[i] = Y[i]
    BY <1>1, <2>1
  <2>4. ASSUME NEW i \in 1..n
        PROVE  T[i] = order[Moved(i, q)] /\ Moved(i, q) \in 1..n
    <3>1. CASE i = n
      BY <1>1, <2>3, <3>1 DEF Moved
    <3>2. CASE i # n
      <4>1. i \in 1..(n - 1) /\ i < n
        BY <1>1, <3>2
      <4>. QED
        BY <1>1, <2>2, <2>3, <4>1 DEF Moved
    <3>. QED
      BY <3>1, <3>2
  <2>. QED
    BY <2>3, <2>4
<1>7. \A i, j \in 1..n : Moved(i, q) = Moved(j, q) => i = j
  BY <1>1 DEF Moved
<1>8. \A i, j \in 1..n : T[i] = T[j] => i = j
  BY <1>6, <1>7 DEF Linked
<1>9. Elements(T) = Ring
  <2>1. \A j \in 1..n : \E i \in 1..n : Moved(i, q) = j
    <3>1. SUFFICES ASSUME NEW j \in 1..n PROVE \E i \in 1..n : Moved(i, q) = j
      OBVIOUS
    <3>2. CASE j < q
      BY <1>1, <3>2 DEF Moved
    <3>3. CASE j = q
      <4>1. n \in 1..n /\ Moved(n, q) = q
        BY <1>1 DEF Moved
      <4>. QED
        BY <3>3, <4>1
    <3>4. CASE j > q
      <4>1. j - 1 \in 1..n /\ Moved(j - 1, q) = j
        BY <1>1, <3>4 DEF Moved
      <4>. QED
        BY <4>1
    <3>. QED
      BY <1>1, <3>2, <3>3, <3>4
  <2>2. Elements(T) \subseteq Ring
    BY <1>6 DEF Elements, Ring
  <2>3. ASSUME NEW b \in Ring PROVE b \in Elements(T)
    <3>1. PICK j \in 1..n : b = order[j]
      BY DEF Ring
    <3>2. PICK i \in 1..n : Moved(i, q) = j
      BY <2>1
    <3>. QED
      BY <1>6, <3>1, <3>2 DEF Elements
  <2>. QED
    BY <2>2, <2>3
<1>10. Cardinality(Ring) = n /\ Buffers <= n
  BY DEF Linked, Elements, Ring
<1>11. Linked(T)
  BY <1>6, <1>8, <1>9, <1>10 DEF Linked
<1>. QED
  BY <1>6, <1>9, <1>11

\* A new buffer b comes behind the one at position q.
\* Buffer b comes behind position q.
Inserted(q, b) == SubSeq(order, 1, q) \o <<b>> \o SubSeq(order, q + 1, Len(order))

LEMMA EnlargedIs ==
  ASSUME Linked(order), NEW q \in 1..Len(order), NEW b \in 1..MaxBuffers, b \notin Ring,
         NEW T, T = Inserted(q, b)
  PROVE  /\ Linked(T) /\ Len(T) = Len(order) + 1 /\ Elements(T) = Ring \cup {b}
         /\ T[q + 1] = b
         /\ \A i \in 1..Len(T) : i # q + 1 =>
              LET j == IF i <= q THEN i ELSE i - 1 IN j \in 1..Len(order) /\ T[i] = order[j]
<1>. DEFINE n == Len(order)
            A == SubSeq(order, 1, q)
            Z == SubSeq(order, q + 1, n)
            Old(i) == IF i <= q THEN i ELSE i - 1
<1>1. order \in Seq(1..MaxBuffers) /\ n \in Nat /\ q \in 1..n
  BY DEF Linked
<1>3. A \in Seq(1..MaxBuffers) /\ Len(A) = q /\ \A i \in 1..q : A[i] = order[i]
  <2>1. q \in 0..n
    BY <1>1
  <2>. QED
    BY <1>1, <2>1, PrefixIs
<1>4. Z \in Seq(1..MaxBuffers) /\ Len(Z) = n - q /\ \A i \in 1..(n - q) : Z[i] = order[q + i]
  <2>1. q \in 0..n
    BY <1>1
  <2>. QED
    BY <1>1, <2>1, SuffixIs
<1>2. T = A \o <<b>> \o Z
  BY DEF Inserted
<1>. HIDE DEF A, Z
<1>. DEFINE Y == A \o <<b>>
<1>5. /\ Y \in Seq(1..MaxBuffers) /\ Len(Y) = q + 1 /\ Y[q + 1] = b
      /\ \A i \in 1..q : Y[i] = order[i]
  BY <1>1, <1>3
<1>6. T = Y \o Z
  BY <1>2
<1>. HIDE DEF Y
<1>16. /\ T \in Seq(1..MaxBuffers) /\ Len(T) = (q + 1) + (n - q)
       /\ \A i \in 1..(q + 1) : T[i] = Y[i]
       /\ \A i \in 1..((q + 1) + (n - q)) : i > q + 1 => T[i] = Z[i - (q + 1)]
  <2>1. Y \in Seq(1..MaxBuffers) /\ Z \in Seq(1..MaxBuffers)
    BY <1>4, <1>5
  <2>2. /\ Y \o Z \in Seq(1..MaxBuffers) /\ Len(Y \o Z) = Len(Y) + Len(Z)
        /\ \A i \in 1..Len(Y) : (Y \o Z)[i] = Y[i]
        /\ \A i \in 1..(Len(Y) + Len(Z)) : i > Len(Y) => (Y \o Z)[i] = Z[i - Len(Y)]
    BY <2>1, ConcatIs
  <2>3. Len(Y) = q + 1 /\ Len(Z) = n - q
    BY <1>4, <1>5
  <2>. QED
    BY <1>6, <2>2, <2>3
<1>17. (q + 1) + (n - q) = n + 1
  BY <1>1
<1>7. T \in Seq(1..MaxBuffers) /\ Len(T) = n + 1
  BY <1>16, <1>17
<1>8. /\ \A i \in 1..(q + 1) : T[i] = Y[i]
      /\ \A i \in (q + 2)..(n + 1) : T[i] = Z[i - (q + 1)]
  <2>1. \A i \in (q + 2)..(n + 1) : i \in 1..(n + 1) /\ i > q + 1
    BY <1>1
  <2>. QED
    BY <1>16, <1>17, <2>1
<1>9. ASSUME NEW i \in 1..(n + 1), i # q + 1
      PROVE  Old(i) \in 1..n /\ T[i] = order[Old(i)]
  <2>1. CASE i <= q
    <3>1. i \in 1..q /\ i \in 1..(q + 1)
      BY <1>1, <2>1
    <3>. QED
      BY <1>1, <1>5, <1>8, <2>1, <3>1
  <2>2. CASE ~(i <= q)
    <3>1. i \in (q + 2)..(n + 1) /\ i - (q + 1) \in 1..(n - q) /\ q + (i - (q + 1)) = i - 1
      BY <1>1, <1>9, <2>2
    <3>2. T[i] = order[i - 1]
      BY <1>4, <1>8, <3>1
    <3>. QED
      BY <1>1, <2>2, <3>1, <3>2
  <2>. QED
    BY <2>1, <2>2
<1>10. T[q + 1] = b /\ q + 1 \in 1..(n + 1)
  BY <1>1, <1>5, <1>8
<1>11. \A i, j \in 1..(n + 1) : T[i] = T[j] => i = j
  <2>1. SUFFICES ASSUME NEW i \in 1..(n + 1), NEW j \in 1..(n + 1), T[i] = T[j] PROVE i = j
    OBVIOUS
  <2>2. CASE i # q + 1 /\ j # q + 1
    <3>1. order[Old(i)] = order[Old(j)] /\ Old(i) \in 1..n /\ Old(j) \in 1..n
      BY <1>9, <2>1, <2>2
    <3>2. Old(i) = Old(j)
      BY <3>1 DEF Linked
    <3>. QED
      BY <1>1, <2>2, <3>2
  <2>3. \A l \in 1..(n + 1) : l # q + 1 => T[l] # b
    BY <1>9 DEF Ring
  <2>. QED
    BY <1>10, <2>1, <2>2, <2>3
<1>12. Elements(T) = Ring \cup {b}
  <2>1. \A j \in 1..n : \E i \in 1..(n + 1) : i # q + 1 /\ Old(i) = j
    <3>1. SUFFICES ASSUME NEW j \in 1..n PROVE \E i \in 1..(n + 1) : i # q + 1 /\ Old(i) = j
      OBVIOUS
    <3>2. CASE j <= q
      <4>1. j \in 1..(n + 1) /\ j # q + 1 /\ Old(j) = j
        BY <1>1, <3>2
      <4>. QED
        BY <4>1
    <3>3. CASE j > q
      <4>1. j + 1 \in 1..(n + 1) /\ j + 1 # q + 1 /\ Old(j + 1) = j
        BY <1>1, <3>3
      <4>. QED
        BY <4>1
    <3>. QED
      BY <1>1, <3>2, <3>3
  <2>2. Elements(T) \subseteq Ring \cup {b}
    BY <1>7, <1>9, <1>10 DEF Elements, Ring
  <2>3. ASSUME NEW x \in Ring PROVE x \in Elements(T)
    <3>1. PICK j \in 1..n : x = order[j]
      BY DEF Ring
    <3>2. PICK i \in 1..(n + 1) : i # q + 1 /\ Old(i) = j
      BY <2>1
    <3>3. T[i] = order[j]
      BY <1>9, <3>2
    <3>. QED
      BY <1>7, <3>1, <3>2, <3>3 DEF Elements
  <2>4. b \in Elements(T)
    BY <1>7, <1>10 DEF Elements
  <2>. QED
    BY <2>2, <2>3, <2>4
<1>13. Ring = Elements(order)
  BY DEF Ring, Elements
<1>14. Cardinality(Ring \cup {b}) = n + 1 /\ Buffers <= n + 1
  BY <1>1, <1>13, LinkedRoom, LinkedSize, ConstantTypes
<1>15. Linked(T)
  BY <1>7, <1>11, <1>12, <1>14 DEF Linked
<1>. QED
  BY <1>7, <1>9, <1>10, <1>12, <1>15
-----------------------------------------------------------------------------
\* The memory.

Content == [seq : SeqNumbers, packet : Packet] \cup {None}

LEMMA FewStreams == Streams + 1 < Buffers
  BY ConstantTypes

\* The buffers that have been handed out are empty, and the next one is behind them.
LEMMA HandedIs ==
  ASSUME NEW O, NEW B, NEW H, NEW f, Linked(O), Handed(O, B, H, f)
  PROVE  /\ Cardinality(H) \in Nat /\ Cardinality(H) + 1 \in 1..Len(O)
         /\ Cardinality(H) + 2 \in 1..Len(O)
         /\ f = O[Cardinality(H) + 1] /\ f \in 1..MaxBuffers /\ f \in Elements(O) /\ f \notin H
         /\ H \subseteq Elements(O)
         /\ \A i \in 1..Len(O) : B[O[i]] # None => i > Cardinality(H)
<1>. DEFINE h == Cardinality(H)
<1>1. IsFiniteSet(H) /\ h <= Streams /\ H = {O[i] : i \in 1..h} /\ f = O[h + 1]
  BY DEF Handed
<1>2. h \in Nat
  BY <1>1, FS_CardinalityType
<1>3. Len(O) \in Nat /\ Buffers <= Len(O)
  BY LinkedSize
<1>. HIDE DEF h
<1>4. h + 1 \in 1..Len(O) /\ h + 2 \in 1..Len(O)
  BY <1>1, <1>2, <1>3, FewStreams, ConstantTypes
<1>5. f \in 1..MaxBuffers /\ f \in Elements(O)
  BY <1>1, <1>4, LinkedTypes DEF Elements
<1>6. \A i \in 1..h : i \in 1..Len(O) /\ i # h + 1
  BY <1>2, <1>4
<1>7. f \notin H
  BY <1>1, <1>4, <1>6 DEF Linked
<1>8. H \subseteq Elements(O)
  BY <1>1, <1>6 DEF Elements
<1>9. ASSUME NEW i \in 1..Len(O), B[O[i]] # None
      PROVE  i > h
  <2>1. SUFFICES ASSUME ~(i > h) PROVE FALSE
    OBVIOUS
  <2>2. i \in 1..h
    BY <1>2, <2>1
  <2>3. O[i] \in H
    BY <1>1, <2>2
  <2>. QED
    BY <1>9, <2>3 DEF Handed
<1>. QED
  BY <1>1, <1>2, <1>4, <1>5, <1>7, <1>8, <1>9 DEF h

\* What is known of a packet in memory.
LEMMA RecentIs ==
  ASSUME NEW F, NEW B, NEW O, NEW n \in Nat, Linked(O), Recent(F, B, O, n), NEW b, B[b] # None,
         b \in 1..MaxBuffers \/ b \in Elements(O)
  PROVE  \E i \in 1..Len(O) :
           /\ b = O[i] /\ \A j \in i..Len(O) : B[O[j]] # None
           /\ B[b].packet.number = n - 1 - (Len(O) - i)
           /\ B[b].seq = B[b].packet.number % Mod /\ Holds(F, B[b].packet)
           /\ B[b].packet.number < n /\ n - MaxBuffers <= B[b].packet.number
<1>1. b \in Elements(O)
  BY DEF Recent
<1>2. PICK i \in 1..Len(O) : b = O[i]
  BY <1>1 DEF Elements
<1>3. /\ \A j \in i..Len(O) : B[O[j]] # None
      /\ B[b].packet.number = n - 1 - (Len(O) - i)
      /\ B[b].seq = B[b].packet.number % Mod /\ Holds(F, B[b].packet)
  BY <1>2 DEF Recent
<1>4. B[b].packet.number < n /\ n - MaxBuffers <= B[b].packet.number
  BY <1>3, LinkedSize, ConstantTypes
<1>. QED
  BY <1>2, <1>3, <1>4

\* get_buffer() takes the oldest packet, if there is one, out of memory.
LEMMA TakenRecent ==
  ASSUME NEW F, NEW B \in [1..MaxBuffers -> Content], NEW O, NEW n \in Nat, NEW H, NEW f, NEW C,
         Linked(O), Recent(F, B, O, n), Handed(O, B, H, f), C = [B EXCEPT ![f] = None]
  PROVE  Recent(F, C, O, n)
<1>1. PICK h \in Nat :
        /\ h + 1 \in 1..Len(O) /\ f = O[h + 1] /\ f \in 1..MaxBuffers
        /\ f \in Elements(O) /\ \A i \in 1..Len(O) : B[O[i]] # None => i > h
  <2>1. /\ Cardinality(H) \in Nat /\ Cardinality(H) + 1 \in 1..Len(O)
        /\ f = O[Cardinality(H) + 1] /\ f \in 1..MaxBuffers /\ f \in Elements(O)
    BY HandedIs
  <2>2. \A i \in 1..Len(O) : B[O[i]] # None => i > Cardinality(H)
    BY HandedIs
  <2>. QED
    BY <2>1, <2>2
<1>2. C[f] = None /\ \A b \in 1..MaxBuffers : b # f => C[b] = B[b]
  BY <1>1
<1>3. \A i \in 1..Len(O) : O[i] \in 1..MaxBuffers
  BY LinkedTypes
<1>4. \A i \in 1..Len(O) : i # h + 1 => O[i] # f
  BY <1>1 DEF Linked
<1>5. ASSUME NEW i \in 1..Len(O), C[O[i]] # None
      PROVE  /\ \A j \in i..Len(O) : C[O[j]] # None
             /\ C[O[i]] = B[O[i]] /\ B[O[i]] # None
  <2>1. O[i] # f /\ C[O[i]] = B[O[i]] /\ B[O[i]] # None
    BY <1>2, <1>3, <1>5
  <2>2. i > h + 1
    BY <1>1, <2>1
  <2>3. ASSUME NEW j \in i..Len(O)
        PROVE  C[O[j]] # None
    <3>1. j \in 1..Len(O) /\ j # h + 1
      BY <1>1, <2>2, <2>3
    <3>2. B[O[j]] # None
      BY <2>1, <2>3 DEF Recent
    <3>. QED
      BY <1>2, <1>3, <1>4, <3>1, <3>2
  <2>. QED
    BY <2>1, <2>3
<1>6. \A b \in 1..MaxBuffers : b \notin Elements(O) => C[b] = None
  BY <1>1, <1>2 DEF Recent
<1>. QED
  BY <1>5, <1>6 DEF Recent

LEMMA TakenHanded ==
  ASSUME NEW B \in [1..MaxBuffers -> Content], NEW O, NEW H, NEW f, NEW C,
         Linked(O), Handed(O, B, H, f), C = [B EXCEPT ![f] = None],
         Cardinality(H) < Streams
  PROVE  Handed(O, C, H \cup {f}, O[Cardinality(H) + 2])
<1>. DEFINE h == Cardinality(H)
            K == H \cup {f}
<1>1. /\ h \in Nat /\ h + 1 \in 1..Len(O) /\ f = O[h + 1] /\ f \in 1..MaxBuffers /\ f \notin H
      /\ H \subseteq Elements(O)
  BY HandedIs
<1>2. IsFiniteSet(H) /\ H = {O[i] : i \in 1..h} /\ \A b \in H : B[b] = None
  BY DEF Handed
<1>3. IsFiniteSet(K) /\ Cardinality(K) = h + 1
  BY <1>1, <1>2, FS_AddElement
<1>. HIDE DEF h
<1>4. K = {O[i] : i \in 1..(h + 1)}
  <2>1. \A i : i \in 1..(h + 1) <=> i \in 1..h \/ i = h + 1
    BY <1>1
  <2>. QED
    BY <1>1, <1>2, <2>1
<1>5. \A b \in K : C[b] = None
  <2>1. \A b \in K : b \in 1..MaxBuffers
    BY <1>1, LinkedSize
  <2>. QED
    BY <1>1, <1>2, <2>1
<1>6. h + 1 <= Streams /\ (h + 1) + 1 = h + 2
  BY <1>1, ConstantTypes DEF h
<1>. HIDE DEF K
<1>7. Handed(O, C, K, O[h + 2])
  BY <1>3, <1>4, <1>5, <1>6 DEF Handed
<1>. QED
  BY <1>7 DEF h, K

LEMMA TakenLeading ==
  ASSUME NEW F, NEW B \in [1..MaxBuffers -> Content], NEW O, NEW n \in Nat, NEW H, NEW f, NEW C,
         NEW g, Linked(O), Recent(F, B, O, n), Handed(O, B, H, f), C = [B EXCEPT ![f] = None],
         Leading(O, B, g)
  PROVE  Leading(O, C, IF g = f THEN O[Cardinality(H) + 2] ELSE g)
<1>. DEFINE h == Cardinality(H)
<1>1. /\ h \in Nat /\ h + 1 \in 1..Len(O) /\ h + 2 \in 1..Len(O) /\ f = O[h + 1]
      /\ f \in 1..MaxBuffers
  BY HandedIs
<1>. HIDE DEF h
<1>2. C[f] = None /\ \A b \in 1..MaxBuffers : b # f => C[b] = B[b]
  BY <1>1
<1>3. \A i \in 1..Len(O) : O[i] \in 1..MaxBuffers
  BY LinkedTypes
<1>4. None \notin 1..MaxBuffers
  BY ConstantTypes
<1>5. CASE g = f
  <2>1. B[O[h + 1]] # None
    BY <1>1, <1>4, <1>5 DEF Leading
  <2>2. h + 2 \in (h + 1)..Len(O)
    BY <1>1
  <2>3. B[O[h + 2]] # None
    BY <1>1, <2>1, <2>2 DEF Recent
  <2>4. O[h + 2] # f
    BY <1>1 DEF Linked
  <2>5. C[O[h + 2]] # None /\ O[h + 2] \in Elements(O) /\ O[h + 2] # None
    BY <1>1, <1>2, <1>3, <1>4, <2>3, <2>4 DEF Elements
  <2>6. Leading(O, C, O[h + 2])
    BY <1>1, <2>5 DEF Leading
  <2>. QED
    BY <1>5, <2>6 DEF h
<1>6. CASE g # f
  <2>1. Leading(O, C, g)
    <3>1. CASE g = None
      BY <1>2, <1>3, <3>1 DEF Leading
    <3>2. CASE g # None
      <4>1. g \in Elements(O) /\ B[g] # None
        BY <3>2 DEF Leading
      <4>2. g \in 1..MaxBuffers
        BY <4>1, LinkedSize
      <4>3. C[g] # None
        BY <1>2, <1>6, <4>1, <4>2
      <4>4. \E i \in 1..Len(O) : C[O[i]] # None
        BY <4>1, <4>3 DEF Elements
      <4>. QED
        BY <3>2, <4>1, <4>3, <4>4 DEF Leading
    <3>. QED
      BY <3>1, <3>2
  <2>. QED
    BY <1>6, <2>1
<1>. QED
  BY <1>5, <1>6
\* A packet is stored in the buffer at position q, all packets in memory being behind it.
WithPacket(B, b, s, p) == [B EXCEPT ![b] = [seq |-> s, packet |-> p]]

LEMMA StoredContent ==
  ASSUME NEW p \in Packet, NEW q \in 1..Len(order), Linked(order),
         buffer \in [1..MaxBuffers -> Content], seq \in SeqNumbers, NEW C,
         C = WithPacket(buffer, order[q], seq, p)
  PROVE  /\ C[order[q]] # None /\ C[order[q]].seq = seq /\ C[order[q]].packet = p
         /\ \A b \in 1..MaxBuffers : b # order[q] => C[b] = buffer[b]
         /\ C \in [1..MaxBuffers -> Content]
<1>. DEFINE r == [seq |-> seq, packet |-> p]
<1>1. order[q] \in 1..MaxBuffers
  BY LinkedTypes
<1>2. r \in [seq : SeqNumbers, packet : Packet] /\ r.seq = seq /\ r.packet = p
  OBVIOUS
<1>3. r # None /\ r \in Content
  BY <1>2, NoneAssumption DEF NoneAssumption, Content
<1>4. C = [buffer EXCEPT ![order[q]] = r]
  BY DEF WithPacket
<1>. HIDE DEF r, Content
<1>5. C[order[q]] = r /\ \A b \in 1..MaxBuffers : b # order[q] => C[b] = buffer[b]
  BY <1>1, <1>4
<1>6. C \in [1..MaxBuffers -> Content]
  BY <1>1, <1>3, <1>4
<1>. QED
  BY <1>2, <1>3, <1>5, <1>6

LEMMA StoredRecent ==
  ASSUME Chain(files), Behind(files) = seqLong, seqLong \in Nat, seqLong >= Start,
         seq = seqLong % Mod, Linked(order), buffer \in [1..MaxBuffers -> Content],
         Recent(files, buffer, order, seqLong), MaxBuffers <= Base(Segments),
         NEW p \in Packet, p.number = seqLong, NEW q \in 1..Len(order),
         \A i \in 1..Len(order) : i # q /\ buffer[order[i]] # None => i > q,
         NEW G, G = WithLast(Rolled, Append(Rolled[Len(Rolled)].packets, p)),
         NEW T, T = ToTail(order[q]), NEW C,
         C = WithPacket(buffer, order[q], seq, p)
  PROVE  Recent(G, C, T, seqLong + 1)
<1>. DEFINE n == Len(order)
<1>1. /\ Holds(G, p) /\ G[1].name \in Nat
      /\ files # <<>> => files[1].name <= G[1].name
      /\ \A r : Holds(files, r) /\ r.number >= G[1].name => Holds(G, r)
      /\ \A i \in 1..Len(files) : files[i].name < G[1].name =>
           G[1].name + Base(Segments) = seqLong
  BY WrittenIs
<1>2. /\ Linked(T) /\ Len(T) = n /\ Elements(T) = Ring
      /\ \A i \in 1..n : Moved(i, q) \in 1..n /\ T[i] = order[Moved(i, q)]
  BY ToTailIs
<1>3. /\ C[order[q]] # None /\ C[order[q]].seq = seq /\ C[order[q]].packet = p
      /\ \A b \in 1..MaxBuffers : b # order[q] => C[b] = buffer[b]
  <2>1. seqLong \in Int /\ seqLong % Mod \in SeqNumbers
    BY ModRange
  <2>2. seq \in SeqNumbers
    BY <2>1
  <2>. QED
    BY <2>2, StoredContent
<1>4. n \in Nat /\ n <= MaxBuffers /\ q \in 1..n /\ Ring = Elements(order)
  BY LinkedSize DEF Ring, Elements
<1>5. \A i, j \in 1..n : order[i] = order[j] => i = j
  BY DEF Linked
<1>6. \A i \in 1..n : order[i] \in 1..MaxBuffers
  BY LinkedTypes
<1>7. T[n] = order[q]
  <2>1. Moved(n, q) = q
    BY <1>4 DEF Moved
  <2>. QED
    BY <1>2, <1>4, <2>1
<1>8. ASSUME NEW i \in 1..n, i # n, C[T[i]] # None
      PROVE  /\ i >= q /\ T[i] = order[i + 1] /\ C[T[i]] = buffer[order[i + 1]]
             /\ buffer[order[i + 1]] # None /\ i + 1 \in 1..n
  <2>1. i + 1 \in 1..n
    BY <1>4, <1>8
  <2>2. CASE i < q
    <3>1. T[i] = order[i]
      BY <1>2, <2>2 DEF Moved
    <3>2. order[i] # order[q]
      BY <1>4, <1>5, <2>2
    <3>3. C[order[i]] = buffer[order[i]]
      BY <1>3, <1>6, <3>2
    <3>4. buffer[order[i]] # None
      BY <1>8, <3>1, <3>3
    <3>. QED
      BY <1>4, <2>2, <3>4
  <2>3. CASE i >= q
    <3>1. T[i] = order[i + 1]
      <4>1. Moved(i, q) = i + 1
        BY <1>4, <1>8, <2>3 DEF Moved
      <4>. QED
        BY <1>2, <4>1
    <3>2. order[i + 1] # order[q]
      BY <1>4, <1>5, <2>1, <2>3
    <3>3. C[order[i + 1]] = buffer[order[i + 1]]
      BY <1>3, <1>6, <2>1, <3>2
    <3>. QED
      BY <1>8, <2>1, <2>3, <3>1, <3>3
  <2>. QED
    BY <1>4, <2>2, <2>3
<1>9. ASSUME NEW i \in 1..n, C[T[i]] # None
      PROVE  /\ \A j \in i..n : C[T[j]] # None
             /\ C[T[i]].packet.number = (seqLong + 1) - 1 - (n - i)
             /\ C[T[i]].seq = C[T[i]].packet.number % Mod
             /\ Holds(G, C[T[i]].packet)
  <2>1. CASE i = n
    <3>1. \A j \in i..n : j = n
      BY <1>4, <2>1
    <3>2. (seqLong + 1) - 1 - (n - n) = seqLong
      BY <1>4
    <3>. QED
      BY <1>1, <1>3, <1>7, <2>1, <3>1, <3>2
  <2>2. CASE i # n
    <3>1. /\ i >= q /\ T[i] = order[i + 1] /\ C[T[i]] = buffer[order[i + 1]]
          /\ buffer[order[i + 1]] # None /\ i + 1 \in 1..n
      BY <1>8, <1>9, <2>2
    <3>2. /\ \A j \in (i + 1)..n : buffer[order[j]] # None
          /\ buffer[order[i + 1]].packet.number = seqLong - 1 - (n - (i + 1))
          /\ buffer[order[i + 1]].seq = buffer[order[i + 1]].packet.number % Mod
          /\ Holds(files, buffer[order[i + 1]].packet)
      BY <3>1 DEF Recent
    <3>3. ASSUME NEW j \in i..n
          PROVE  C[T[j]] # None
      <4>1. CASE j = n
        BY <1>3, <1>7, <4>1
      <4>2. CASE j # n
        <5>1. j \in 1..n /\ j < n /\ j >= q /\ j + 1 \in (i + 1)..n /\ j + 1 \in 1..n
          BY <1>4, <3>1, <4>2
        <5>2. Moved(j, q) = j + 1
          BY <1>4, <5>1 DEF Moved
        <5>3. T[j] = order[j + 1] /\ buffer[order[j + 1]] # None
          BY <1>2, <3>2, <5>1, <5>2
        <5>4. order[j + 1] # order[q]
          BY <1>4, <1>5, <5>1
        <5>. QED
          BY <1>3, <1>6, <5>1, <5>3, <5>4
      <4>. QED
        BY <4>1, <4>2
    <3>4. buffer[order[i + 1]].packet.number = (seqLong + 1) - 1 - (n - i)
      BY <1>4, <3>2
    <3>5. Holds(G, buffer[order[i + 1]].packet)
      <4>. DEFINE r == buffer[order[i + 1]].packet
      <4>1. /\ files # <<>> /\ r.number \in Nat /\ files[1].name <= r.number
            /\ r.number = seqLong - (n - i)
        BY <1>4, <3>2, <3>4, HeldNumber
      <4>. HIDE DEF r
      <4>2. 1 \in 1..Len(files) /\ files[1].name \in Nat
        <5>1. files \in Seq(File) /\ Len(files) # 0
          BY <4>1 DEF Chain
        <5>2. 1 \in 1..Len(files)
          BY <5>1
        <5>. QED
          BY <5>2, ChainRange
      <4>3. r.number >= G[1].name
        <5>1. CASE files[1].name < G[1].name
          <6>1. G[1].name + Base(Segments) = seqLong
            BY <1>1, <4>2, <5>1
          <6>2. Base(Segments) \in Nat
            BY BaseStep, ConstantTypes
          <6>. QED
            BY <1>1, <1>4, <3>1, <4>1, <6>1, <6>2, ConstantTypes
        <5>2. CASE ~(files[1].name < G[1].name)
          BY <1>1, <4>1, <4>2, <5>2
        <5>. QED
          BY <5>1, <5>2
      <4>4. Holds(files, r)
        BY <3>2 DEF r
      <4>5. Holds(G, r)
        BY <1>1, <4>3, <4>4
      <4>. QED
        BY <4>5 DEF r
    <3>. QED
      BY <3>1, <3>2, <3>3, <3>4, <3>5
  <2>. QED
    BY <2>1, <2>2
<1>10. ASSUME NEW b \in 1..MaxBuffers, b \notin Elements(T)
       PROVE  C[b] = None
  <2>1. b \notin Elements(order) /\ b # order[q]
    BY <1>2, <1>4, <1>10 DEF Elements
  <2>2. buffer[b] = None
    BY <2>1 DEF Recent
  <2>. QED
    BY <1>3, <2>1, <2>2
<1>. QED
  BY <1>2, <1>9, <1>10 DEF Recent
LEMMA StoredLeading ==
  ASSUME NEW p \in Packet, NEW q \in 1..Len(order), Linked(order),
         buffer \in [1..MaxBuffers -> Content], seq \in SeqNumbers,
         Leading(order, buffer, first), NEW T, T = ToTail(order[q]), NEW C,
         C = WithPacket(buffer, order[q], seq, p)
  PROVE  Leading(T, C, IF first = None THEN order[q] ELSE first)
<1>. DEFINE b == order[q]
            g == IF first = None THEN b ELSE first
<1>1. /\ C[b] # None /\ \A a \in 1..MaxBuffers : a # b => C[a] = buffer[a]
  BY StoredContent
<1>2. Elements(T) = Elements(order)
  <2>1. Elements(T) = Ring
    BY ToTailIs
  <2>. QED
    BY <2>1 DEF Ring, Elements
<1>3. b \in Elements(order) /\ b \in 1..MaxBuffers /\ b # None
  BY LinkedTypes, ConstantTypes DEF Elements
<1>4. g # None /\ g \in Elements(order) /\ C[g] # None
  <2>1. CASE first = None
    BY <1>1, <1>3, <2>1
  <2>2. CASE first # None
    <3>1. first \in Elements(order) /\ buffer[first] # None
      BY <2>2 DEF Leading
    <3>2. first \in 1..MaxBuffers
      BY <3>1, LinkedSize
    <3>. QED
      BY <1>1, <2>2, <3>1, <3>2
  <2>. QED
    BY <2>1, <2>2
<1>5. \E i \in 1..Len(T) : C[T[i]] # None
  BY <1>2, <1>4 DEF Elements
<1>. HIDE DEF g, b
<1>6. Leading(T, C, g)
  BY <1>2, <1>4, <1>5 DEF Leading
<1>. QED
  BY <1>6 DEF g, b

\* A buffer that was handed out comes back with a packet.
LEMMA StoredHanded ==
  ASSUME NEW p \in Packet, NEW b \in held, Linked(order),
         buffer \in [1..MaxBuffers -> Content], seq \in SeqNumbers,
         Handed(order, buffer, held, free), NEW T, T = ToTail(b), NEW C,
         C = WithPacket(buffer, b, seq, p)
  PROVE  /\ Handed(T, C, held \ {b}, free)
         /\ \E q \in 1..Len(order) : /\ b = order[q]
                                     /\ \A i \in 1..Len(order) : buffer[order[i]] # None => i > q
<1>1. PICK h \in Nat : /\ h = Cardinality(held) /\ h + 1 \in 1..Len(order)
                       /\ held \subseteq Elements(order) /\ free = order[h + 1]
                       /\ \A i \in 1..Len(order) : buffer[order[i]] # None => i > h
  <2>1. \A i \in 1..Len(order) : buffer[order[i]] # None => i > Cardinality(held)
    BY HandedIs
  <2>2. /\ Cardinality(held) \in Nat /\ Cardinality(held) + 1 \in 1..Len(order)
        /\ held \subseteq Elements(order) /\ free = order[Cardinality(held) + 1]
    BY HandedIs
  <2>. QED
    BY <2>1, <2>2
<1>2. \A i \in 1..Len(order) : buffer[order[i]] # None => i > h
  BY <1>1
<1>3. IsFiniteSet(held) /\ h <= Streams /\ held = {order[i] : i \in 1..h}
      /\ \A a \in held : buffer[a] = None
  BY <1>1 DEF Handed
<1>4. PICK q \in 1..h : b = order[q]
  BY <1>3
<1>5. q \in 1..Len(order) /\ Len(order) \in Nat
  BY <1>1, <1>4, LinkedSize
<1>6. /\ Len(T) = Len(order)
      /\ \A i \in 1..Len(order) : Moved(i, q) \in 1..Len(order) /\ T[i] = order[Moved(i, q)]
  BY <1>4, <1>5, ToTailIs
<1>7. \A a \in 1..MaxBuffers : a # b => C[a] = buffer[a]
  BY <1>4, <1>5, StoredContent
<1>8. IsFiniteSet(held \ {b}) /\ Cardinality(held \ {b}) = h - 1
  BY <1>1, <1>3, FS_RemoveElement
<1>9. T[h] = free
  <2>1. Moved(h, q) = h + 1 /\ h \in 1..Len(order)
    BY <1>1, <1>4, <1>5 DEF Moved
  <2>. QED
    BY <1>1, <1>6, <2>1
<1>10. \A i, j \in 1..Len(order) : order[i] = order[j] => i = j
  BY DEF Linked
<1>11. held \ {b} = {T[i] : i \in 1..(h - 1)}
  <2>1. ASSUME NEW a \in held \ {b}
        PROVE  \E i \in 1..(h - 1) : a = T[i]
    <3>1. PICK j \in 1..h : a = order[j]
      BY <1>3
    <3>2. j # q
      BY <1>4, <3>1
    <3>3. CASE j < q
      <4>1. j \in 1..(h - 1) /\ j \in 1..Len(order) /\ Moved(j, q) = j
        BY <1>1, <1>4, <1>5, <3>3 DEF Moved
      <4>. QED
        BY <1>6, <3>1, <4>1
    <3>4. CASE j > q
      <4>1. j - 1 \in 1..(h - 1) /\ j - 1 \in 1..Len(order) /\ Moved(j - 1, q) = j
        BY <1>1, <1>4, <1>5, <3>4 DEF Moved
      <4>. QED
        BY <1>6, <3>1, <4>1
    <3>. QED
      BY <1>4, <3>2, <3>3, <3>4
  <2>2. ASSUME NEW i \in 1..(h - 1)
        PROVE  T[i] \in held \ {b}
    <3>1. i \in 1..Len(order) /\ Moved(i, q) \in 1..h /\ Moved(i, q) # q
      BY <1>1, <1>4, <1>5 DEF Moved
    <3>2. T[i] = order[Moved(i, q)] /\ Moved(i, q) \in 1..Len(order)
      BY <1>6, <3>1
    <3>3. T[i] # order[q]
      BY <1>5, <1>10, <3>1, <3>2
    <3>. QED
      BY <1>3, <1>4, <3>1, <3>2, <3>3
  <2>. QED
    BY <2>1, <2>2
<1>12. \A a \in held \ {b} : C[a] = None
  <2>1. \A a \in held : a \in 1..MaxBuffers
    BY <1>1, LinkedSize
  <2>. QED
    BY <1>3, <1>7, <2>1
<1>13. h - 1 <= Streams /\ (h - 1) + 1 = h
  BY <1>3, ConstantTypes
<1>14. Handed(T, C, held \ {b}, free)
  BY <1>8, <1>9, <1>11, <1>12, <1>13 DEF Handed
<1>15. \A i \in 1..Len(order) : buffer[order[i]] # None => i > q
  BY <1>2, <1>4
<1>. QED
  BY <1>4, <1>5, <1>14, <1>15

\* A blank packet is stored in the next buffer.
LEMMA BlankHanded ==
  ASSUME Linked(order), held = {}, Handed(order, buffer, held, free), NEW C,
         NEW T, T = ToTail(free)
  PROVE  /\ free = order[1] /\ 1 \in 1..Len(order) /\ Handed(T, C, held, NextOf(free))
<1>1. Cardinality(held) = 0 /\ IsFiniteSet(held)
  BY FS_EmptySet
<1>2. free = order[1] /\ 1 \in 1..Len(order) /\ 2 \in 1..Len(order)
  BY <1>1, HandedIs
<1>3. Len(order) \in Nat
  BY LinkedSize
<1>4. NextOf(free) = order[2]
  BY <1>2, <1>3, PlaceIs
<1>5. T[1] = order[Moved(1, 1)]
  BY <1>2, ToTailIs
<1>6. Moved(1, 1) = 2
  BY <1>2, <1>3 DEF Moved
<1>7. held = {T[i] : i \in 1..0} /\ 0 <= Streams /\ 0 + 1 = 1
  <2>1. 1..0 = {}
    OBVIOUS
  <2>. QED
    BY <2>1, ConstantTypes
<1>8. \A b \in held : C[b] = None
  OBVIOUS
<1>9. T[1] = NextOf(free)
  BY <1>4, <1>5, <1>6
<1>10. Handed(T, C, held, NextOf(free))
  BY <1>1, <1>7, <1>8, <1>9 DEF Handed
<1>. QED
  BY <1>2, <1>10

\* enlarge() puts an empty buffer behind the next one, which is empty too.
LEMMA EnlargedMemory ==
  ASSUME NEW n \in Nat, Linked(order), Recent(files, buffer, order, n),
         Handed(order, buffer, held, free), Leading(order, buffer, first),
         buffer[free] = None, NEW b \in 1..MaxBuffers, b \notin Ring, NEW T,
         T = Inserted(Place(free), b)
  PROVE  /\ Linked(T) /\ Elements(T) = Ring \cup {b} /\ Recent(files, buffer, T, n)
         /\ Handed(T, buffer, held, free) /\ Leading(T, buffer, first)
<1>0. PICK m \in Nat : m = Len(order)
  BY LinkedSize
<1>1. PICK h \in Nat : /\ h = Cardinality(held) /\ h + 1 \in 1..m
                       /\ free = order[h + 1] /\ free \in Ring
                       /\ \A i \in 1..m : buffer[order[i]] # None => i > h
  <2>1. \A i \in 1..Len(order) : buffer[order[i]] # None => i > Cardinality(held)
    BY HandedIs
  <2>2. /\ Cardinality(held) \in Nat /\ Cardinality(held) + 1 \in 1..Len(order)
        /\ free \in Elements(order) /\ free = order[Cardinality(held) + 1]
    BY HandedIs
  <2>3. Elements(order) = Ring
    BY DEF Ring, Elements
  <2>. QED
    BY <1>0, <2>1, <2>2, <2>3
<1>2. \A i \in 1..m : buffer[order[i]] # None => i > h
  BY <1>1
<1>3. Place(free) = h + 1
  BY <1>0, <1>1, PlaceIs
<1>4. /\ Linked(T) /\ Len(T) = m + 1 /\ Elements(T) = Ring \cup {b} /\ T[h + 2] = b
      /\ \A i \in 1..(m + 1) : i # h + 2 =>
           LET j == IF i <= h + 1 THEN i ELSE i - 1 IN j \in 1..m /\ T[i] = order[j]
  <2>1. T = Inserted(h + 1, b)
    BY <1>3
  <2>2. (h + 1) + 1 = h + 2
    BY <1>1
  <2>3. /\ Linked(T) /\ Len(T) = Len(order) + 1 /\ Elements(T) = Ring \cup {b}
        /\ T[(h + 1) + 1] = b
        /\ \A i \in 1..Len(T) : i # (h + 1) + 1 =>
              LET j == IF i <= h + 1 THEN i ELSE i - 1 IN j \in 1..Len(order) /\ T[i] = order[j]
    BY <1>0, <1>1, <2>1, EnlargedIs
  <2>. QED
    BY <1>0, <2>2, <2>3
<1>5. m \in Nat /\ Elements(order) = Ring
  BY DEF Ring, Elements
<1>6. buffer[b] = None
  BY <1>5 DEF Recent
<1>7. \A i \in 1..(m + 1) : buffer[T[i]] # None =>
        i > h + 2 /\ i - 1 \in 1..m /\ T[i] = order[i - 1]
  <2>1. SUFFICES ASSUME NEW i \in 1..(m + 1), buffer[T[i]] # None
                 PROVE  i > h + 2 /\ i - 1 \in 1..m /\ T[i] = order[i - 1]
    OBVIOUS
  <2>2. i # h + 2
    BY <1>4, <1>6, <2>1
  <2>3. CASE i <= h + 1
    <3>1. T[i] = order[i] /\ i \in 1..m
      BY <1>4, <2>2, <2>3
    <3>2. i > h
      BY <1>2, <2>1, <3>1
    <3>3. i = h + 1
      BY <1>1, <2>3, <3>1, <3>2
    <3>. QED
      BY <1>1, <2>1, <3>1, <3>3
  <2>4. CASE ~(i <= h + 1)
    <3>1. T[i] = order[i - 1] /\ i - 1 \in 1..m
      BY <1>4, <2>2, <2>4
    <3>. QED
      BY <1>1, <2>2, <2>4, <3>1
  <2>. QED
    BY <2>3, <2>4
<1>8. Recent(files, buffer, T, n)
  <2>1. ASSUME NEW i \in 1..Len(T), buffer[T[i]] # None
        PROVE  /\ \A j \in i..Len(T) : buffer[T[j]] # None
               /\ buffer[T[i]].packet.number = n - 1 - (Len(T) - i)
               /\ buffer[T[i]].seq = buffer[T[i]].packet.number % Mod
               /\ Holds(files, buffer[T[i]].packet)
    <3>1. i > h + 2 /\ i - 1 \in 1..m /\ T[i] = order[i - 1]
      BY <1>4, <1>7, <2>1
    <3>2. /\ \A j \in (i - 1)..m : buffer[order[j]] # None
          /\ buffer[T[i]].packet.number = n - 1 - (m - (i - 1))
          /\ buffer[T[i]].seq = buffer[T[i]].packet.number % Mod
          /\ Holds(files, buffer[T[i]].packet)
      BY <1>0, <2>1, <3>1 DEF Recent
    <3>3. n - 1 - (m - (i - 1)) = n - 1 - (Len(T) - i)
      BY <1>4, <1>5, <3>1
    <3>4. ASSUME NEW j \in i..Len(T)
          PROVE  buffer[T[j]] # None
      <4>1. j \in 1..(m + 1) /\ ~(j <= h + 1) /\ j # h + 2 /\ j - 1 \in (i - 1)..m
        BY <1>1, <1>4, <1>5, <3>1, <3>4
      <4>2. T[j] = order[j - 1]
        BY <1>4, <4>1
      <4>. QED
        BY <3>2, <4>1, <4>2
    <3>. QED
      BY <3>2, <3>3, <3>4
  <2>2. \A a \in 1..MaxBuffers : a \notin Elements(T) => buffer[a] = None
    BY <1>4, <1>5 DEF Recent
  <2>. QED
    BY <2>1, <2>2 DEF Recent
<1>9. Handed(T, buffer, held, free)
  <2>1. \A i \in 1..(h + 1) : T[i] = order[i]
    <3>1. SUFFICES ASSUME NEW i \in 1..(h + 1) PROVE T[i] = order[i]
      OBVIOUS
    <3>2. i \in 1..(m + 1) /\ i <= h + 1 /\ i # h + 2
      BY <1>1, <1>5, <3>1
    <3>. QED
      BY <1>4, <3>2
  <2>2. held = {order[i] : i \in 1..h} /\ h <= Streams /\ IsFiniteSet(held)
        /\ \A a \in held : buffer[a] = None
    BY <1>1 DEF Handed
  <2>3. \A i \in 1..h : i \in 1..(h + 1)
    OBVIOUS
  <2>4. h + 1 \in 1..(h + 1)
    OBVIOUS
  <2>6. \A i \in 1..h : T[i] = order[i]
    BY <2>1, <2>3
  <2>7. held = {T[i] : i \in 1..h}
    BY <2>2, <2>6
  <2>5. held = {T[i] : i \in 1..h} /\ free = T[h + 1]
    BY <1>1, <2>1, <2>4, <2>7
  <2>. QED
    BY <1>1, <2>2, <2>5 DEF Handed
<1>10. Leading(T, buffer, first)
  <2>1. (\A i \in 1..Len(T) : buffer[T[i]] = None)
           <=> (\A i \in 1..Len(order) : buffer[order[i]] = None)
    <3>1. (\A a \in Elements(T) : buffer[a] = None) <=> (\A a \in Elements(order) : buffer[a] = None)
      BY <1>4, <1>5, <1>6
    <3>2. (\A a \in Elements(T) : buffer[a] = None) <=> (\A i \in 1..Len(T) : buffer[T[i]] = None)
      BY DEF Elements
    <3>3. (\A a \in Elements(order) : buffer[a] = None)
             <=> (\A i \in 1..Len(order) : buffer[order[i]] = None)
      BY DEF Elements
    <3>. QED
      BY <3>1, <3>2, <3>3
  <2>2. Elements(order) \subseteq Elements(T)
    BY <1>4, <1>5
  <2>. QED
    BY <2>1, <2>2 DEF Leading
<1>. QED
  BY <1>4, <1>8, <1>9, <1>10
-----------------------------------------------------------------------------
\* The restart.

LEMMA RegisteredIs ==
  ASSUME Chain(files)
  PROVE  Registered = files /\ EndOnDisk = Behind(files) /\ EndOnDisk \in Nat /\ Start <= EndOnDisk
<1>1. files \in Seq(File) /\ \A i \in 1..Len(files) : files[i] \in File
  BY FileTypes DEF Chain
<1>2. ASSUME NEW i \in 1..Len(files)
      PROVE  [files[i] EXCEPT !.seq = files[i].name % Mod] = files[i]
  <2>1. files[i] \in File /\ files[i].seq = files[i].name % Mod
    BY <1>1 DEF Chain
  <2>. QED
    BY <2>1 DEF File
<1>3. Registered = files
  <2>1. Registered = [i \in 1..Len(files) |-> files[i]]
    BY <1>2 DEF Registered
  <2>. QED
    BY <1>1, <2>1
<1>4. EndOnDisk = Behind(files)
  BY DEF EndOnDisk, Behind, Size, Stored
<1>5. Behind(files) \in Nat /\ Start <= Behind(files)
  <2>1. CASE files = <<>>
    BY <2>1, ConstantTypes DEF Behind, Chain
  <2>2. CASE files # <<>>
    <3>1. Len(files) \in 1..Len(files)
      BY <1>1, <2>2
    <3>2. files[Len(files)].name \in Nat /\ Stored(files, Len(files)) \in Nat
      BY <3>1, ChainRange
    <3>3. files[Len(files)].name >= Start
      BY <3>1 DEF Chain
    <3>. QED
      BY <2>2, <3>2, <3>3, ConstantTypes DEF Behind
  <2>. QED
    BY <2>1, <2>2
<1>. QED
  BY <1>3, <1>4, <1>5

\* The last packets are loaded, as many as there is room for.
LEMMA LoadFromIs ==
  ASSUME Chain(files)
  PROVE  /\ LoadFrom \in Nat /\ LoadFrom <= EndOnDisk /\ EndOnDisk - LoadFrom <= Buffers
         /\ \A k \in LoadFrom..(EndOnDisk - 1) :
              /\ PacketOnDisk(k).number = k /\ Holds(files, PacketOnDisk(k))
<1>. DEFINE E == EndOnDisk
            n == E - Buffers
            m == n % Mod
<1>1. E = Behind(files) /\ E \in Nat /\ Buffers \in Nat /\ Buffers >= 1 /\ Buffers < Mod
  BY RegisteredIs, ConstantTypes, RingFits
<1>2. CASE files = <<>>
  <2>1. E = 0 /\ LoadFrom = 0
    BY <1>2 DEF EndOnDisk, LoadFrom
  <2>. QED
    BY <1>1, <2>1
<1>3. CASE files # <<>>
  <2>1. 1 \in 1..Len(files)
    <3>1. files \in Seq(File)
      BY DEF Chain
    <3>. QED
      BY <1>3, <3>1
  <2>2. files[1].name \in Nat /\ files[1].name <= E
    <3>1. files[1].name \in Nat /\ Stored(files, 1) \in Nat /\ files[1].name + Stored(files, 1) <= E
      BY <1>1, <2>1, ChainRange
    <3>. QED
      BY <1>1, <3>1
  <2>3. LoadFrom = IF FileWith(m) # 0 THEN files[FileWith(m)].name + Offset(FileWith(m), m)
                   ELSE files[1].name
    BY <1>3 DEF LoadFrom
  <2>4. n \in Int /\ n < E /\ m \in SeqNumbers
    BY <1>1, ModRange
  <2>. HIDE DEF m
  <2>5. LoadFrom \in Nat /\ LoadFrom <= E /\ E - LoadFrom <= Buffers /\ files[1].name <= LoadFrom
    <3>1. CASE files[1].name <= n
      <4>1. PICK i \in 1..Len(files) : files[i].name <= n /\ n < files[i].name + Stored(files, i)
        BY <1>1, <1>3, <2>4, <3>1, ChainCovers
      <4>2. FileWith(m) = i /\ Offset(i, m) = n - files[i].name
        BY <2>4, <4>1, FileWithIs DEF m, Size, Stored
      <4>3. i # 0 /\ files[i].name \in Nat
        BY ChainRange
      <4>4. LoadFrom = files[i].name + (n - files[i].name)
        BY <2>3, <4>2, <4>3
      <4>5. LoadFrom = n
        BY <2>4, <4>3, <4>4
      <4>. QED
        BY <1>1, <2>2, <3>1, <4>5
    <3>2. CASE ~(files[1].name <= n)
      <4>1. FileWith(m) = 0
        <5>1. SUFFICES ASSUME FileWith(m) # 0 PROVE FALSE
          OBVIOUS
        <5>. DEFINE i == FileWith(m)
                    v == files[i].name + Offset(i, m)
        <5>2. i \in 1..Len(files) /\ Offset(i, m) \in Nat /\ Offset(i, m) < Size(i) /\ v % Mod = m
          BY <2>4, <5>1, FileWithSound
        <5>3. /\ files[i].name \in Nat /\ files[1].name <= files[i].name
              /\ Size(i) \in Nat /\ files[i].name + Size(i) <= E
          BY <1>1, <5>2, ChainRange, ChainOrder DEF Size, Stored
        <5>. HIDE DEF i
        <5>4. v \in Nat /\ n < v /\ v < E
          BY <1>1, <2>2, <2>4, <3>2, <5>2, <5>3
        <5>. HIDE DEF v
        <5>5. v % Mod = n % Mod
          BY <5>2 DEF m
        <5>8. n = E - Buffers
          OBVIOUS
        <5>. HIDE DEF n, E
        <5>6. v - n < Mod /\ n - v < Mod
          BY <1>1, <2>4, <5>4, <5>8, ConstantTypes
        <5>7. v = n
          BY <2>4, <5>4, <5>5, <5>6, ModSame
        <5>. QED
          BY <2>4, <5>4, <5>7
      <4>2. LoadFrom = files[1].name
        BY <2>3, <4>1
      <4>. QED
        BY <1>1, <2>2, <3>2, <4>2
    <3>. QED
      BY <3>1, <3>2
  <2>6. ASSUME NEW k \in LoadFrom..(E - 1)
        PROVE  PacketOnDisk(k).number = k /\ Holds(files, PacketOnDisk(k))
    <3>1. k \in Int /\ files[1].name <= k /\ k < E
      BY <1>1, <2>2, <2>5, <2>6
    <3>2. PICK j \in 1..Len(files) : files[j].name <= k /\ k < files[j].name + Stored(files, j)
      BY <1>1, <1>3, <3>1, ChainCovers
    <3>3. \A i \in 1..Len(files) : files[i].name \in Nat /\ Stored(files, i) \in Nat
      BY ChainRange
    <3>. DEFINE i == CHOOSE i \in 1..Len(files) : k \in files[i].name..(files[i].name + Size(i) - 1)
    <3>4. k \in files[j].name..(files[j].name + Size(j) - 1)
      BY <3>1, <3>2, <3>3 DEF Size, Stored
    <3>5. i \in 1..Len(files) /\ k \in files[i].name..(files[i].name + Size(i) - 1)
      BY <3>4
    <3>6. PacketOnDisk(k) = files[i].packets[k - files[i].name + 1]
      BY DEF PacketOnDisk
    <3>. HIDE DEF i
    <3>. DEFINE l == k - files[i].name + 1
    <3>9. files[i].name <= k /\ k < files[i].name + Stored(files, i)
      BY <3>1, <3>3, <3>5 DEF Size, Stored
    <3>10. files[i].name \in Nat /\ Stored(files, i) \in Nat
      BY <3>3, <3>5
    <3>7. l \in 1..Stored(files, i) /\ files[i].name + l - 1 = k
      BY <3>1, <3>9, <3>10
    <3>. HIDE DEF l
    <3>8. Holds(files, files[i].packets[l]) /\ files[i].packets[l].number = files[i].name + l - 1
      BY <3>5, <3>7, HeldAt
    <3>. QED
      BY <3>6, <3>7, <3>8 DEF l
  <2>. QED
    BY <2>5, <2>6
<1>. QED
  BY <1>2, <1>3
\* The list of buffers after l packets have been loaded.
Rotated(l) == [i \in 1..Buffers |-> ((i - 1 + l) % Buffers) + 1]
Loaded(F, l) ==
  [b \in 1..MaxBuffers |->
     IF b > l THEN None
     ELSE [seq |-> (F + b - 1) % Mod, packet |-> PacketOnDisk(F + b - 1)]]

LEMMA RotatedIs ==
  ASSUME NEW l \in 0..Buffers, NEW O, O = Rotated(l)
  PROVE  /\ Linked(O) /\ Len(O) = Buffers /\ Elements(O) = 1..Buffers
         /\ \A i \in 1..Buffers : O[i] = IF i + l <= Buffers THEN i + l ELSE i + l - Buffers
<1>. DEFINE N == Buffers
<1>1. N \in Nat /\ N >= 1 /\ N <= MaxBuffers /\ MaxBuffers \in Nat /\ l \in Nat /\ l <= N
  BY ConstantTypes
<1>2. ASSUME NEW x \in 0..(N - 1)
      PROVE  x % N = x /\ (x + N) % N = x
  BY <1>1
<1>3. ASSUME NEW i \in 1..N
      PROVE  ((i - 1 + l) % N) + 1 = IF i + l <= N THEN i + l ELSE i + l - N
  <2>1. CASE i + l <= N
    <3>1. i - 1 + l \in 0..(N - 1)
      BY <1>1, <2>1
    <3>2. (i - 1 + l) % N = i - 1 + l
      BY <1>2, <3>1
    <3>. QED
      BY <1>1, <2>1, <3>2
  <2>2. CASE ~(i + l <= N)
    <3>. DEFINE x == i - 1 + l - N
    <3>1. x \in 0..(N - 1) /\ i - 1 + l = x + N
      BY <1>1, <2>2
    <3>. HIDE DEF x
    <3>2. (i - 1 + l) % N = x
      BY <1>2, <3>1
    <3>. QED
      BY <1>1, <2>2, <3>2 DEF x
  <2>. QED
    BY <2>1, <2>2
<1>4. DOMAIN O = 1..N /\ \A i \in 1..N : O[i] = IF i + l <= N THEN i + l ELSE i + l - N
  BY <1>3 DEF Rotated
<1>5. \A i \in 1..N : O[i] \in 1..N /\ O[i] \in 1..MaxBuffers
  BY <1>1, <1>4
<1>6. O \in Seq(1..MaxBuffers) /\ Len(O) = N
  <2>1. O \in [1..N -> 1..MaxBuffers]
    <3>1. O = [i \in 1..N |-> O[i]]
      BY <1>4 DEF Rotated
    <3>. QED
      BY <1>5, <3>1
  <2>. QED
    BY <1>1, <2>1
<1>7. \A i, j \in 1..N : O[i] = O[j] => i = j
  BY <1>1, <1>4
<1>8. Elements(O) = 1..N
  <2>1. ASSUME NEW b \in 1..N
        PROVE  \E i \in 1..N : O[i] = b
    <3>1. CASE b > l
      <4>1. b - l \in 1..N /\ (b - l) + l <= N /\ (b - l) + l = b
        BY <1>1, <3>1
      <4>2. O[b - l] = b
        BY <1>4, <4>1
      <4>. QED
        BY <4>1, <4>2
    <3>2. CASE ~(b > l)
      <4>. DEFINE i == b - l + N
      <4>1. i \in 1..N /\ ~(i + l <= N) /\ i + l - N = b
        BY <1>1, <3>2
      <4>. HIDE DEF i
      <4>2. O[i] = b
        BY <1>4, <4>1
      <4>. QED
        BY <4>1, <4>2
    <3>. QED
      BY <3>1, <3>2
  <2>. QED
    BY <1>5, <1>6, <2>1 DEF Elements
<1>9. Cardinality(1..N) = N
  <2>1. 1 \in Int /\ N \in Int /\ 1 <= N /\ N - 1 + 1 = N
    BY <1>1
  <2>. QED
    BY <2>1, FS_Interval
<1>10. Linked(O)
  BY <1>1, <1>6, <1>7, <1>8, <1>9 DEF Linked
<1>. QED
  BY <1>4, <1>6, <1>8, <1>10

LEMMA RestartMemory ==
  ASSUME Chain(files), NEW l, l = EndOnDisk - LoadFrom, NEW O, O = Rotated(l),
         NEW B, B = Loaded(LoadFrom, l)
  PROVE  /\ l \in 0..Buffers /\ Linked(O) /\ Len(O) = Buffers
         /\ B \in [1..MaxBuffers -> Content]
         /\ Recent(files, B, O, EndOnDisk)
         /\ (l % Buffers) + 1 \in 1..MaxBuffers
         /\ Handed(O, B, {}, (l % Buffers) + 1)
         /\ Leading(O, B, IF l = 0 THEN None ELSE 1)
<1>. DEFINE N == Buffers
            E == EndOnDisk
            L == LoadFrom
            P(b) == PacketOnDisk(L + b - 1)
<1>1. /\ L \in Nat /\ L <= E /\ E - L <= N
      /\ \A k \in L..(E - 1) : PacketOnDisk(k).number = k /\ Holds(files, PacketOnDisk(k))
  BY LoadFromIs
<1>2. E \in Nat /\ N \in Nat /\ N >= 1 /\ N <= MaxBuffers /\ MaxBuffers \in Nat
  BY RegisteredIs, ConstantTypes
<1>3. l \in 0..N /\ l = E - L
  BY <1>1, <1>2
<1>4. /\ Linked(O) /\ Len(O) = N /\ Elements(O) = 1..N
      /\ \A i \in 1..N : O[i] = IF i + l <= N THEN i + l ELSE i + l - N
  BY <1>3, RotatedIs
<1>. HIDE DEF E, L, N
<1>5. \A b \in 1..MaxBuffers : b > l => B[b] = None
  BY DEF Loaded
<1>6. ASSUME NEW b \in 1..MaxBuffers, ~(b > l)
      PROVE  /\ B[b] # None /\ B[b] \in Content
             /\ B[b].packet.number = L + b - 1
             /\ B[b].seq = B[b].packet.number % Mod
             /\ Holds(files, B[b].packet)
  <2>. DEFINE k == L + b - 1
              r == [seq |-> k % Mod, packet |-> PacketOnDisk(k)]
  <2>1. B[b] = r
    BY <1>6 DEF Loaded, L
  <2>2. k \in L..(E - 1) /\ k \in Int
    BY <1>1, <1>2, <1>3, <1>6
  <2>3. k = L + b - 1
    OBVIOUS
  <2>. HIDE DEF k
  <2>4. PacketOnDisk(k).number = k /\ Holds(files, PacketOnDisk(k)) /\ PacketOnDisk(k) \in Packet
    BY <1>1, <2>2, HeldNumber
  <2>5. k % Mod \in SeqNumbers
    BY <2>2, ModRange
  <2>6. r.seq = k % Mod /\ r.packet = PacketOnDisk(k)
    OBVIOUS
  <2>7. r \in [seq : SeqNumbers, packet : Packet]
    BY <2>4, <2>5
  <2>8. r \in Content /\ r # None
    BY <2>7, NoneAssumption DEF NoneAssumption, Content
  <2>. HIDE DEF r
  <2>. QED
    BY <2>1, <2>3, <2>4, <2>6, <2>8
<1>7. B \in [1..MaxBuffers -> Content]
  <2>1. B = [b \in 1..MaxBuffers |-> B[b]]
    BY DEF Loaded
  <2>2. \A b \in 1..MaxBuffers : B[b] \in Content
    BY <1>5, <1>6 DEF Content
  <2>. QED
    BY <2>1, <2>2
<1>8. \A i \in 1..N : O[i] \in 1..MaxBuffers
  BY <1>4, LinkedTypes
<1>9. ASSUME NEW i \in 1..N, B[O[i]] # None
      PROVE  i + l > N /\ O[i] = i + l - N
  <2>1. ~(O[i] > l)
    BY <1>5, <1>8, <1>9
  <2>. QED
    BY <1>2, <1>3, <1>4, <2>1
<1>10. ASSUME NEW i \in 1..N, i + l > N
       PROVE  O[i] = i + l - N /\ O[i] \in 1..MaxBuffers /\ ~(O[i] > l)
  BY <1>2, <1>3, <1>4, <1>10
<1>11. Recent(files, B, O, E)
  <2>1. ASSUME NEW i \in 1..N, B[O[i]] # None
        PROVE  /\ \A j \in i..N : B[O[j]] # None
               /\ B[O[i]].packet.number = E - 1 - (N - i)
               /\ B[O[i]].seq = B[O[i]].packet.number % Mod
               /\ Holds(files, B[O[i]].packet)
    <3>1. i + l > N /\ O[i] = i + l - N /\ O[i] \in 1..MaxBuffers /\ ~(O[i] > l)
      BY <1>9, <1>10, <2>1
    <3>2. /\ B[O[i]].packet.number = L + O[i] - 1
          /\ B[O[i]].seq = B[O[i]].packet.number % Mod
          /\ Holds(files, B[O[i]].packet)
      BY <1>6, <3>1
    <3>3. L + O[i] - 1 = E - 1 - (N - i)
      BY <1>1, <1>2, <1>3, <3>1
    <3>4. ASSUME NEW j \in i..N
          PROVE  B[O[j]] # None
      <4>1. j \in 1..N /\ j + l > N
        BY <1>2, <1>3, <3>1, <3>4
      <4>2. O[j] \in 1..MaxBuffers /\ ~(O[j] > l)
        BY <1>10, <4>1
      <4>. QED
        BY <1>6, <4>2
    <3>. QED
      BY <3>2, <3>3, <3>4
  <2>2. ASSUME NEW b \in 1..MaxBuffers, b \notin Elements(O)
        PROVE  B[b] = None
    <3>1. b > l
      BY <1>2, <1>3, <1>4, <2>2
    <3>. QED
      BY <1>5, <3>1
  <2>. QED
    BY <1>4, <2>1, <2>2 DEF Recent
<1>12. (l % N) + 1 = O[1] /\ 1 \in 1..N /\ O[1] \in 1..MaxBuffers
  <2>1. 1 \in 1..N /\ 1 - 1 + l = l
    BY <1>2, <1>3
  <2>2. O[1] = ((1 - 1 + l) % N) + 1
    BY <2>1 DEF Rotated, N
  <2>. QED
    BY <1>8, <2>1, <2>2
<1>13. Handed(O, B, {}, O[1])
  <2>1. IsFiniteSet({}) /\ Cardinality({}) = 0
    BY FS_EmptySet
  <2>2. {} = {O[i] : i \in 1..0}
    <3>1. 1..0 = {}
      OBVIOUS
    <3>. QED
      BY <3>1
  <2>3. 0 <= Streams /\ 0 + 1 = 1
    BY ConstantTypes
  <2>. QED
    BY <2>1, <2>2, <2>3 DEF Handed
<1>14. Leading(O, B, IF l = 0 THEN None ELSE 1)
  <2>1. CASE l = 0
    <3>1. \A i \in 1..N : B[O[i]] = None
      BY <1>2, <1>9, <2>1
    <3>. QED
      BY <1>4, <2>1, <3>1 DEF Leading
  <2>2. CASE l # 0
    <3>1. 1 \in 1..MaxBuffers /\ ~(1 > l) /\ 1 \in Elements(O)
      BY <1>2, <1>3, <1>4, <2>2
    <3>2. B[1] # None
      BY <1>6, <3>1
    <3>3. \E i \in 1..N : B[O[i]] # None
      BY <1>4, <3>1, <3>2 DEF Elements
    <3>4. 1 # None
      BY ConstantTypes
    <3>. QED
      BY <1>4, <2>2, <3>1, <3>2, <3>3, <3>4 DEF Leading
  <2>. QED
    BY <2>1, <2>2
<1>. QED
  BY <1>3, <1>4, <1>7, <1>11, <1>12, <1>13, <1>14 DEF E, N
-----------------------------------------------------------------------------
\* The types of the parts of the state.

Client ==
  [on : BOOLEAN, queue : 1..MaxBuffers \cup {None}, file : Nat \cup {None},
   fd : (0..SegmentSize) \cup {None}, seq : SeqNumbers \cup {None},
   active : BOOLEAN, ready : BOOLEAN, realtime : BOOLEAN, done : BOOLEAN,
   multi : BOOLEAN, selective : BOOLEAN]
MemoryType ==
  /\ buffer \in [1..MaxBuffers -> Content]
  /\ first \in 1..MaxBuffers \cup {None} /\ free \in 1..MaxBuffers \cup {None}
  /\ held \subseteq Ring /\ seq \in SeqNumbers
ServerType ==
  /\ seqLong \in Nat /\ serial \in 0..MaxPackets
  /\ phase \in {"up", "recovering", "down"} /\ blanks \in 0..Blanks
  /\ saved \in BOOLEAN /\ aborted \in BOOLEAN /\ stops \in 0..MaxStops
ClientType ==
  /\ sx \in [Clients -> Client] /\ serving \in Clients \cup {None}
  /\ last \in [Clients -> [number : Nat, serial : 1..MaxPackets] \cup {None}]
  /\ from \in [Clients -> Nat] /\ early \subseteq Clients

LEMMA TypesIn == TypeOK => MemoryType /\ ServerType /\ ClientType
  BY DEF TypeOK, MemoryType, ServerType, ClientType, Content, Client

LEMMA TypesOut ==
  Chain(files) /\ Linked(order) /\ MemoryType /\ ServerType /\ ClientType => TypeOK
<1>. SUFFICES ASSUME Chain(files), Linked(order), MemoryType, ServerType, ClientType
              PROVE  TypeOK
  OBVIOUS
<1>1. order \in Seq(1..MaxBuffers) /\ Len(order) \in Buffers..MaxBuffers
  <2>1. order \in Seq(1..MaxBuffers)
    BY DEF Linked
  <2>2. Len(order) \in Nat /\ Buffers <= Len(order) /\ Len(order) <= MaxBuffers
    BY LinkedSize
  <2>. QED
    BY <2>1, <2>2, ConstantTypes
<1>2. files \in Seq([name : Nat, seq : SeqNumbers, packets : Seq(Packet)]) /\ Len(files) <= Segments
  BY DEF Chain, File
<1>3. MemoryType /\ ServerType /\ ClientType
  OBVIOUS
<1>. QED
  BY <1>1, <1>2, <1>3 DEF TypeOK, MemoryType, ServerType, ClientType, Content, Client

\* While the server runs, the types of the three pointers follow.
LEMMA PointerTypes ==
  Linked(order) /\ Handed(order, buffer, held, free) /\ Leading(order, buffer, first)
    => /\ first \in 1..MaxBuffers \cup {None} /\ free \in 1..MaxBuffers \cup {None}
       /\ held \subseteq Ring
<1>. SUFFICES ASSUME Linked(order), Handed(order, buffer, held, free), Leading(order, buffer, first)
              PROVE  /\ first \in 1..MaxBuffers \cup {None} /\ free \in 1..MaxBuffers \cup {None}
                     /\ held \subseteq Ring
  OBVIOUS
<1>1. free \in 1..MaxBuffers /\ held \subseteq Elements(order)
  BY HandedIs
<1>2. first # None => first \in Elements(order)
  BY DEF Leading
<1>3. Elements(order) = Ring /\ Elements(order) \subseteq 1..MaxBuffers
  BY LinkedSize DEF Ring, Elements
<1>. QED
  BY <1>1, <1>2, <1>3

LEMMA IdlePlaced ==
  /\ Idle \in Client
  /\ \A F, B, O : Placed(Idle, F, B, O)
<1>1. Idle.queue = None /\ Idle.file = None
  BY DEF Idle
<1>2. Idle \in Client
  BY DEF Idle, Client
<1>. QED
  BY <1>1, <1>2 DEF Placed

LEMMA ClientFields ==
  ASSUME NEW x \in Client
  PROVE  /\ x.queue \in 1..MaxBuffers \cup {None} /\ x.file \in Nat \cup {None}
         /\ x.fd \in (0..SegmentSize) \cup {None} /\ x.seq \in SeqNumbers \cup {None}
         /\ x.active \in BOOLEAN /\ x.ready \in BOOLEAN /\ x.done \in BOOLEAN
         /\ x.realtime \in BOOLEAN /\ x.multi \in BOOLEAN /\ x.selective \in BOOLEAN
         /\ x.on \in BOOLEAN
         /\ x.file # None => At(x) \in Nat /\ At(x) >= x.file
<1>1. /\ x.queue \in 1..MaxBuffers \cup {None} /\ x.file \in Nat \cup {None}
      /\ x.fd \in (0..SegmentSize) \cup {None} /\ x.seq \in SeqNumbers \cup {None}
      /\ x.active \in BOOLEAN /\ x.ready \in BOOLEAN /\ x.done \in BOOLEAN
      /\ x.realtime \in BOOLEAN /\ x.multi \in BOOLEAN /\ x.selective \in BOOLEAN
      /\ x.on \in BOOLEAN
  BY DEF Client
<1>2. x.file # None => At(x) \in Nat /\ At(x) >= x.file
  BY <1>1 DEF At
<1>. QED
  BY <1>1, <1>2

\* The buffer at the head of the free ones is followed by the next packet.
LEMMA NextPacket ==
  ASSUME NEW n \in Nat, Linked(order), Recent(files, buffer, order, n),
         NEW b, b \in Elements(order), buffer[b] # None
  PROVE  /\ b \in 1..MaxBuffers
         /\ NextOf(b) = None => buffer[b].packet.number = n - 1
         /\ NextOf(b) # None =>
              /\ NextOf(b) \in Elements(order) /\ NextOf(b) # b /\ NextOf(b) \in 1..MaxBuffers
              /\ buffer[NextOf(b)] # None
              /\ buffer[NextOf(b)].packet.number = buffer[b].packet.number + 1
<1>1. PICK i \in 1..Len(order) : b = order[i]
  BY DEF Elements
<1>2. Len(order) \in Nat /\ \A j \in 1..Len(order) : order[j] \in 1..MaxBuffers
  BY LinkedSize, LinkedTypes
<1>3. NextOf(b) = IF i = Len(order) THEN None ELSE order[i + 1]
  BY <1>1, PlaceIs
<1>4. /\ \A j \in i..Len(order) : buffer[order[j]] # None
      /\ buffer[b].packet.number = n - 1 - (Len(order) - i)
  BY <1>1 DEF Recent
<1>5. CASE i = Len(order)
  <2>1. n - 1 - (Len(order) - i) = n - 1
    BY <1>2, <1>5
  <2>. QED
    BY <1>1, <1>2, <1>3, <1>4, <1>5, <2>1
<1>6. CASE i # Len(order)
  <2>1. i + 1 \in 1..Len(order) /\ i + 1 \in i..Len(order) /\ i + 1 # i
    BY <1>1, <1>2, <1>6
  <2>2. buffer[order[i + 1]] # None /\ order[i + 1] \in 1..MaxBuffers
    BY <1>2, <1>4, <2>1
  <2>3. buffer[order[i + 1]].packet.number = n - 1 - (Len(order) - (i + 1))
    BY <2>1, <2>2 DEF Recent
  <2>4. n - 1 - (Len(order) - (i + 1)) = (n - 1 - (Len(order) - i)) + 1
    BY <1>2, <2>1
  <2>5. order[i + 1] # order[i] /\ order[i + 1] \in Elements(order)
    BY <1>1, <2>1 DEF Linked, Elements
  <2>6. None \notin 1..MaxBuffers
    BY ConstantTypes
  <2>. QED
    BY <1>1, <1>2, <1>3, <1>4, <1>6, <2>2, <2>3, <2>4, <2>5, <2>6
<1>. QED
  BY <1>5, <1>6
-----------------------------------------------------------------------------
\* The cursors.

\* delete_oldest_buffer(): a client that was to read the buffer from memory finds the
\* packet on disk.
LEMMA RecycledPlaced ==
  ASSUME Chain(files), Linked(order), Agrees, seqLong \in Nat, free \in 1..MaxBuffers,
         free \in Elements(order), buffer \in [1..MaxBuffers -> Content],
         NEW x \in Client, Placed(x, files, buffer, order),
         NEW C, C = [buffer EXCEPT ![free] = None],
         NEW y, y = IF buffer[free] = None THEN x ELSE Recycled(x, free)
  PROVE  y \in Client /\ Placed(y, files, C, order)
<1>1. C[free] = None /\ \A b \in 1..MaxBuffers : b # free => C[b] = buffer[b]
  OBVIOUS
<1>2. /\ x.queue \in 1..MaxBuffers \cup {None} /\ x.file \in Nat \cup {None}
      /\ x.file # None => At(x) \in Nat
  BY ClientFields
<1>3. Recent(files, buffer, order, seqLong)
  BY DEF Agrees
<1>4. CASE x.queue # free \/ buffer[free] = None
  <2>1. y = x
    BY <1>4 DEF Recycled
  <2>2. x.queue # None => x.queue # free /\ x.queue \in Elements(order) /\ buffer[x.queue] # None
    BY <1>4 DEF Placed
  <2>3. x.queue # None => C[x.queue] = buffer[x.queue]
    BY <1>1, <1>2, <2>2
  <2>4. x.file # None => InFile(x, files, Ahead(x, files, C))
    BY <2>3 DEF Placed, Ahead
  <2>. QED
    BY <2>1, <2>2, <2>3, <2>4 DEF Placed
<1>5. CASE x.queue = free /\ buffer[free] # None
  <2>. DEFINE n == buffer[free].packet.number
              z == NextOf(free)
  <2>1. /\ z = None => n = seqLong - 1
        /\ z # None => /\ z \in Elements(order) /\ z # free /\ z \in 1..MaxBuffers
                       /\ buffer[z] # None /\ buffer[z].packet.number = n + 1
    BY <1>3, <1>5, NextPacket
  <2>2. buffer[free].seq = n % Mod /\ Holds(files, buffer[free].packet)
    <3>1. PICK i \in 1..Len(order) : free = order[i]
      BY DEF Elements
    <3>. QED
      BY <1>3, <1>5, <3>1 DEF Recent
  <2>3. n \in Nat
    BY <2>2, HeldNumber
  <2>4. z # None => C[z] = buffer[z]
    BY <1>1, <2>1
  <2>. DEFINE m == IF z = None THEN Behind(files) ELSE C[z].packet.number
  <2>5. m = n + 1
    <3>1. Behind(files) = seqLong
      BY DEF Agrees
    <3>. QED
      BY <2>1, <2>3, <2>4, <3>1
  <2>6. z \in 1..MaxBuffers \cup {None}
    BY <2>1
  <2>. HIDE DEF n, z
  <2>7. CASE x.file # None
    <3>1. y = [x EXCEPT !.queue = z]
      BY <1>5, <2>7 DEF Recycled, z
    <3>2. y \in Client
      BY <2>6, <3>1 DEF Client
    <3>3. y.queue = z /\ y.file = x.file /\ y.fd = x.fd /\ y.seq = x.seq
      BY <3>1 DEF Client
    <3>4. At(y) = At(x) /\ Ahead(y, files, C) = m
      BY <3>3 DEF At, Ahead
    <3>. HIDE DEF m
    <3>5. InFile(x, files, n)
      BY <1>2, <1>5, <2>7, ConstantTypes DEF Placed, Ahead, n
    <3>6. At(x) <= m /\ At(x) # m
      BY <1>2, <2>3, <2>5, <2>7, <3>5 DEF InFile
    <3>7. InFile(y, files, m)
      BY <3>3, <3>4, <3>5, <3>6 DEF InFile
    <3>8. y.queue # None => y.queue \in Elements(order) /\ C[y.queue] # None
      BY <2>1, <2>4, <3>3
    <3>. QED
      BY <3>2, <3>4, <3>7, <3>8 DEF Placed
  <2>8. CASE x.file = None
    <3>1. PICK i \in 1..Len(files) : files[i].name <= n /\ n < files[i].name + Stored(files, i)
      BY <2>2, HeldNumber DEF n
    <3>2. FileWith(n % Mod) = i /\ Offset(i, n % Mod) = n - files[i].name
      BY <2>3, <3>1, FileWithIs DEF Size, Stored
    <3>3. files[i].name \in Nat /\ Stored(files, i) \in 0..SegmentSize /\ i # 0
      BY ChainRange
    <3>. DEFINE d == n - files[i].name
                s == n % Mod
    <3>4. y = [x EXCEPT !.queue = z, !.file = files[i].name, !.fd = d, !.seq = s]
      BY <1>5, <2>2, <2>8, <3>2, <3>3 DEF Recycled, z
    <3>5. s \in SeqNumbers
      BY <2>3, ModRange
    <3>6. d \in 0..SegmentSize /\ d <= Stored(files, i) /\ files[i].name + d = n
      BY <2>3, <3>1, <3>3, ConstantTypes
    <3>9. s = n % Mod
      OBVIOUS
    <3>. HIDE DEF d, s
    <3>7. y \in Client
      BY <2>6, <3>3, <3>4, <3>5, <3>6 DEF Client
    <3>8. y.queue = z /\ y.file = files[i].name /\ y.fd = d /\ y.seq = s
      BY <3>4 DEF Client
    <3>10. At(y) = n
      BY <3>6, <3>8, ConstantTypes DEF At
    <3>11. Ahead(y, files, C) = m
      BY <3>8 DEF Ahead
    <3>. HIDE DEF m
    <3>12. InFile(y, files, m)
      <4>1. At(y) <= m /\ At(y) # m
        BY <2>3, <2>5, <3>10
      <4>. QED
        BY <3>6, <3>8, <3>9, <3>10, <4>1 DEF InFile
    <3>13. y.queue # None => y.queue \in Elements(order) /\ C[y.queue] # None
      BY <2>1, <2>4, <3>8
    <3>. QED
      BY <3>7, <3>11, <3>12, <3>13 DEF Placed
  <2>. QED
    BY <2>7, <2>8
<1>. QED
  BY <1>4, <1>5

\* A packet is stored: delete_oldest_segment() and new_buffer().
LEMMA StoredPlaced ==
  ASSUME Chain(files), Linked(order), Agrees, seqLong \in Nat, seqLong >= Start,
         MaxBuffers <= Base(Segments),
         buffer \in [1..MaxBuffers -> Content], NEW p \in Packet, p.number = seqLong,
         NEW q \in 1..Len(order), buffer[order[q]] = None,
         \A i \in 1..Len(order) : buffer[order[i]] # None => i > q,
         NEW G, G = WithLast(Rolled, Append(Rolled[Len(Rolled)].packets, p)),
         NEW T, T = ToTail(order[q]), NEW C, C = WithPacket(buffer, order[q], seq, p),
         NEW x \in Client, Placed(x, files, buffer, order),
         NEW y, y = Woken(Forced(x), order[q], p)
  PROVE  y \in Client /\ Placed(y, G, C, T)
<1>. DEFINE b == order[q]
            f == Forced(x)
            N == G[1].name
<1>1. /\ Chain(G) /\ G # <<>> /\ Behind(G) = seqLong + 1
      /\ N = Rolled[1].name /\ N \in Nat /\ N <= seqLong
      /\ \A i \in 1..Len(files) : files[i].name >= N =>
           \E j \in 1..Len(G) : G[j].name = files[i].name /\ Stored(files, i) <= Stored(G, j)
      /\ \A i \in 1..Len(files) : files[i].name < N => N + Base(Segments) = seqLong
  BY WrittenIs DEF Agrees
<1>2. seq \in SeqNumbers
  <2>1. seqLong % Mod \in SeqNumbers
    BY ModRange
  <2>. QED
    BY <2>1 DEF Agrees
<1>3. /\ C[b] # None /\ C[b].packet = p
      /\ \A a \in 1..MaxBuffers : a # b => C[a] = buffer[a]
  BY <1>2, StoredContent
<1>4. Elements(T) = Elements(order) /\ b \in Elements(order) /\ b \in 1..MaxBuffers
  <2>1. Elements(T) = Ring
    BY ToTailIs
  <2>. QED
    BY <2>1, LinkedTypes DEF Ring, Elements
<1>5. /\ x.queue \in 1..MaxBuffers \cup {None} /\ x.file \in Nat \cup {None}
      /\ x.fd \in (0..SegmentSize) \cup {None}
      /\ x.file # None => At(x) \in Nat /\ At(x) >= x.file
  BY ClientFields
<1>6. x.queue # None => /\ x.queue \in Elements(order) /\ buffer[x.queue] # None
                        /\ x.queue # b /\ C[x.queue] = buffer[x.queue]
  BY <1>3, <1>5 DEF Placed
<1>. DEFINE n == Ahead(x, files, buffer)
<1>7. n \in Nat /\ n <= seqLong /\ seqLong - MaxBuffers < n
  <2>1. CASE x.queue = None
    <3>1. n = seqLong
      BY <2>1 DEF Ahead, Agrees
    <3>. QED
      BY <3>1, ConstantTypes
  <2>2. CASE x.queue # None
    <3>0. n = buffer[x.queue].packet.number
      BY <2>2 DEF Ahead
    <3>1. PICK i \in 1..Len(order) : x.queue = order[i]
      BY <1>6, <2>2 DEF Elements
    <3>2. /\ n = seqLong - 1 - (Len(order) - i) /\ Holds(files, buffer[x.queue].packet)
      BY <1>6, <2>2, <3>0, <3>1 DEF Recent, Agrees
    <3>3. n \in Nat
      BY <3>0, <3>2, HeldNumber
    <3>4. i > q /\ Len(order) \in Nat /\ Len(order) <= MaxBuffers
      BY <1>6, <2>2, <3>1, LinkedSize
    <3>. QED
      BY <3>2, <3>3, <3>4, ConstantTypes
  <2>. QED
    BY <2>1, <2>2
<1>. HIDE DEF N, b
<1>8. /\ f \in Client /\ f.queue = x.queue
      /\ f.file # None => InFile(f, G, n)
      /\ f.file # None <=> x.file # None
  <2>1. CASE x.file # None /\ x.file < N
    <3>1. f = [x EXCEPT !.file = N, !.fd = None]
      BY <1>1, <2>1 DEF Forced
    <3>2. /\ f \in Client /\ f.queue = x.queue /\ f.file = N /\ f.fd = None
      BY <1>1, <3>1 DEF Client
    <3>3. PICK i \in 1..Len(files) : files[i].name = x.file
      BY <2>1 DEF Placed, InFile
    <3>4. N + Base(Segments) = seqLong
      BY <1>1, <2>1, <3>3
    <3>. HIDE DEF n, f
    <3>5. At(f) = N /\ Base(Segments) \in Nat
      <4>1. At(f) = N
        BY <1>1, <3>2 DEF At
      <4>2. Base(Segments) \in Nat
        BY BaseStep, ConstantTypes
      <4>. QED
        BY <4>1, <4>2
    <3>6. N < n
      BY <1>1, <1>7, <3>4, <3>5, ConstantTypes
    <3>7. 1 \in 1..Len(G) /\ G[1].name = N
      BY <1>1 DEF N, Chain
    <3>8. InFile(f, G, n)
      BY <1>1, <1>7, <3>2, <3>5, <3>6, <3>7 DEF InFile
    <3>9. N # None
      BY <1>1, ConstantTypes
    <3>. QED
      BY <2>1, <3>2, <3>8, <3>9
  <2>2. CASE ~(x.file # None /\ x.file < N)
    <3>1. f = x
      BY <1>1, <2>2 DEF Forced
    <3>2. x.file # None => InFile(x, G, n)
      <4>1. SUFFICES ASSUME x.file # None PROVE InFile(x, G, n)
        OBVIOUS
      <4>2. InFile(x, files, n)
        BY <4>1 DEF Placed
      <4>. HIDE DEF n
      <4>3. PICK i \in 1..Len(files) :
              /\ files[i].name = x.file
              /\ x.fd # None => x.fd <= Stored(files, i) /\ x.seq = At(x) % Mod
        BY <4>2 DEF InFile
      <4>4. files[i].name >= N
        BY <1>1, <1>5, <2>2, <4>1, <4>3
      <4>5. PICK j \in 1..Len(G) : G[j].name = files[i].name /\ Stored(files, i) <= Stored(G, j)
        BY <1>1, <4>4
      <4>6. Stored(G, j) \in Nat /\ Stored(files, i) \in Nat
        BY <1>1, <4>3, <4>5, ChainRange
      <4>7. x.fd # None => x.fd <= Stored(G, j)
        BY <1>5, <4>3, <4>5, <4>6, ConstantTypes
      <4>. QED
        BY <4>2, <4>3, <4>5, <4>7 DEF InFile
    <3>. QED
      BY <3>1, <3>2
  <2>. QED
    BY <2>1, <2>2
<1>. HIDE DEF f
<1>9. f.file # None => At(f) \in Nat
  BY <1>8, ClientFields
<1>10. CASE y = f
  <2>1. y.queue # None => y.queue \in Elements(T) /\ C[y.queue] # None
    BY <1>4, <1>6, <1>8, <1>10
  <2>2. y.file # None => InFile(y, G, Ahead(y, G, C))
    <3>1. SUFFICES ASSUME y.file # None PROVE InFile(y, G, Ahead(y, G, C))
      OBVIOUS
    <3>2. InFile(f, G, n)
      BY <1>8, <1>10, <3>1
    <3>3. CASE x.queue # None
      <4>1. Ahead(y, G, C) = n
        BY <1>6, <1>8, <1>10, <3>3 DEF Ahead
      <4>. QED
        BY <1>10, <3>2, <4>1
    <3>4. CASE x.queue = None
      <4>1. Ahead(y, G, C) = seqLong + 1
        BY <1>1, <1>8, <1>10, <3>4 DEF Ahead
      <4>. HIDE DEF n
      <4>2. At(f) <= seqLong + 1 /\ At(f) # seqLong + 1
        BY <1>7, <1>9, <1>10, <3>1, <3>2 DEF InFile
      <4>. QED
        BY <1>10, <3>2, <4>1, <4>2 DEF InFile
    <3>. QED
      BY <3>3, <3>4
  <2>. QED
    BY <1>8, <1>10, <2>1, <2>2 DEF Placed
<1>11. CASE y # f
  <2>1. y = [f EXCEPT !.queue = IF @ = None THEN b ELSE @, !.ready = @ \/ f.done]
    BY <1>11 DEF Woken, f, b
  <2>. DEFINE u == IF f.queue = None THEN b ELSE f.queue
              r == f.ready \/ f.done
  <2>2. u \in 1..MaxBuffers /\ u # None
    BY <1>4, <1>5, <1>8, ConstantTypes
  <2>3. r \in BOOLEAN
    OBVIOUS
  <2>4. y = [f EXCEPT !.queue = u, !.ready = r]
    BY <1>8, <2>1 DEF Client
  <2>5. u \in Elements(T) /\ C[u] # None /\ C[u].packet.number = n
    <3>1. CASE x.queue = None
      <4>1. u = b
        BY <1>8, <3>1
      <4>2. n = seqLong
        BY <3>1 DEF Ahead, Agrees
      <4>. QED
        BY <1>3, <1>4, <4>1, <4>2
    <3>2. CASE x.queue # None
      BY <1>4, <1>6, <1>8, <3>2 DEF Ahead
    <3>. QED
      BY <3>1, <3>2
  <2>. HIDE DEF n, u, r
  <2>6. /\ y \in Client /\ y.queue = u /\ y.file = f.file /\ y.fd = f.fd /\ y.seq = f.seq
    BY <1>8, <2>2, <2>3, <2>4 DEF Client
  <2>7. Ahead(y, G, C) = n /\ At(y) = At(f)
    BY <2>2, <2>5, <2>6 DEF Ahead, At
  <2>8. y.file # None => InFile(y, G, n)
    BY <1>8, <2>6, <2>7 DEF InFile
  <2>. QED
    BY <2>2, <2>5, <2>6, <2>7, <2>8 DEF Placed
<1>. QED
  BY <1>10, <1>11
-----------------------------------------------------------------------------
\* The places that requests lead to.

LEMMA LeastIs ==
  ASSUME NEW S, S \subseteq Nat, S # {}
  PROVE  Least(S) \in S /\ \A y \in S : Least(S) <= y
<1>1. \E x \in S : \A y \in S : ~(<<y, x>> \in OpToRel(<, Nat))
  BY NatLessThanWellFounded, WFMin
<1>2. \E x \in S : \A y \in S : ~(y < x)
  BY <1>1 DEF OpToRel
<1>3. \E x \in S : \A y \in S : x <= y
  BY <1>2
<1>. QED
  BY <1>3 DEF Least

\* find_packet_in_bufferstore() finds nothing but what it is asked for.
LEMMA InMemorySound ==
  ASSUME Linked(order), Leading(order, buffer, first), NEW m, InMemory(m) # None
  PROVE  \E i \in 1..Len(order) :
           /\ InMemory(m) = order[i] /\ buffer[order[i]] # None /\ buffer[order[i]].seq = m
<1>. DEFINE S == {i \in Place(first)..Len(order) :
                    buffer[order[i]] # None /\ buffer[order[i]].seq = m}
<1>1. first # None /\ S # {} /\ InMemory(m) = order[Least(S)]
  BY DEF InMemory
<1>2. first \in Ring
  BY <1>1 DEF Leading, Ring, Elements
<1>3. Place(first) \in 1..Len(order) /\ Len(order) \in Nat
  BY <1>2, RingPlace, LinkedSize
<1>4. S \subseteq 1..Len(order) /\ S \subseteq Nat
  BY <1>3
<1>5. Least(S) \in S
  BY <1>1, <1>4, LeastIs
<1>. QED
  BY <1>1, <1>4, <1>5

\* It finds what comes from the first packet on.
LEMMA InMemoryFinds ==
  ASSUME Linked(order), Agrees, seqLong \in Nat, first # None, NEW n \in Nat,
         buffer[first].packet.number <= n, n < seqLong
  PROVE  InMemory(n % Mod) # None
<1>. DEFINE m == n % Mod
            S == {i \in Place(first)..Len(order) :
                    buffer[order[i]] # None /\ buffer[order[i]].seq = m}
            k == Place(first)
            j == Len(order) - (seqLong - 1 - n)
<1>1. first \in Ring /\ buffer[first] # None
  BY DEF Agrees, Leading, Ring, Elements
<1>2. k \in 1..Len(order) /\ order[k] = first /\ Len(order) \in Nat
  BY <1>1, RingPlace, LinkedSize
<1>. HIDE DEF k
<1>3. /\ \A i \in k..Len(order) : buffer[order[i]] # None
      /\ buffer[first].packet.number = seqLong - 1 - (Len(order) - k)
  BY <1>1, <1>2 DEF Agrees, Recent
<1>4. j \in k..Len(order) /\ j \in 1..Len(order) /\ seqLong - 1 - (Len(order) - j) = n
  BY <1>2, <1>3
<1>. HIDE DEF j
<1>5. /\ buffer[order[j]] # None
      /\ buffer[order[j]].packet.number = n /\ buffer[order[j]].seq = n % Mod
  <2>1. buffer[order[j]] # None
    BY <1>3, <1>4
  <2>2. /\ buffer[order[j]].packet.number = seqLong - 1 - (Len(order) - j)
        /\ buffer[order[j]].seq = buffer[order[j]].packet.number % Mod
    BY <1>4, <2>1 DEF Agrees, Recent
  <2>. QED
    BY <1>4, <2>1, <2>2
<1>6. j \in S
  BY <1>4, <1>5 DEF k
<1>7. S \subseteq 1..Len(order) /\ S \subseteq Nat /\ S # {}
  BY <1>2, <1>6 DEF k
<1>8. Least(S) \in 1..Len(order)
  BY <1>7, LeastIs
<1>9. order[Least(S)] \in 1..MaxBuffers
  BY <1>8, LinkedTypes
<1>10. InMemory(m) = order[Least(S)]
  BY <1>7 DEF InMemory
<1>. QED
  BY <1>9, <1>10, ConstantTypes

WellPlaced(p) ==
  /\ p.queue \in 1..MaxBuffers \cup {None} /\ p.file \in Nat \cup {None}
  /\ p.fd \in (0..SegmentSize) \cup {None} /\ p.seq \in SeqNumbers /\ p.number \in Nat
  /\ Placed(p, files, buffer, order)

LEMMA InBufferPlaced ==
  ASSUME Linked(order), Agrees, seqLong \in Nat, Chain(files), NEW m \in SeqNumbers,
         InMemory(m) # None, NEW p, p = InBuffer(InMemory(m))
  PROVE  WellPlaced(p) /\ p.seq = m /\ p.number % Mod = m /\ p.number < seqLong
         /\ p.number = buffer[p.queue].packet.number /\ p.queue # None /\ p.file = None
<1>1. Leading(order, buffer, first)
  BY DEF Agrees
<1>2. PICK i \in 1..Len(order) :
        /\ InMemory(m) = order[i] /\ buffer[order[i]] # None /\ buffer[order[i]].seq = m
  BY <1>1, InMemorySound
<1>3. order[i] \in 1..MaxBuffers /\ order[i] \in Elements(order)
  BY <1>2, LinkedTypes DEF Elements
<1>4. /\ buffer[order[i]].seq = buffer[order[i]].packet.number % Mod
      /\ Holds(files, buffer[order[i]].packet)
  BY <1>2 DEF Agrees, Recent
<1>5. buffer[order[i]].packet.number \in Nat /\ buffer[order[i]].packet.number < seqLong
  BY <1>4, HeldNumber DEF Agrees
<1>6. /\ p.queue = order[i] /\ p.file = None /\ p.fd = None /\ p.seq = m
      /\ p.number = buffer[order[i]].packet.number
  BY <1>2 DEF InBuffer
<1>. QED
  BY <1>2, <1>3, <1>4, <1>5, <1>6, ConstantTypes DEF WellPlaced, Placed

LEMMA NowherePlaced ==
  ASSUME Agrees, seqLong \in Nat
  PROVE  WellPlaced(Nowhere)
<1>1. /\ Nowhere.queue = None /\ Nowhere.file = None /\ Nowhere.fd = None
      /\ Nowhere.seq = seq /\ Nowhere.number = seqLong
  BY DEF Nowhere
<1>2. seqLong % Mod \in SeqNumbers
  BY ModRange
<1>3. seq \in SeqNumbers
  BY <1>2 DEF Agrees
<1>. QED
  BY <1>1, <1>3 DEF WellPlaced, Placed

\* The first packet in memory is on disk, or there is none.
LEMMA FirstPlaced ==
  ASSUME Linked(order), Agrees, seqLong \in Nat, Chain(files)
  PROVE  /\ first \in 1..MaxBuffers \cup {None}
         /\ first # None => /\ first \in Elements(order) /\ buffer[first] # None
                            /\ buffer[first].seq = buffer[first].packet.number % Mod
                            /\ Holds(files, buffer[first].packet)
                            /\ buffer[first].packet.number \in Nat
                            /\ buffer[first].packet.number < seqLong
                            /\ files # <<>> /\ files[1].name <= buffer[first].packet.number
<1>1. first # None => first \in Elements(order) /\ buffer[first] # None
  BY DEF Agrees, Leading
<1>2. ASSUME first # None
      PROVE  /\ buffer[first].seq = buffer[first].packet.number % Mod
             /\ Holds(files, buffer[first].packet)
  <2>1. PICK i \in 1..Len(order) : first = order[i]
    BY <1>1, <1>2 DEF Elements
  <2>. QED
    BY <1>1, <1>2, <2>1 DEF Agrees, Recent
<1>3. ASSUME first # None
      PROVE  /\ buffer[first].packet.number \in Nat /\ buffer[first].packet.number < seqLong
             /\ files # <<>> /\ files[1].name <= buffer[first].packet.number
  BY <1>2, <1>3, HeldNumber DEF Agrees
<1>4. Elements(order) \subseteq 1..MaxBuffers
  BY LinkedSize
<1>. QED
  BY <1>1, <1>2, <1>3, <1>4

LEMMA OldestPlaced ==
  ASSUME Linked(order), Agrees, seqLong \in Nat, Chain(files)
  PROVE  /\ WellPlaced(Oldest)
         /\ Oldest.number <= seqLong
         /\ files # <<>> => Oldest.seq = files[1].name % Mod /\ Oldest.number % Mod = Oldest.seq
<1>. DEFINE m == files[1].seq
<1>1. /\ first \in 1..MaxBuffers \cup {None}
      /\ first # None => /\ first \in Elements(order) /\ buffer[first] # None
                         /\ buffer[first].packet.number \in Nat
                         /\ files # <<>> /\ files[1].name <= buffer[first].packet.number
  BY FirstPlaced
<1>2. CASE files = <<>>
  <2>1. Oldest = [Nowhere EXCEPT !.queue = first, !.seq = 0]
    BY <1>2 DEF Oldest
  <2>2. /\ Oldest.queue = first /\ Oldest.file = None /\ Oldest.fd = None /\ Oldest.seq = 0
        /\ Oldest.number = seqLong
    BY <2>1 DEF Nowhere
  <2>3. 0 \in SeqNumbers
    BY ConstantTypes, RingFits DEF SeqNumbers
  <2>. QED
    BY <1>1, <1>2, <2>2, <2>3 DEF WellPlaced, Placed
<1>3. CASE files # <<>>
  <2>1. 1 \in 1..Len(files)
    <3>1. files \in Seq(File)
      BY DEF Chain
    <3>. QED
      BY <1>3, <3>1
  <2>2. /\ files[1].name \in Nat /\ m \in SeqNumbers /\ m = files[1].name % Mod
        /\ Stored(files, 1) \in Nat /\ files[1].name + Stored(files, 1) <= Behind(files)
    BY <2>1, ChainRange, FileTypes DEF Chain
  <2>3. CASE InMemory(m) # None
    <3>1. Oldest = InBuffer(InMemory(m))
      BY <1>3, <2>3 DEF Oldest
    <3>2. /\ WellPlaced(Oldest) /\ Oldest.seq = m /\ Oldest.number % Mod = m
          /\ Oldest.number < seqLong
      BY <2>2, <2>3, <3>1, InBufferPlaced
    <3>3. Oldest.number <= seqLong
      BY <3>2 DEF WellPlaced
    <3>. QED
      BY <2>2, <3>2, <3>3
  <2>4. CASE InMemory(m) = None
    <3>. DEFINE p == Oldest
    <3>1. Oldest = [queue |-> first, file |-> files[1].name, fd |-> None, seq |-> m,
                    number |-> files[1].name]
      BY <1>3, <2>4 DEF Oldest
    <3>2. /\ p.queue = first /\ p.file = files[1].name /\ p.fd = None /\ p.seq = m
          /\ p.number = files[1].name
      BY <3>1
    <3>. HIDE DEF p, m
    <3>3. At(p) = files[1].name
      BY <2>2, <3>2 DEF At
    <3>4. files[1].name <= Ahead(p, files, buffer)
      <4>1. files[1].name <= Behind(files)
        BY <2>2 DEF Agrees
      <4>. QED
        BY <1>1, <3>2, <4>1 DEF Ahead
    <3>5. InFile(p, files, Ahead(p, files, buffer))
      BY <2>1, <2>2, <3>2, <3>3, <3>4 DEF InFile
    <3>6. Placed(p, files, buffer, order)
      BY <1>1, <3>2, <3>5 DEF Placed
    <3>7. WellPlaced(p)
      BY <1>1, <2>2, <3>2, <3>6 DEF WellPlaced
    <3>8. files[1].name <= seqLong
      BY <2>2 DEF Agrees
    <3>. QED
      BY <2>2, <3>2, <3>7, <3>8 DEF p
  <2>. QED
    BY <2>3, <2>4
<1>. QED
  BY <1>2, <1>3

LEMMA FoundPlaced ==
  ASSUME Linked(order), Agrees, seqLong \in Nat, Chain(files), NEW m \in SeqNumbers
  PROVE  WellPlaced(FindPacket(m))
<1>1. CASE InMemory(m) # None
  <2>1. FindPacket(m) = InBuffer(InMemory(m))
    BY <1>1 DEF FindPacket
  <2>. QED
    BY <1>1, <2>1, InBufferPlaced
<1>2. CASE InMemory(m) = None /\ FileWith(m) # 0
  <2>. DEFINE p == FindPacket(m)
              i == FileWith(m)
              d == Offset(i, m)
  <2>1. p = [queue |-> first, file |-> files[i].name, fd |-> d, seq |-> m,
             number |-> files[i].name + d]
    BY <1>2 DEF FindPacket
  <2>2. /\ p.queue = first /\ p.file = files[i].name /\ p.fd = d /\ p.seq = m
        /\ p.number = files[i].name + d
    BY <2>1
  <2>3. /\ i \in 1..Len(files) /\ d \in Nat /\ d < Size(i) /\ (files[i].name + d) % Mod = m
    BY <1>2, FileWithSound
  <2>4. /\ files[i].name \in Nat /\ Stored(files, i) \in 0..SegmentSize /\ d < Stored(files, i)
        /\ files[i].name + Stored(files, i) <= seqLong
    BY <2>3, ChainRange DEF Size, Stored, Agrees
  <2>. DEFINE n == files[i].name + d
  <2>5. n \in Nat /\ n < seqLong /\ n % Mod = m /\ d \in 0..SegmentSize /\ d # None
    BY <2>3, <2>4, ConstantTypes
  <2>. HIDE DEF p, i, d
  <2>6. At(p) = n
    BY <2>2, <2>5 DEF At
  <2>7. /\ first \in 1..MaxBuffers \cup {None}
        /\ first # None => /\ first \in Elements(order) /\ buffer[first] # None
                           /\ buffer[first].packet.number \in Nat
    BY FirstPlaced
  <2>. HIDE DEF n
  <2>8. n <= Ahead(p, files, buffer)
    <3>1. CASE first = None
      <4>1. Ahead(p, files, buffer) = seqLong
        BY <2>2, <3>1 DEF Ahead, Agrees
      <4>. QED
        BY <2>5, <4>1
    <3>2. CASE first # None
      <4>1. Ahead(p, files, buffer) = buffer[first].packet.number
        BY <2>2, <3>2 DEF Ahead
      <4>2. ~(buffer[first].packet.number <= n)
        BY <1>2, <2>5, <3>2, InMemoryFinds
      <4>. QED
        BY <2>5, <2>7, <3>2, <4>1, <4>2
    <3>. QED
      BY <3>1, <3>2
  <2>9. InFile(p, files, Ahead(p, files, buffer))
    BY <2>2, <2>3, <2>4, <2>5, <2>6, <2>8 DEF InFile
  <2>10. Placed(p, files, buffer, order)
    BY <2>2, <2>7, <2>9 DEF Placed
  <2>11. p.number \in Nat
    BY <2>2, <2>5 DEF n
  <2>12. WellPlaced(p)
    BY <2>2, <2>4, <2>5, <2>7, <2>10, <2>11 DEF WellPlaced
  <2>. QED
    BY <2>12 DEF p
<1>3. CASE InMemory(m) = None /\ FileWith(m) = 0
  <2>1. FindPacket(m) \in {Nowhere, Oldest}
    BY <1>3 DEF FindPacket
  <2>. QED
    BY <2>1, NowherePlaced, OldestPlaced
<1>. QED
  BY <1>1, <1>2, <1>3
-----------------------------------------------------------------------------
\* The rounds of do_deliver().

LEMMA FileAtIs ==
  ASSUME Chain(files), NEW c \in Clients, sx \in [Clients -> Client], sx[c].file # None,
         Placed(sx[c], files, buffer, order)
  PROVE  \E i \in 1..Len(files) :
           /\ IndexOf(sx[c].file) = i /\ FileAt(c) = files[i] /\ files[i].name = sx[c].file
           /\ Len(FileAt(c).packets) = Stored(files, i)
           /\ ReadAt(c) \in Nat /\ ReadAt(c) <= Stored(files, i)
           /\ At(sx[c]) = sx[c].file + ReadAt(c) /\ At(sx[c]) = Unread(c)
           /\ SeqAt(c) = At(sx[c]) % Mod
<1>. DEFINE x == sx[c]
<1>1. x \in Client /\ x.file \in Nat /\ x.fd \in (0..SegmentSize) \cup {None}
  <2>1. x \in Client
    OBVIOUS
  <2>. QED
    BY <2>1, ClientFields
<1>2. InFile(x, files, Ahead(x, files, buffer))
  BY DEF Placed
<1>3. PICK i \in 1..Len(files) :
        /\ files[i].name = x.file
        /\ x.fd # None => x.fd <= Stored(files, i) /\ x.seq = At(x) % Mod
  BY <1>2 DEF InFile
<1>4. IndexOf(x.file) = i
  BY <1>3, IndexOfIs
<1>5. FileAt(c) = files[i] /\ Len(FileAt(c).packets) = Stored(files, i)
  BY <1>4 DEF FileAt, Stored
<1>6. Stored(files, i) \in Nat
  BY ChainRange
<1>7. ReadAt(c) = IF x.fd = None THEN 0 ELSE x.fd
  BY DEF ReadAt
<1>8. ReadAt(c) \in Nat /\ ReadAt(c) <= Stored(files, i)
  BY <1>1, <1>3, <1>6, <1>7, ConstantTypes
<1>9. At(x) = x.file + ReadAt(c) /\ At(x) = Unread(c)
  BY <1>3, <1>5, <1>7 DEF At, Unread
<1>10. SeqAt(c) = At(x) % Mod
  <2>1. CASE x.fd = None
    <3>1. SeqAt(c) = files[i].seq /\ files[i].seq = files[i].name % Mod
      BY <1>5, <2>1 DEF SeqAt, Chain
    <3>2. At(x) = files[i].name
      BY <1>1, <1>3, <2>1 DEF At
    <3>. QED
      BY <3>1, <3>2
  <2>2. CASE x.fd # None
    BY <1>3, <2>2 DEF SeqAt
  <2>. QED
    BY <2>1, <2>2
<1>. QED
  BY <1>3, <1>4, <1>5, <1>8, <1>9, <1>10

\* A round leaves the other clients alone and the cursor of this one in place.
Moves(c) ==
  /\ sx'[c] \in Client /\ Placed(sx'[c], files, buffer, order)
  /\ sx' \in [Clients -> Client] /\ \A d \in Clients \ {c} : sx'[d] = sx[d]

LEMMA MovesIs ==
  ASSUME NEW c \in Clients, sx \in [Clients -> Client], NEW y \in Client,
         Placed(y, files, buffer, order), sx' = [sx EXCEPT ![c] = y]
  PROVE  Moves(c) /\ sx'[c] = y
<1>1. sx'[c] = y /\ sx' \in [Clients -> Client] /\ \A d \in Clients \ {c} : sx'[d] = sx[d]
  OBVIOUS
<1>. QED
  BY <1>1 DEF Moves

LEMMA SwitchMoves ==
  ASSUME NEW c \in Clients, sx \in [Clients -> Client],
         Placed(sx[c], files, buffer, order), SwitchToMemory(c)
  PROVE  Moves(c) /\ sx'[c].queue = sx[c].queue /\ sx'[c].file = None
<1>. DEFINE x == sx[c]
            y == [x EXCEPT !.file = None, !.fd = None]
<1>1. sx' = [sx EXCEPT ![c] = y]
  BY DEF SwitchToMemory
<1>2. x \in Client
  OBVIOUS
<1>3. y \in Client /\ y.queue = x.queue /\ y.file = None
  BY <1>2 DEF Client
<1>. HIDE DEF y
<1>4. Placed(y, files, buffer, order)
  BY <1>3 DEF Placed
<1>. QED
  BY <1>1, <1>3, <1>4, MovesIs

LEMMA EndOfFileMoves ==
  ASSUME NEW c \in Clients, sx \in [Clients -> Client], Chain(files), Agrees, seqLong \in Nat,
         Placed(sx[c], files, buffer, order), EndOfFile(c)
  PROVE  /\ Moves(c) /\ sx'[c].queue = sx[c].queue
         /\ sx'[c].file # None => At(sx'[c]) = At(sx[c])
         /\ sx'[c].file = None => At(sx[c]) = seqLong
<1>. DEFINE x == sx[c]
            z == FileAfter(x.file)
            t == SeqAt(c)
            y == [x EXCEPT !.file = z, !.fd = None, !.seq = t]
<1>1. /\ sx' = [sx EXCEPT ![c] = y]
      /\ x.file # None /\ ReadAt(c) = Len(FileAt(c).packets)
  BY DEF EndOfFile
<1>2. PICK i \in 1..Len(files) :
           /\ IndexOf(x.file) = i /\ files[i].name = x.file
           /\ Len(FileAt(c).packets) = Stored(files, i)
           /\ At(x) = x.file + ReadAt(c)
           /\ t = At(x) % Mod
  BY <1>1, FileAtIs
<1>3. x \in Client
  OBVIOUS
<1>4. x.file \in Nat /\ x.fd \in (0..SegmentSize) \cup {None} /\ At(x) \in Nat
  BY <1>1, <1>3, ClientFields
<1>5. t \in SeqNumbers
  BY <1>2, <1>4, ModRange
<1>6. At(x) = files[i].name + Stored(files, i)
  BY <1>1, <1>2
<1>7. files \in Seq(File) /\ Len(files) \in Nat
  BY DEF Chain
<1>8. z = IF i = Len(files) THEN None ELSE files[i + 1].name
  BY <1>2 DEF FileAfter
<1>9. CASE i = Len(files)
  <2>1. z = None /\ At(x) = seqLong
    <3>1. files # <<>>
      BY ChainRange
    <3>. QED
      BY <1>6, <1>8, <1>9, <3>1 DEF Agrees, Behind
  <2>. HIDE DEF z, t
  <2>2. y \in Client /\ y.queue = x.queue /\ y.file = None
    BY <1>3, <1>5, <2>1 DEF Client
  <2>. HIDE DEF y
  <2>3. Placed(y, files, buffer, order)
    BY <2>2 DEF Placed
  <2>. QED
    BY <1>1, <2>1, <2>2, <2>3, MovesIs
<1>10. CASE i # Len(files)
  <2>1. i + 1 \in 1..Len(files) /\ i < Len(files)
    BY <1>2, <1>7, <1>10
  <2>2. /\ files[i + 1].name = files[i].name + SegmentSize
        /\ Stored(files, i) = SegmentSize
    BY <2>1, ChainOrder DEF Chain
  <2>3. z = At(x) /\ z = files[i + 1].name
    BY <1>6, <1>8, <1>10, <2>2
  <2>. HIDE DEF z, t
  <2>4. y \in Client /\ y.queue = x.queue /\ y.file = z /\ y.fd = None /\ y.seq = t
    BY <1>3, <1>4, <1>5, <2>3 DEF Client
  <2>. HIDE DEF y
  <2>5. At(y) = At(x)
    BY <1>4, <2>3, <2>4 DEF At
  <2>. DEFINE n == Ahead(x, files, buffer)
  <2>6. Ahead(y, files, buffer) = n
    BY <2>4 DEF Ahead
  <2>. HIDE DEF n
  <2>7. InFile(x, files, n)
    BY <1>1 DEF Placed, n
  <2>8. At(x) <= n /\ (At(x) = n => y.seq = n % Mod)
    BY <1>2, <2>4, <2>7 DEF InFile
  <2>9. InFile(y, files, n)
    BY <2>1, <2>3, <2>4, <2>5, <2>8 DEF InFile
  <2>10. Placed(y, files, buffer, order)
    BY <2>4, <2>6, <2>9 DEF Placed
  <2>11. z # None
    BY <1>4, <2>3, ConstantTypes
  <2>. QED
    BY <1>1, <2>4, <2>5, <2>10, <2>11, MovesIs
<1>. QED
  BY <1>9, <1>10

LEMMA ReadFileMoves ==
  ASSUME NEW c \in Clients, sx \in [Clients -> Client], Chain(files), Agrees, seqLong \in Nat,
         Linked(order), Placed(sx[c], files, buffer, order), ReadFile(c)
  PROVE  /\ Moves(c) /\ sx'[c].queue = sx[c].queue /\ sx'[c].file # None
         /\ At(sx'[c]) = At(sx[c]) + 1 /\ At(sx[c]) < Ahead(sx[c], files, buffer)
         /\ FileAt(c).packets[ReadAt(c) + 1].number = At(sx[c])
         /\ FileAt(c).packets[ReadAt(c) + 1] \in Packet
         /\ Holds(files, FileAt(c).packets[ReadAt(c) + 1])
<1>. DEFINE x == sx[c]
            d == ReadAt(c) + 1
            t == Next1(SeqAt(c))
            y == [x EXCEPT !.fd = d, !.seq = t]
            n == Ahead(x, files, buffer)
<1>1. /\ sx' = [sx EXCEPT ![c] = y] /\ ~Reached(c)
      /\ x.file # None /\ ReadAt(c) < Len(FileAt(c).packets)
  BY DEF ReadFile
<1>2. PICK i \in 1..Len(files) :
           /\ FileAt(c) = files[i] /\ files[i].name = x.file
           /\ Len(FileAt(c).packets) = Stored(files, i)
           /\ ReadAt(c) \in Nat
           /\ At(x) = x.file + ReadAt(c)
           /\ SeqAt(c) = At(x) % Mod
  BY <1>1, FileAtIs
<1>3. x \in Client
  OBVIOUS
<1>4. x.file \in Nat /\ x.fd \in (0..SegmentSize) \cup {None} /\ At(x) \in Nat
  BY <1>1, <1>3, ClientFields
<1>5. t = (At(x) + 1) % Mod
  <2>1. Next1(At(x) % Mod) = (At(x) + 1) % Mod
    BY <1>4, Next1Is
  <2>. QED
    BY <1>2, <2>1
<1>6. t \in SeqNumbers
  BY <1>4, <1>5, ModRange
<1>7. Stored(files, i) \in 0..SegmentSize /\ files[i].name + Stored(files, i) <= seqLong
  BY ChainRange DEF Agrees
<1>8. d \in 0..SegmentSize /\ d \in 1..Stored(files, i) /\ d # None
  <2>1. d \in Nat /\ 1 <= d /\ d <= Stored(files, i)
    BY <1>1, <1>2, <1>7
  <2>2. Stored(files, i) \in Nat /\ Stored(files, i) <= SegmentSize /\ SegmentSize \in Nat
    BY <1>7, ConstantTypes
  <2>. HIDE DEF d
  <2>. QED
    BY <2>1, <2>2, ConstantTypes
<1>9. d = ReadAt(c) + 1 /\ At(x) = files[i].name + d - 1 /\ At(x) < seqLong
  BY <1>1, <1>2, <1>4, <1>7
<1>10. InFile(x, files, n)
  BY <1>1 DEF Placed
<1>11. n \in Nat /\ At(x) < n
  <2>1. CASE x.queue = None
    BY <1>9, <2>1 DEF Ahead, Agrees
  <2>2. CASE x.queue # None
    <3>1. x.queue \in Elements(order) /\ buffer[x.queue] # None
      BY <2>2 DEF Placed
    <3>2. PICK j \in 1..Len(order) : x.queue = order[j]
      BY <3>1 DEF Elements
    <3>3. /\ buffer[x.queue].seq = buffer[x.queue].packet.number % Mod
          /\ Holds(files, buffer[x.queue].packet)
      BY <3>1, <3>2 DEF Agrees, Recent
    <3>4. n = buffer[x.queue].packet.number /\ n \in Nat
      BY <2>2, <3>3, HeldNumber DEF Ahead
    <3>. HIDE DEF n
    <3>5. At(x) # n
      BY <1>1, <1>10, <2>2, <3>1, <3>3, <3>4 DEF InFile, Reached
    <3>. QED
      BY <1>4, <1>10, <3>4, <3>5 DEF InFile
  <2>. QED
    BY <2>1, <2>2
<1>. HIDE DEF d, t, n
<1>12. y \in Client /\ y.queue = x.queue /\ y.file = x.file /\ y.fd = d /\ y.seq = t
  BY <1>3, <1>6, <1>8 DEF Client
<1>. HIDE DEF y
<1>13. At(y) = At(x) + 1
  BY <1>2, <1>4, <1>8, <1>9, <1>12 DEF At
<1>14. InFile(y, files, n)
  <2>1. At(y) <= n /\ y.seq = At(y) % Mod
    BY <1>4, <1>5, <1>11, <1>12, <1>13
  <2>2. y.fd <= Stored(files, i)
    BY <1>8, <1>12
  <2>. QED
    BY <1>2, <1>12, <2>1, <2>2 DEF InFile
<1>15. Ahead(y, files, buffer) = n
  BY <1>12 DEF Ahead, n
<1>16. Placed(y, files, buffer, order)
  <2>1. x.queue # None => x.queue \in Elements(order) /\ buffer[x.queue] # None
    BY DEF Placed
  <2>. QED
    BY <1>12, <1>14, <1>15, <2>1 DEF Placed
<1>17. files[i].packets[d].number = At(x) /\ Holds(files, files[i].packets[d])
  BY <1>8, <1>9, HeldAt
<1>18. files[i].packets[d] \in Packet
  BY <1>17, HeldNumber
<1>19. Moves(c) /\ sx'[c] = y
  BY <1>1, <1>12, <1>16, MovesIs
<1>. QED
  BY <1>1, <1>2, <1>11, <1>12, <1>13, <1>17, <1>18, <1>19 DEF d, n

LEMMA ReadMemoryMoves ==
  ASSUME NEW c \in Clients, sx \in [Clients -> Client], Chain(files), Agrees, seqLong \in Nat,
         Linked(order), Placed(sx[c], files, buffer, order), ReadMemory(c)
  PROVE  /\ Moves(c) /\ sx'[c].file = None /\ sx'[c].queue = NextOf(sx[c].queue)
         /\ sx[c].queue \in Elements(order) /\ buffer[sx[c].queue] # None
         /\ buffer[sx[c].queue].packet \in Packet /\ Holds(files, buffer[sx[c].queue].packet)
         /\ Send(c, buffer[sx[c].queue].packet)
         /\ Ahead(sx'[c], files, buffer) = Ahead(sx[c], files, buffer) + 1
<1>. DEFINE x == sx[c]
            b == x.queue
            z == NextOf(b)
            t == Next1(buffer[b].seq)
            y == [x EXCEPT !.queue = z, !.seq = t]
<1>1. x.queue # None /\ x.file = None
  BY DEF ReadMemory
<1>2. b \in Elements(order) /\ buffer[b] # None
  BY <1>1 DEF Placed
<1>3. sx' = [sx EXCEPT ![c] = y] /\ Send(c, buffer[b].packet)
  BY <1>2 DEF ReadMemory
<1>4. Recent(files, buffer, order, seqLong)
  BY DEF Agrees
<1>5. PICK j \in 1..Len(order) : b = order[j]
  BY <1>2 DEF Elements
<1>6. /\ buffer[b].seq = buffer[b].packet.number % Mod
      /\ Holds(files, buffer[b].packet)
  BY <1>2, <1>4, <1>5 DEF Recent
<1>7. buffer[b].packet.number \in Nat /\ buffer[b].packet \in Packet
  BY <1>6, HeldNumber
<1>8. t \in SeqNumbers
  <2>. DEFINE v == buffer[b].packet.number
  <2>1. v \in Int /\ buffer[b].seq = v % Mod
    BY <1>6, <1>7
  <2>. HIDE DEF v
  <2>2. Next1(v % Mod) = (v + 1) % Mod
    BY <2>1, Next1Is
  <2>3. v + 1 \in Int
    BY <2>1
  <2>4. (v + 1) % Mod \in SeqNumbers
    BY <2>3, ModRange
  <2>. QED
    BY <2>1, <2>2, <2>4
<1>9. /\ z = None => buffer[b].packet.number = seqLong - 1
      /\ z # None => /\ z \in Elements(order) /\ z \in 1..MaxBuffers /\ buffer[z] # None
                     /\ buffer[z].packet.number = buffer[b].packet.number + 1
  BY <1>2, <1>4, NextPacket
<1>10. x \in Client /\ z \in 1..MaxBuffers \cup {None}
  BY <1>9
<1>. HIDE DEF t, z
<1>11. y \in Client /\ y.queue = z /\ y.file = None
  BY <1>1, <1>8, <1>10 DEF Client
<1>. HIDE DEF y
<1>12. Placed(y, files, buffer, order)
  BY <1>9, <1>11 DEF Placed
<1>13. Moves(c) /\ sx'[c] = y
  BY <1>3, <1>11, <1>12, MovesIs
<1>14. Ahead(y, files, buffer) = buffer[b].packet.number + 1
  <2>1. CASE z = None
    BY <1>7, <1>9, <1>11, <2>1 DEF Ahead, Agrees
  <2>2. CASE z # None
    BY <1>9, <1>11, <2>2 DEF Ahead
  <2>. QED
    BY <2>1, <2>2
<1>15. Ahead(x, files, buffer) = buffer[b].packet.number
  BY <1>1 DEF Ahead
<1>. QED
  BY <1>2, <1>3, <1>6, <1>7, <1>11, <1>13, <1>14, <1>15 DEF z

LEMMA NothingLeftMoves ==
  ASSUME NEW c \in Clients, sx \in [Clients -> Client],
         Placed(sx[c], files, buffer, order), NothingLeft(c)
  PROVE  Moves(c) /\ sx'[c].queue = None /\ sx'[c].file = None
<1>. DEFINE x == sx[c]
            y == [x EXCEPT !.ready = FALSE, !.active = x.realtime]
<1>1. sx' = [sx EXCEPT ![c] = y] /\ x.queue = None /\ x.file = None
  BY DEF NothingLeft
<1>2. x \in Client /\ x.realtime \in BOOLEAN
  <2>1. x \in Client
    OBVIOUS
  <2>. QED
    BY <2>1, ClientFields
<1>3. y \in Client /\ y.queue = None /\ y.file = None
  BY <1>1, <1>2 DEF Client
<1>. HIDE DEF y
<1>4. Placed(y, files, buffer, order)
  BY <1>3 DEF Placed
<1>. QED
  BY <1>1, <1>3, <1>4, MovesIs
-----------------------------------------------------------------------------
\* The invariant, action by action.  Memory is not enlarged when it is full, and what
\* it holds fits into the files that are never deleted for a new one.

DiskOutlasts == ~GrowsFull /\ MaxBuffers <= (Segments - 1) * SegmentSize
Inv == StoreInv /\ ClientInv

LEMMA MemoryTypes ==
  Linked(order) /\ Agrees /\ seqLong \in Nat /\ buffer \in [1..MaxBuffers -> Content]
    => MemoryType
<1>. SUFFICES ASSUME Linked(order), Agrees, seqLong \in Nat, buffer \in [1..MaxBuffers -> Content]
              PROVE  MemoryType
  OBVIOUS
<1>1. /\ first \in 1..MaxBuffers \cup {None} /\ free \in 1..MaxBuffers \cup {None}
      /\ held \subseteq Ring
  BY PointerTypes DEF Agrees
<1>2. seqLong % Mod \in SeqNumbers
  BY ModRange
<1>3. seq \in SeqNumbers
  BY <1>2 DEF Agrees
<1>. QED
  BY <1>1, <1>3 DEF MemoryType

\* What the invariant says while the server is up, and what makes it hold again.
LEMMA InvIs ==
  Inv => /\ MemoryType /\ ServerType /\ ClientType
         /\ Chain(files) /\ Linked(order) /\ Start <= seqLong /\ seqLong \in Nat
         /\ Behind(files) <= seqLong
         /\ buffer \in [1..MaxBuffers -> Content] /\ sx \in [Clients -> Client]
         /\ phase # "down" => Agrees
         /\ ~aborted
         /\ \A c \in Clients : sx[c] \in Client /\ Placed(sx[c], files, buffer, order)
  BY TypesIn DEF Inv, StoreInv, ClientInv, MemoryType, ServerType, ClientType

UpParts ==
  /\ Chain(files) /\ Linked(order) /\ Start <= seqLong /\ seqLong \in Nat /\ phase = "up"
  /\ Agrees /\ buffer \in [1..MaxBuffers -> Content] /\ ServerType /\ ClientType /\ ~aborted
  /\ \A c \in Clients : Placed(sx[c], files, buffer, order)

LEMMA InvUp == UpParts => Inv
<1>. SUFFICES ASSUME UpParts
              PROVE  Inv
  OBVIOUS
<1>. /\ Chain(files) /\ Linked(order) /\ Start <= seqLong /\ seqLong \in Nat
     /\ phase = "up" /\ Agrees /\ buffer \in [1..MaxBuffers -> Content] /\ ServerType
     /\ ClientType /\ ~aborted /\ \A c \in Clients : Placed(sx[c], files, buffer, order)
  BY DEF UpParts
<1>1. MemoryType
  BY MemoryTypes
<1>2. TypeOK
  BY <1>1, TypesOut
<1>3. Behind(files) <= seqLong
  BY DEF Agrees
<1>4. StoreInv
  BY <1>2, <1>3 DEF StoreInv
<1>5. ClientInv
  BY DEF ClientInv
<1>. QED
  BY <1>4, <1>5 DEF Inv

LEMMA GetBufferInv ==
  ASSUME Inv, GetBuffer
  PROVE  Inv'
<1>1. /\ Chain(files) /\ Linked(order) /\ Start <= seqLong /\ seqLong \in Nat
      /\ buffer \in [1..MaxBuffers -> Content] /\ sx \in [Clients -> Client]
      /\ ~aborted /\ ServerType /\ ClientType /\ phase = "up" /\ Agrees
      /\ \A c \in Clients : sx[c] \in Client /\ Placed(sx[c], files, buffer, order)
  BY InvIs DEF GetBuffer
<1>2. /\ Cardinality(held) < Streams
      /\ held' = held \cup {free} /\ free' = NextOf(free)
      /\ first' = IF first = free THEN NextOf(free) ELSE first
      /\ buffer' = [buffer EXCEPT ![free] = None]
      /\ sx' = IF buffer[free] = None THEN sx
               ELSE [c \in Clients |-> Recycled(sx[c], free)]
      /\ order' = order /\ seq' = seq /\ UNCHANGED <<disk, server, serving, history, early>>
  BY DEF GetBuffer
<1>3. /\ Recent(files, buffer, order, seqLong)
      /\ Handed(order, buffer, held, free) /\ Leading(order, buffer, first)
  BY <1>1 DEF Agrees
<1>4. /\ Cardinality(held) \in Nat /\ Cardinality(held) + 1 \in 1..Len(order)
      /\ Cardinality(held) + 2 \in 1..Len(order)
      /\ free = order[Cardinality(held) + 1] /\ free \in 1..MaxBuffers /\ free \in Elements(order)
  BY <1>1, <1>3, HandedIs
<1>5. NextOf(free) = order[Cardinality(held) + 2]
  <2>. DEFINE h == Cardinality(held)
  <2>1. h \in Nat /\ h + 1 \in 1..Len(order) /\ h + 2 \in 1..Len(order) /\ free = order[h + 1]
    BY <1>4
  <2>. HIDE DEF h
  <2>2. h + 1 # Len(order) /\ (h + 1) + 1 = h + 2
    BY <1>1, <2>1, LinkedSize
  <2>3. NextOf(order[h + 1]) = IF h + 1 = Len(order) THEN None ELSE order[(h + 1) + 1]
    BY <1>1, <2>1, PlaceIs
  <2>. QED
    BY <2>1, <2>2, <2>3 DEF h
<1>6. Recent(files, buffer', order, seqLong)
  BY <1>1, <1>2, <1>3, TakenRecent
<1>7. Handed(order, buffer', held', free')
  BY <1>1, <1>2, <1>3, <1>5, TakenHanded
<1>8. Leading(order, buffer', first')
  <2>1. buffer' = [buffer EXCEPT ![free] = None]
    BY <1>2
  <2>2. Leading(order, buffer', IF first = free THEN order[Cardinality(held) + 2] ELSE first)
    BY <1>1, <1>3, <2>1, TakenLeading
  <2>3. first' = IF first = free THEN order[Cardinality(held) + 2] ELSE first
    BY <1>2, <1>5
  <2>. QED
    BY <2>2, <2>3
<1>9. buffer' \in [1..MaxBuffers -> Content]
  <2>1. None \in Content
    BY DEF Content
  <2>. QED
    BY <1>1, <1>2, <2>1
<1>10. UNCHANGED <<files, seqLong, serial, phase, blanks, saved, aborted, stops, serving, last,
                   from, early, order, seq>>
  BY <1>2 DEF disk, server, history
<1>11. Agrees'
  BY <1>1, <1>6, <1>7, <1>8, <1>10 DEF Agrees
<1>12. \A c \in Clients : sx'[c] \in Client /\ Placed(sx'[c], files, buffer', order)
  <2>1. SUFFICES ASSUME NEW c \in Clients
                 PROVE  sx'[c] \in Client /\ Placed(sx'[c], files, buffer', order)
    OBVIOUS
  <2>2. sx'[c] = IF buffer[free] = None THEN sx[c] ELSE Recycled(sx[c], free)
    BY <1>2
  <2>. QED
    BY <1>1, <1>2, <1>4, <2>2, RecycledPlaced
<1>13. sx' \in [Clients -> Client]
  <2>1. sx' = [c \in Clients |-> sx'[c]]
    BY <1>1, <1>2
  <2>. QED
    BY <1>12, <2>1
<1>14. ServerType' /\ ClientType'
  BY <1>1, <1>10, <1>13 DEF ServerType, ClientType
<1>15. /\ Chain(files') /\ Linked(order') /\ Start <= seqLong' /\ seqLong' \in Nat /\ phase' = "up"
       /\ ~aborted' /\ \A c \in Clients : Placed(sx'[c], files', buffer', order')
  BY <1>1, <1>10, <1>12
<1>16. (UpParts => Inv)'
  BY InvUp, PTL
<1>. QED
  BY <1>9, <1>11, <1>14, <1>15, <1>16 DEF UpParts
NewPacket(kind) == [number |-> seqLong, serial |-> serial + 1, kind |-> kind]
Written(p) == WithLast(Rolled, Append(Rolled[Len(Rolled)].packets, p))

LEMMA StoreIs ==
  ASSUME NEW b, NEW kind \in {"main", "other", "blank"}, Store(b, kind), seqLong \in Nat,
         serial \in 0..MaxPackets
  PROVE  LET p == NewPacket(kind) IN
         /\ p \in Packet /\ p.number = seqLong /\ p.serial = serial + 1
         /\ serial' = serial + 1 /\ serial' \in 0..MaxPackets
         /\ buffer' = WithPacket(buffer, b, seq, p) /\ order' = ToTail(b)
         /\ seq' = Next1(seq) /\ seqLong' = seqLong + 1
         /\ first' = (IF first = None THEN b ELSE first)
         /\ files' = Written(p)
         /\ sx' = [c \in Clients |-> Woken(Forced(sx[c]), b, p)]
         /\ early' \subseteq Clients
<1>. DEFINE p == NewPacket(kind)
<1>1. p = [number |-> seqLong, serial |-> serial + 1, kind |-> kind]
  BY DEF NewPacket
<1>2. /\ serial < MaxPackets /\ serial' = serial + 1
      /\ buffer' = [buffer EXCEPT ![b] = [seq |-> seq, packet |-> p]]
      /\ seq' = Next1(seq) /\ order' = ToTail(b) /\ first' = IF first = None THEN b ELSE first
      /\ files' = [Rolled EXCEPT ![Len(Rolled)].packets = Append(@, p)]
      /\ seqLong' = seqLong + 1
      /\ sx' = [c \in Clients |-> Woken(Forced(sx[c]), b, p)]
      /\ early' \subseteq Clients
  BY DEF Store, NewPacket
<1>3. serial + 1 \in 1..MaxPackets /\ serial + 1 \in 0..MaxPackets
  BY <1>2, ConstantTypes
<1>4. p \in Packet /\ p.number = seqLong /\ p.serial = serial + 1
  BY <1>1, <1>3 DEF Packet
<1>. HIDE DEF p
<1>5. files' = Written(p)
  BY <1>2 DEF Written, WithLast
<1>6. buffer' = WithPacket(buffer, b, seq, p)
  BY <1>2 DEF WithPacket
<1>. QED
  BY <1>2, <1>3, <1>4, <1>5, <1>6 DEF p

LEMMA StoreMemory ==
  ASSUME Inv, phase # "down", MaxBuffers <= Base(Segments), NEW q \in 1..Len(order),
         NEW kind \in {"main", "other", "blank"}, Store(order[q], kind),
         \A i \in 1..Len(order) : i # q /\ buffer[order[i]] # None => i > q
  PROVE  /\ Chain(files') /\ Behind(files') = seqLong' /\ seqLong' = seqLong + 1
         /\ seq' = seqLong' % Mod /\ seqLong' \in Nat /\ Start <= seqLong'
         /\ Linked(order') /\ Recent(files', buffer', order', seqLong')
         /\ buffer' \in [1..MaxBuffers -> Content]
         /\ Leading(order', buffer', first') /\ serial' \in 0..MaxPackets
<1>. DEFINE p == NewPacket(kind)
            b == order[q]
<1>1. /\ Chain(files) /\ Linked(order) /\ Start <= seqLong /\ seqLong \in Nat
      /\ buffer \in [1..MaxBuffers -> Content] /\ ServerType /\ Agrees
  BY InvIs
<1>2. /\ p \in Packet /\ p.number = seqLong /\ serial' \in 0..MaxPackets
      /\ buffer' = WithPacket(buffer, b, seq, p) /\ order' = ToTail(b)
      /\ seq' = Next1(seq) /\ seqLong' = seqLong + 1
      /\ first' = (IF first = None THEN b ELSE first)
      /\ files' = WithLast(Rolled, Append(Rolled[Len(Rolled)].packets, p))
  BY <1>1, StoreIs DEF ServerType, Written
<1>. HIDE DEF p
<1>3. /\ Behind(files) = seqLong /\ seq = seqLong % Mod
      /\ Recent(files, buffer, order, seqLong) /\ Leading(order, buffer, first)
  BY <1>1 DEF Agrees
<1>4. Chain(files') /\ Behind(files') = seqLong + 1
  BY <1>1, <1>2, <1>3, WrittenIs
<1>5. Linked(order')
  BY <1>1, <1>2, ToTailIs
<1>6. Recent(files', buffer', order', seqLong + 1)
  BY <1>1, <1>2, <1>3, StoredRecent
<1>7. seqLong % Mod \in SeqNumbers /\ Next1(seqLong % Mod) = (seqLong + 1) % Mod
  BY <1>1, ModRange, Next1Is
<1>8. seq \in SeqNumbers /\ seq' = seqLong' % Mod
  BY <1>2, <1>3, <1>7
<1>9. buffer' \in [1..MaxBuffers -> Content]
  BY <1>1, <1>2, <1>8, StoredContent
<1>10. Leading(order', buffer', first')
  <2>1. Leading(order', buffer', IF first = None THEN b ELSE first)
    BY <1>1, <1>2, <1>3, <1>8, StoredLeading
  <2>. QED
    BY <1>2, <2>1
<1>11. seqLong + 1 \in Nat /\ Start <= seqLong + 1
  BY <1>1, ConstantTypes
<1>. QED
  BY <1>2, <1>4, <1>5, <1>6, <1>8, <1>9, <1>10, <1>11

LEMMA QueueBufferInv ==
  ASSUME Inv, DiskOutlasts, NEW b \in 1..MaxBuffers, NEW kind \in {"main", "other"},
         QueueBuffer(b, kind)
  PROVE  Inv'
<1>. DEFINE p == NewPacket(kind)
<1>1. /\ Chain(files) /\ Linked(order) /\ Start <= seqLong /\ seqLong \in Nat
      /\ buffer \in [1..MaxBuffers -> Content] /\ sx \in [Clients -> Client]
      /\ ~aborted /\ ServerType /\ ClientType /\ phase = "up" /\ Agrees
      /\ \A c \in Clients : sx[c] \in Client /\ Placed(sx[c], files, buffer, order)
  BY InvIs DEF QueueBuffer
<1>2. /\ b \in held /\ held' = held \ {b} /\ Store(b, kind) /\ free' = free
      /\ UNCHANGED <<phase, blanks, saved, aborted, stops, serving, last, from>>
  BY DEF QueueBuffer, server, history
<1>3. MaxBuffers <= Base(Segments)
  BY DEF DiskOutlasts, Base
<1>4. kind \in {"main", "other", "blank"} /\ serial \in 0..MaxPackets
  BY <1>1 DEF ServerType
<1>5. /\ p \in Packet /\ p.number = seqLong
      /\ buffer' = WithPacket(buffer, b, seq, p) /\ order' = ToTail(b)
      /\ files' = WithLast(Rolled, Append(Rolled[Len(Rolled)].packets, p))
      /\ sx' = [c \in Clients |-> Woken(Forced(sx[c]), b, p)]
      /\ early' \subseteq Clients
  BY <1>1, <1>2, <1>4, StoreIs DEF Written
<1>. HIDE DEF p
<1>6. seq \in SeqNumbers
  <2>1. seqLong % Mod \in SeqNumbers
    BY <1>1, ModRange
  <2>. QED
    BY <1>1, <2>1 DEF Agrees
<1>7. Handed(order, buffer, held, free)
  BY <1>1 DEF Agrees
<1>8. /\ Handed(order', buffer', held', free')
      /\ \E q \in 1..Len(order) : /\ b = order[q]
                                  /\ \A i \in 1..Len(order) : buffer[order[i]] # None => i > q
  BY <1>1, <1>2, <1>5, <1>6, <1>7, StoredHanded
<1>9. PICK q \in 1..Len(order) : /\ b = order[q]
                                 /\ \A i \in 1..Len(order) : buffer[order[i]] # None => i > q
  BY <1>8
<1>10. buffer[order[q]] = None
  BY <1>2, <1>7, <1>9 DEF Handed
<1>11. /\ Chain(files') /\ Behind(files') = seqLong'
       /\ seq' = seqLong' % Mod /\ seqLong' \in Nat /\ Start <= seqLong'
       /\ Linked(order') /\ Recent(files', buffer', order', seqLong')
       /\ buffer' \in [1..MaxBuffers -> Content]
       /\ Leading(order', buffer', first') /\ serial' \in 0..MaxPackets
  BY <1>1, <1>2, <1>3, <1>4, <1>9, StoreMemory
<1>12. Agrees'
  BY <1>8, <1>11 DEF Agrees
<1>13. \A c \in Clients : sx'[c] \in Client /\ Placed(sx'[c], files', buffer', order')
  <2>1. SUFFICES ASSUME NEW c \in Clients
                 PROVE  sx'[c] \in Client /\ Placed(sx'[c], files', buffer', order')
    OBVIOUS
  <2>2. sx'[c] = Woken(Forced(sx[c]), order[q], p)
    BY <1>5, <1>9
  <2>3. order' = ToTail(order[q]) /\ buffer' = WithPacket(buffer, order[q], seq, p)
    BY <1>5, <1>9
  <2>. QED
    BY <1>1, <1>3, <1>5, <1>9, <1>10, <2>2, <2>3, StoredPlaced
<1>14. sx' \in [Clients -> Client]
  <2>1. sx' = [c \in Clients |-> sx'[c]]
    BY <1>5
  <2>. QED
    BY <1>13, <2>1
<1>15. ServerType' /\ ClientType'
  BY <1>1, <1>2, <1>5, <1>11, <1>14 DEF ServerType, ClientType
<1>16. phase' = "up" /\ ~aborted' /\ \A c \in Clients : Placed(sx'[c], files', buffer', order')
  BY <1>1, <1>2, <1>13
<1>17. (UpParts => Inv)'
  BY InvUp, PTL
<1>. QED
  BY <1>11, <1>12, <1>15, <1>16, <1>17 DEF UpParts

LEMMA EnlargeInv ==
  ASSUME Inv, DiskOutlasts, NEW b \in 1..MaxBuffers, EnlargeBy(b)
  PROVE  Inv'
<1>1. /\ Chain(files) /\ Linked(order) /\ Start <= seqLong /\ seqLong \in Nat
      /\ buffer \in [1..MaxBuffers -> Content] /\ sx \in [Clients -> Client]
      /\ ~aborted /\ ServerType /\ ClientType /\ phase = "up" /\ Agrees
      /\ \A c \in Clients : sx[c] \in Client /\ Placed(sx[c], files, buffer, order)
  BY InvIs DEF EnlargeBy
<1>2. /\ b \notin Ring /\ buffer[free] = None /\ order' = Inserted(Place(free), b)
      /\ UNCHANGED <<buffer, first, free, held, seq, files, seqLong, serial, phase, blanks, saved,
                     aborted, stops, sx, serving, last, from, early>>
  BY DEF EnlargeBy, DiskOutlasts, Ring, Inserted, disk, server, history
<1>3. /\ Recent(files, buffer, order, seqLong)
      /\ Handed(order, buffer, held, free) /\ Leading(order, buffer, first)
  BY <1>1 DEF Agrees
<1>4. /\ Linked(order') /\ Elements(order') = Ring \cup {b} /\ Recent(files, buffer, order', seqLong)
      /\ Handed(order', buffer, held, free) /\ Leading(order', buffer, first)
  BY <1>1, <1>2, <1>3, EnlargedMemory
<1>5. Agrees'
  BY <1>1, <1>2, <1>4 DEF Agrees
<1>6. \A c \in Clients : Placed(sx'[c], files', buffer', order')
  <2>1. SUFFICES ASSUME NEW c \in Clients
                 PROVE  Placed(sx[c], files, buffer, order')
    BY <1>2
  <2>2. Placed(sx[c], files, buffer, order)
    BY <1>1
  <2>3. Elements(order) \subseteq Elements(order')
    BY <1>4 DEF Ring, Elements
  <2>. QED
    BY <2>2, <2>3 DEF Placed
<1>7. ServerType' /\ ClientType'
  BY <1>1, <1>2 DEF ServerType, ClientType
<1>8. /\ Chain(files') /\ Linked(order') /\ Start <= seqLong' /\ seqLong' \in Nat /\ phase' = "up"
      /\ ~aborted' /\ buffer' \in [1..MaxBuffers -> Content]
  BY <1>1, <1>2, <1>4
<1>9. (UpParts => Inv)'
  BY InvUp, PTL
<1>. QED
  BY <1>5, <1>6, <1>7, <1>8, <1>9 DEF UpParts
AllIdle == [c \in Clients |-> Idle]

\* What makes the invariant hold while the server serves nobody.
LEMMA InvAway ==
  /\ Chain(files) /\ Linked(order) /\ Start <= seqLong /\ Behind(files) <= seqLong
  /\ MemoryType /\ ServerType /\ ClientType /\ ~aborted
  /\ phase = "recovering" => held = {} /\ blanks >= 1
  /\ phase # "down" => Agrees
  /\ sx = AllIdle /\ serving = None
  => Inv
<1>. SUFFICES ASSUME Chain(files), Linked(order), Start <= seqLong, Behind(files) <= seqLong,
                     MemoryType, ServerType, ClientType, ~aborted,
                     phase = "recovering" => held = {} /\ blanks >= 1,
                     phase # "down" => Agrees, sx = AllIdle, serving = None
              PROVE  Inv
  OBVIOUS
<1>1. TypeOK
  BY TypesOut
<1>2. StoreInv
  BY <1>1 DEF StoreInv
<1>3. \A c \in Clients : Placed(sx[c], files, buffer, order)
  BY IdlePlaced DEF AllIdle
<1>4. ClientInv
  BY <1>3 DEF ClientInv, AllIdle
<1>. QED
  BY <1>2, <1>4 DEF Inv

LEMMA AllIdleType == AllIdle \in [Clients -> Client]
  BY IdlePlaced DEF AllIdle

LEMMA CreateBlankInv ==
  ASSUME Inv, DiskOutlasts, CreateBlank
  PROVE  Inv'
<1>1. /\ Chain(files) /\ Linked(order) /\ Start <= seqLong /\ seqLong \in Nat
      /\ buffer \in [1..MaxBuffers -> Content]
      /\ ~aborted /\ ServerType /\ ClientType /\ phase = "recovering" /\ Agrees
  BY InvIs DEF CreateBlank
<1>2. held = {} /\ blanks >= 1 /\ sx = AllIdle /\ serving = None
  BY <1>1 DEF Inv, StoreInv, ClientInv, AllIdle
<1>3. /\ Store(free, "blank") /\ free' = NextOf(free) /\ blanks' = blanks - 1
      /\ phase' = (IF blanks = 1 THEN "up" ELSE phase)
      /\ UNCHANGED <<held, saved, aborted, stops, serving, last, from>>
  BY DEF CreateBlank, history
<1>4. MaxBuffers <= Base(Segments)
  BY DEF DiskOutlasts, Base
<1>. DEFINE p == NewPacket("blank")
<1>5. "blank" \in {"main", "other", "blank"} /\ serial \in 0..MaxPackets
  BY <1>1 DEF ServerType
<1>6. /\ order' = ToTail(free) /\ early' \subseteq Clients
      /\ sx' = [c \in Clients |-> Woken(Forced(sx[c]), free, p)]
  BY <1>1, <1>3, <1>5, StoreIs
<1>. HIDE DEF p
<1>7. sx' = AllIdle
  <2>1. Idle.file = None /\ ~Idle.active
    BY DEF Idle
  <2>2. Woken(Forced(Idle), free, p) = Idle
    BY <2>1 DEF Woken, Forced
  <2>. QED
    BY <1>2, <1>6, <2>2 DEF AllIdle
<1>8. /\ free = order[1] /\ 1 \in 1..Len(order) /\ Handed(order', buffer', held, free')
  BY <1>1, <1>2, <1>3, <1>6, BlankHanded DEF Agrees
<1>9. \A i \in 1..Len(order) : i # 1 /\ buffer[order[i]] # None => i > 1
  OBVIOUS
<1>10. /\ Chain(files') /\ Behind(files') = seqLong'
       /\ seq' = seqLong' % Mod /\ seqLong' \in Nat /\ Start <= seqLong'
       /\ Linked(order') /\ Recent(files', buffer', order', seqLong')
       /\ buffer' \in [1..MaxBuffers -> Content]
       /\ Leading(order', buffer', first') /\ serial' \in 0..MaxPackets
  BY <1>1, <1>3, <1>4, <1>5, <1>8, <1>9, StoreMemory
<1>11. Agrees'
  BY <1>3, <1>8, <1>10 DEF Agrees
<1>12. MemoryType'
  <2>1. (Linked(order) /\ Agrees /\ seqLong \in Nat /\ buffer \in [1..MaxBuffers -> Content]
          => MemoryType)'
    BY MemoryTypes, PTL
  <2>. QED
    BY <1>10, <1>11, <2>1
<1>13. blanks \in 0..Blanks /\ blanks - 1 \in 0..Blanks /\ (blanks # 1 => blanks - 1 >= 1)
  BY <1>1, <1>2, ConstantTypes DEF ServerType
<1>14. ServerType' /\ ClientType'
  BY <1>1, <1>3, <1>6, <1>7, <1>10, <1>13, AllIdleType DEF ServerType, ClientType
<1>15. phase' = "recovering" => held' = {} /\ blanks' >= 1
  BY <1>1, <1>2, <1>3, <1>13
<1>16. Behind(files') <= seqLong' /\ ~aborted' /\ serving' = None
  BY <1>1, <1>2, <1>3, <1>10
<1>17. (/\ Chain(files) /\ Linked(order) /\ Start <= seqLong /\ Behind(files) <= seqLong
        /\ MemoryType /\ ServerType /\ ClientType /\ ~aborted
        /\ phase = "recovering" => held = {} /\ blanks >= 1
        /\ phase # "down" => Agrees
        /\ sx = AllIdle /\ serving = None
        => Inv)'
  BY InvAway, PTL
<1>. QED
  BY <1>7, <1>10, <1>11, <1>12, <1>14, <1>15, <1>16, <1>17

\* The end of the server: what is on disk remains a chain of files.
LEMMA EndInv ==
  ASSUME Inv, AllOff, UNCHANGED <<memory, seqLong, serial, blanks, aborted, last>>,
         saved' \in BOOLEAN, Chain(files'), Behind(files') <= seqLong
  PROVE  Inv'
<1>1. /\ MemoryType /\ ServerType /\ ClientType /\ Linked(order) /\ Start <= seqLong /\ ~aborted
  BY InvIs
<1>2. /\ sx' = AllIdle /\ from' = [c \in Clients |-> 0] /\ serving' = None /\ early' = {}
      /\ phase' = "down" /\ stops < MaxStops /\ stops' = stops + 1
      /\ UNCHANGED <<order, buffer, first, free, held, seq, seqLong, serial, blanks, aborted, last>>
  BY DEF AllOff, AllIdle, memory
<1>3. MemoryType'
  BY <1>1, <1>2 DEF MemoryType, Ring
<1>4. stops' \in 0..MaxStops
  BY <1>1, <1>2, ConstantTypes DEF ServerType
<1>5. ServerType'
  BY <1>1, <1>2, <1>4 DEF ServerType
<1>6. ClientType'
  <2>1. from' \in [Clients -> Nat]
    BY <1>2
  <2>. QED
    BY <1>1, <1>2, <2>1, AllIdleType DEF ClientType
<1>7. /\ Linked(order') /\ Start <= seqLong' /\ Behind(files') <= seqLong' /\ ~aborted'
      /\ phase' = "down"
  BY <1>1, <1>2
<1>8. (/\ Chain(files) /\ Linked(order) /\ Start <= seqLong /\ Behind(files) <= seqLong
       /\ MemoryType /\ ServerType /\ ClientType /\ ~aborted
       /\ phase = "recovering" => held = {} /\ blanks >= 1
       /\ phase # "down" => Agrees
       /\ sx = AllIdle /\ serving = None
       => Inv)'
  BY InvAway, PTL
<1>. QED
  BY <1>2, <1>3, <1>5, <1>6, <1>7, <1>8

LEMMA StopInv ==
  ASSUME Inv, Stop
  PROVE  Inv'
<1>1. Chain(files) /\ Behind(files) <= seqLong
  BY InvIs
<1>2. /\ AllOff /\ UNCHANGED <<memory, seqLong, serial, blanks, aborted, last>>
      /\ saved' \in BOOLEAN /\ files' = files
  BY DEF Stop, disk
<1>. QED
  BY <1>1, <1>2, EndInv

\* What a crash leaves on disk was there before.
LEMMA TailHolds ==
  ASSUME NEW F, Chain(F), Len(F) >= 2, NEW p, Holds(Tail(F), p)
  PROVE  Holds(F, p)
<1>1. /\ Len(Tail(F)) = Len(F) - 1
      /\ \A i \in 1..(Len(F) - 1) :
           Tail(F)[i] = F[i + 1] /\ Stored(Tail(F), i) = Stored(F, i + 1)
  BY TailChain
<1>2. Len(F) \in Nat
  BY DEF Chain
<1>3. PICK i \in 1..(Len(F) - 1) : \E k \in 1..Stored(Tail(F), i) : Tail(F)[i].packets[k] = p
  BY <1>1 DEF Holds
<1>4. PICK k \in 1..Stored(Tail(F), i) : Tail(F)[i].packets[k] = p
  BY <1>3
<1>5. i + 1 \in 1..Len(F) /\ k \in 1..Stored(F, i + 1) /\ F[i + 1].packets[k] = p
  BY <1>1, <1>2, <1>3, <1>4
<1>. QED
  BY <1>5 DEF Holds

LEMMA RolledHolds ==
  ASSUME Chain(files), Behind(files) = seqLong, seqLong \in Nat, seqLong >= Start,
         seq = seqLong % Mod, NEW p, Holds(Rolled, p)
  PROVE  Holds(files, p)
<1>1. PICK d \in {0, 1} :
        \A i \in 1..Len(Rolled) :
          IF i + d <= Len(files) THEN Rolled[i] = files[i + d]
          ELSE Stored(Rolled, i) = 0 /\ i = Len(Rolled) /\ Rolled[i].name = seqLong
  BY RolledIs
<1>2. PICK i \in 1..Len(Rolled) : \E k \in 1..Stored(Rolled, i) : Rolled[i].packets[k] = p
  BY DEF Holds
<1>3. PICK k \in 1..Stored(Rolled, i) : Rolled[i].packets[k] = p
  BY <1>2
<1>4. i + d \in 1..Len(files) /\ Rolled[i] = files[i + d]
  <2>1. Len(files) \in Nat
    BY DEF Chain
  <2>2. Stored(Rolled, i) # 0
    BY <1>3
  <2>. QED
    BY <1>1, <1>2, <2>1, <2>2
<1>5. k \in 1..Stored(files, i + d) /\ files[i + d].packets[k] = p
  BY <1>3, <1>4 DEF Stored
<1>. QED
  BY <1>4, <1>5 DEF Holds

LEMMA CutHolds ==
  ASSUME NEW F, Chain(F), F # <<>>, NEW k \in Nat, k <= Stored(F, Len(F)),
         NEW G, G = WithLast(F, SubSeq(F[Len(F)].packets, 1, Stored(F, Len(F)) - k)),
         NEW p, Holds(G, p)
  PROVE  Holds(F, p)
<1>1. /\ Len(G) = Len(F) /\ Chain(G)
      /\ \A i \in 1..Len(F) : /\ Stored(G, i) <= Stored(F, i)
                              /\ \A l \in 1..Stored(G, i) : G[i].packets[l] = F[i].packets[l]
  BY CutChain
<1>2. PICK i \in 1..Len(F) : \E l \in 1..Stored(G, i) : G[i].packets[l] = p
  BY <1>1 DEF Holds
<1>3. PICK l \in 1..Stored(G, i) : G[i].packets[l] = p
  BY <1>2
<1>4. Stored(F, i) \in Nat /\ Stored(G, i) \in Nat
  BY <1>1, ChainRange
<1>5. l \in 1..Stored(F, i) /\ F[i].packets[l] = p
  BY <1>1, <1>3, <1>4
<1>. QED
  BY <1>5 DEF Holds

LEMMA CrashedFiles ==
  ASSUME Inv, Crash
  PROVE  /\ Chain(files') /\ Behind(files') <= seqLong
         /\ \A p : Holds(files', p) => Holds(files, p)
         /\ \/ Behind(files') = Behind(files)
            \/ \E k \in 1..MaxLost : k < seqLong /\ Behind(files') = Behind(files) - k
<1>1. /\ Chain(files) /\ Agrees /\ seqLong \in Nat /\ Start <= seqLong /\ Behind(files) <= seqLong
  BY InvIs DEF Crash
<1>2. CASE UNCHANGED files
  BY <1>1, <1>2
<1>3. CASE Len(files) = Segments /\ files' = Tail(files)
  <2>1. Len(files) >= 2
    BY <1>3, ConstantTypes
  <2>2. Chain(Tail(files)) /\ Behind(Tail(files)) = Behind(files)
    BY <1>1, <2>1, TailChain
  <2>3. \A p : Holds(Tail(files), p) => Holds(files, p)
    BY <1>1, <2>1, TailHolds
  <2>. QED
    BY <1>1, <1>3, <2>2, <2>3
<1>4. CASE files' = Rolled
  <2>1. Chain(Rolled) /\ Behind(Rolled) = seqLong
    BY <1>1, RolledIs DEF Agrees
  <2>2. Behind(files) = seqLong
    BY <1>1 DEF Agrees
  <2>3. \A p : Holds(Rolled, p) => Holds(files, p)
    BY <1>1, RolledHolds DEF Agrees
  <2>. QED
    BY <1>1, <1>4, <2>1, <2>2, <2>3
<1>5. ASSUME NEW k \in 1..MaxLost, files # <<>>, k <= Size(Len(files)), k < seqLong,
             files' = [files EXCEPT ![Len(files)].packets = SubSeq(@, 1, Len(@) - k)]
      PROVE  /\ Chain(files') /\ Behind(files') <= seqLong /\ Behind(files') = Behind(files) - k
             /\ \A p : Holds(files', p) => Holds(files, p)
  <2>1. k \in Nat /\ k >= 1 /\ k <= Stored(files, Len(files))
    BY <1>5, ConstantTypes DEF Size, Stored
  <2>2. files' = WithLast(files, SubSeq(files[Len(files)].packets, 1, Stored(files, Len(files)) - k))
    BY <1>5 DEF WithLast, Stored
  <2>3. Chain(files') /\ Behind(files') = Behind(files) - k
    BY <1>1, <1>5, <2>1, <2>2, CutChain
  <2>4. Behind(files) = seqLong
    BY <1>1 DEF Agrees
  <2>5. \A p : Holds(files', p) => Holds(files, p)
    BY <1>1, <1>5, <2>1, <2>2, CutHolds
  <2>. QED
    BY <1>1, <2>1, <2>3, <2>4, <2>5
<1>. QED
  BY <1>2, <1>3, <1>4, <1>5 DEF Crash

LEMMA CrashInv ==
  ASSUME Inv, Crash
  PROVE  Inv'
<1>1. Chain(files') /\ Behind(files') <= seqLong
  BY CrashedFiles
<1>2. saved \in BOOLEAN
  BY InvIs DEF ServerType
<1>3. /\ AllOff /\ UNCHANGED <<memory, seqLong, serial, blanks, aborted, last>> /\ saved' = saved
  BY DEF Crash
<1>. QED
  BY <1>1, <1>2, <1>3, EndInv

LEMMA RestartIs ==
  ASSUME Inv, Restart
  PROVE  /\ files' = files /\ seqLong' = Behind(files) /\ seqLong' <= seqLong
         /\ sx' = AllIdle /\ serving' = None /\ saved' = FALSE
         /\ blanks' = Missing(EndOnDisk) /\ blanks' \in 0..Blanks
         /\ phase' = (IF blanks' = 0 THEN "up" ELSE "recovering")
         /\ UNCHANGED <<serial, aborted, stops, last, from, early>>
<1>1. /\ Chain(files) /\ Behind(files) <= seqLong /\ ~aborted
  BY InvIs
<1>2. Registered = files /\ EndOnDisk = Behind(files) /\ EndOnDisk \in Nat
  BY <1>1, RegisteredIs
<1>3. phase = "down"
  BY DEF Restart
<1>4. sx = AllIdle /\ serving = None
  BY <1>3 DEF Inv, ClientInv, AllIdle
<1>5. /\ files' = Registered /\ seqLong' = EndOnDisk /\ saved' = FALSE
      /\ blanks' = Missing(EndOnDisk)
      /\ phase' = (IF Missing(EndOnDisk) = 0 THEN "up" ELSE "recovering")
      /\ UNCHANGED <<serial, aborted, stops, sx, serving, history, early>>
  BY DEF Restart
<1>6. Missing(EndOnDisk) \in 0..Blanks
  BY ConstantTypes DEF Missing
<1>. QED
  BY <1>1, <1>2, <1>4, <1>5, <1>6 DEF history

LEMMA RestartInv ==
  ASSUME Inv, Restart
  PROVE  Inv'
<1>1. /\ Chain(files) /\ ServerType /\ ClientType /\ ~aborted
  BY InvIs
<1>2. /\ files' = files /\ seqLong' = Behind(files)
      /\ sx' = AllIdle /\ serving' = None /\ saved' = FALSE
      /\ blanks' \in 0..Blanks
      /\ phase' = (IF blanks' = 0 THEN "up" ELSE "recovering")
      /\ UNCHANGED <<serial, aborted, stops, last, from, early>>
  BY RestartIs
<1>. DEFINE l == EndOnDisk - LoadFrom
<1>3. /\ order' = [i \in 1..Buffers |-> ((i - 1 + l) % Buffers) + 1]
      /\ buffer' = [b \in 1..MaxBuffers |->
                      IF b > l THEN None
                      ELSE [seq |-> (LoadFrom + b - 1) % Mod,
                            packet |-> PacketOnDisk(LoadFrom + b - 1)]]
      /\ first' = (IF l = 0 THEN None ELSE 1) /\ free' = (l % Buffers) + 1
      /\ held' = {} /\ seq' = EndOnDisk % Mod
  BY DEF Restart
<1>4. order' = Rotated(l) /\ buffer' = Loaded(LoadFrom, l)
  BY <1>3 DEF Rotated, Loaded
<1>5. EndOnDisk = Behind(files) /\ EndOnDisk \in Nat /\ Start <= EndOnDisk
  BY <1>1, RegisteredIs
<1>6. /\ Linked(order') /\ buffer' \in [1..MaxBuffers -> Content]
      /\ Recent(files, buffer', order', EndOnDisk)
      /\ Handed(order', buffer', {}, (l % Buffers) + 1)
      /\ Leading(order', buffer', IF l = 0 THEN None ELSE 1)
  BY <1>1, <1>4, RestartMemory
<1>7. /\ Handed(order', buffer', held', free') /\ Leading(order', buffer', first')
  BY <1>3, <1>6
<1>. HIDE DEF l
<1>8. Agrees'
  BY <1>2, <1>3, <1>5, <1>6, <1>7 DEF Agrees
<1>9. MemoryType'
  <2>1. (Linked(order) /\ Agrees /\ seqLong \in Nat /\ buffer \in [1..MaxBuffers -> Content]
          => MemoryType)'
    BY MemoryTypes, PTL
  <2>. QED
    BY <1>2, <1>5, <1>6, <1>8, <2>1
<1>10. ServerType' /\ ClientType'
  BY <1>1, <1>2, <1>5, AllIdleType DEF ServerType, ClientType
<1>11. phase' = "recovering" => held' = {} /\ blanks' >= 1
  BY <1>2, <1>3, ConstantTypes
<1>12. /\ Chain(files') /\ Start <= seqLong' /\ Behind(files') <= seqLong' /\ ~aborted'
  BY <1>1, <1>2, <1>5
<1>13. (/\ Chain(files) /\ Linked(order) /\ Start <= seqLong /\ Behind(files) <= seqLong
        /\ MemoryType /\ ServerType /\ ClientType /\ ~aborted
        /\ phase = "recovering" => held = {} /\ blanks >= 1
        /\ phase # "down" => Agrees
        /\ sx = AllIdle /\ serving = None
        => Inv)'
  BY InvAway, PTL
<1>. QED
  BY <1>2, <1>6, <1>8, <1>9, <1>10, <1>11, <1>12, <1>13
\* A step that concerns one client only.
LEMMA ClientStepInv ==
  ASSUME Inv, phase = "up", UNCHANGED <<memory, disk, server>>, NEW c \in Clients, Moves(c),
         serving' \in Clients \cup {None}, early' \subseteq Clients,
         last' \in [Clients -> [number : Nat, serial : 1..MaxPackets] \cup {None}],
         from' \in [Clients -> Nat]
  PROVE  Inv'
<1>1. /\ Chain(files) /\ Linked(order) /\ Start <= seqLong /\ seqLong \in Nat
      /\ buffer \in [1..MaxBuffers -> Content]
      /\ ~aborted /\ ServerType /\ ClientType /\ Agrees
      /\ \A d \in Clients : sx[d] \in Client /\ Placed(sx[d], files, buffer, order)
  BY InvIs
<1>2. UNCHANGED <<order, buffer, first, free, held, seq, files, seqLong, serial, phase, blanks,
                  saved, aborted, stops>>
  BY DEF memory, disk, server
<1>3. /\ Chain(files') /\ Linked(order') /\ Start <= seqLong' /\ seqLong' \in Nat
      /\ buffer' \in [1..MaxBuffers -> Content] /\ ~aborted' /\ phase' = "up"
  BY <1>1, <1>2
<1>4. Agrees'
  BY <1>1, <1>2 DEF Agrees
<1>5. ServerType'
  BY <1>1, <1>2 DEF ServerType
<1>6. ClientType'
  BY DEF ClientType, Moves
<1>7. \A d \in Clients : Placed(sx'[d], files', buffer', order')
  <2>1. SUFFICES ASSUME NEW d \in Clients
                 PROVE  Placed(sx'[d], files, buffer, order)
    BY <1>2
  <2>2. CASE d = c
    BY <2>2 DEF Moves
  <2>3. CASE d # c
    BY <1>1, <2>3 DEF Moves
  <2>. QED
    BY <2>2, <2>3
<1>8. (UpParts => Inv)'
  BY InvUp, PTL
<1>. QED
  BY <1>3, <1>4, <1>5, <1>6, <1>7, <1>8 DEF UpParts

LEMMA ServeIs ==
  ASSUME NEW c \in Clients, sx \in [Clients -> Client], NEW place, WellPlaced(place),
         NEW ready \in BOOLEAN, NEW mode \in Modes, Serve(c, place, ready, mode)
  PROVE  /\ Moves(c) /\ phase = "up" /\ UNCHANGED <<memory, disk, server, serving>>
         /\ early' = early \ {c}
         /\ sx'[c].queue = place.queue /\ sx'[c].file = place.file /\ sx'[c].fd = place.fd
         /\ sx'[c].seq = place.seq /\ sx'[c].active /\ sx'[c].ready = ready
         /\ sx'[c].done = ~mode.multi /\ sx'[c].selective = mode.selective
<1>. DEFINE y == [on |-> TRUE, queue |-> place.queue, file |-> place.file, fd |-> place.fd,
                  seq |-> place.seq, active |-> TRUE, ready |-> ready,
                  realtime |-> mode.realtime, done |-> ~mode.multi, multi |-> mode.multi,
                  selective |-> mode.selective]
<1>1. /\ sx' = [sx EXCEPT ![c] = y] /\ phase = "up"
      /\ UNCHANGED <<memory, disk, server, serving>> /\ early' = early \ {c}
  BY DEF Serve, Listening
<1>2. mode.realtime \in BOOLEAN /\ mode.multi \in BOOLEAN /\ mode.selective \in BOOLEAN
  <2>1. mode \in [realtime : BOOLEAN, multi : BOOLEAN, selective : BOOLEAN]
    BY ConstantAssumption DEF ConstantAssumption
  <2>. QED
    BY <2>1
<1>3. /\ place.queue \in 1..MaxBuffers \cup {None} /\ place.file \in Nat \cup {None}
      /\ place.fd \in (0..SegmentSize) \cup {None} /\ place.seq \in SeqNumbers
      /\ Placed(place, files, buffer, order)
  BY DEF WellPlaced
<1>4. y \in Client
  BY <1>2, <1>3 DEF Client
<1>5. /\ y.queue = place.queue /\ y.file = place.file /\ y.fd = place.fd /\ y.seq = place.seq
      /\ y.active /\ y.ready = ready /\ y.done = ~mode.multi /\ y.selective = mode.selective
  OBVIOUS
<1>. HIDE DEF y
<1>6. At(y) = At(place) /\ Ahead(y, files, buffer) = Ahead(place, files, buffer)
  BY <1>5 DEF At, Ahead
<1>7. Placed(y, files, buffer, order)
  BY <1>3, <1>5, <1>6 DEF Placed, InFile
<1>8. Moves(c) /\ sx'[c] = y
  BY <1>1, <1>4, <1>7, MovesIs
<1>. QED
  BY <1>1, <1>5, <1>8

LEMMA FoundType ==
  ASSUME NEW m
  PROVE  Found(m) \in BOOLEAN
BY DEF Found

\* The places that are asked for.
LEMMA RequestIs ==
  ASSUME Inv, NEW c \in Clients, NEW mode \in Modes,
         \/ RequestNext(c, mode) \/ RequestAll(c, mode) \/ Resume(c, mode)
         \/ \E m \in 0..(Mod - 1) : RequestFrom(c, m, mode)
  PROVE  /\ Moves(c) /\ phase = "up" /\ UNCHANGED <<memory, disk, server, serving>>
         /\ early' = early \ {c}
         /\ \E place : \E ready \in BOOLEAN :
              WellPlaced(place) /\ Serve(c, place, ready, mode)
         /\ last' \in [Clients -> [number : Nat, serial : 1..MaxPackets] \cup {None}]
         /\ from' \in [Clients -> Nat]
<1>1. /\ Chain(files) /\ Linked(order) /\ seqLong \in Nat /\ ClientType
      /\ sx \in [Clients -> Client] /\ (phase # "down" => Agrees)
  BY InvIs
<1>2. phase = "up"
  BY DEF RequestNext, RequestAll, RequestFrom, Resume, Serve, Listening
<1>3. /\ last \in [Clients -> [number : Nat, serial : 1..MaxPackets] \cup {None}]
      /\ from \in [Clients -> Nat] /\ Agrees
  BY <1>1, <1>2 DEF ClientType
<1>4. WellPlaced(Nowhere) /\ WellPlaced(Oldest) /\ \A m \in SeqNumbers : WellPlaced(FindPacket(m))
  BY <1>1, <1>3, NowherePlaced, OldestPlaced, FoundPlaced
<1>5. ASSUME NEW place, WellPlaced(place), Anew(c, place)
      PROVE  /\ last' \in [Clients -> [number : Nat, serial : 1..MaxPackets] \cup {None}]
             /\ from' \in [Clients -> Nat]
  <2>1. place.number \in Nat
    BY <1>5 DEF WellPlaced
  <2>2. from' = [from EXCEPT ![c] = place.number] /\ last' = [last EXCEPT ![c] = None]
    BY <1>5 DEF Anew
  <2>. QED
    BY <1>3, <2>1, <2>2
<1>. DEFINE Goal == /\ \E place : \E ready \in BOOLEAN :
                         WellPlaced(place) /\ Serve(c, place, ready, mode)
                    /\ last' \in [Clients -> [number : Nat, serial : 1..MaxPackets] \cup {None}]
                    /\ from' \in [Clients -> Nat]
<1>6. ASSUME RequestNext(c, mode)
      PROVE  Goal
  <2>1. Serve(c, Nowhere, FALSE, mode) /\ Anew(c, Nowhere)
    BY <1>6 DEF RequestNext
  <2>. QED
    BY <1>4, <1>5, <2>1
<1>7. ASSUME RequestAll(c, mode)
      PROVE  Goal
  <2>1. Serve(c, Oldest, TRUE, mode) /\ Anew(c, Oldest)
    BY <1>7 DEF RequestAll
  <2>. QED
    BY <1>4, <1>5, <2>1
<1>8. ASSUME NEW m \in 0..(Mod - 1), RequestFrom(c, m, mode)
      PROVE  Goal
  <2>1. Serve(c, FindPacket(m), Found(m), mode) /\ Anew(c, FindPacket(m))
    BY <1>8 DEF RequestFrom
  <2>2. WellPlaced(FindPacket(m)) /\ Found(m) \in BOOLEAN
    BY <1>4, FoundType DEF SeqNumbers
  <2>. QED
    BY <1>5, <2>1, <2>2
<1>9. ASSUME Resume(c, mode)
      PROVE  Goal
  <2>. DEFINE m == Next1(last[c].number % Mod)
  <2>1. /\ Serve(c, FindPacket(m), Found(m), mode) /\ last' = last
        /\ from' = [from EXCEPT ![c] = IF Found(m) THEN 0 ELSE seqLong]
        /\ last[c] # None
    BY <1>9 DEF Resume
  <2>2. m \in SeqNumbers
    <3>1. last[c].number \in Nat
      BY <1>3, <2>1
    <3>2. last[c].number % Mod \in SeqNumbers
      BY <3>1, ModRange
    <3>3. (last[c].number % Mod) + 1 \in Int
      BY <3>2 DEF SeqNumbers
    <3>. QED
      BY <3>3, ModRange DEF Next1
  <2>. HIDE DEF m
  <2>3. WellPlaced(FindPacket(m)) /\ Found(m) \in BOOLEAN
    BY <1>4, <2>2, FoundType
  <2>4. from' \in [Clients -> Nat]
    BY <1>1, <1>3, <2>1
  <2>. QED
    BY <1>3, <2>1, <2>3, <2>4
<1>10. Goal
  BY <1>6, <1>7, <1>8, <1>9
<1>11. ASSUME NEW place, NEW ready \in BOOLEAN, WellPlaced(place), Serve(c, place, ready, mode)
       PROVE  Moves(c) /\ UNCHANGED <<memory, disk, server, serving>> /\ early' = early \ {c}
  BY <1>1, <1>11, ServeIs
<1>. QED
  BY <1>2, <1>10, <1>11

LEMMA RequestInv ==
  ASSUME Inv, NEW c \in Clients, Request(c)
  PROVE  Inv'
<1>1. /\ sx \in [Clients -> Client] /\ ClientType /\ sx[c] \in Client
      /\ Placed(sx[c], files, buffer, order)
  BY InvIs
<1>2. /\ last \in [Clients -> [number : Nat, serial : 1..MaxPackets] \cup {None}]
      /\ from \in [Clients -> Nat] /\ serving \in Clients \cup {None} /\ early \subseteq Clients
  BY <1>1 DEF ClientType
<1>3. ASSUME NEW mode \in Modes,
             \/ RequestNext(c, mode) \/ RequestAll(c, mode) \/ Resume(c, mode)
             \/ \E m \in 0..(Mod - 1) : RequestFrom(c, m, mode)
      PROVE  Inv'
  <2>1. /\ Moves(c) /\ phase = "up" /\ UNCHANGED <<memory, disk, server, serving>>
        /\ early' = early \ {c}
        /\ last' \in [Clients -> [number : Nat, serial : 1..MaxPackets] \cup {None}]
        /\ from' \in [Clients -> Nat]
    BY <1>3, RequestIs
  <2>. QED
    BY <1>2, <2>1, ClientStepInv
<1>4. CASE Select(c)
  <2>. DEFINE y == [Idle EXCEPT !.on = TRUE, !.multi = sx[c].multi]
  <2>1. /\ sx' = [sx EXCEPT ![c] = y] /\ from' = [from EXCEPT ![c] = 0] /\ last' = last
        /\ early' = early \ {c} /\ phase = "up" /\ UNCHANGED <<memory, disk, server, serving>>
    BY <1>4 DEF Select, Listening
  <2>2. sx[c].multi \in BOOLEAN
    BY <1>1, ClientFields
  <2>3. y \in Client /\ y.queue = None /\ y.file = None
    BY <2>2 DEF Idle, Client
  <2>. HIDE DEF y
  <2>4. Placed(y, files, buffer, order)
    BY <2>3 DEF Placed
  <2>5. Moves(c)
    BY <1>1, <2>1, <2>3, <2>4, MovesIs
  <2>6. from' \in [Clients -> Nat]
    BY <1>2, <2>1
  <2>. QED
    BY <1>2, <2>1, <2>5, <2>6, ClientStepInv
<1>5. CASE EndHandshake(c)
  <2>. DEFINE y == [sx[c] EXCEPT !.done = TRUE]
  <2>1. /\ sx' = [sx EXCEPT ![c] = y] /\ phase = "up"
        /\ UNCHANGED <<memory, disk, server, serving, last, from, early>>
    BY <1>5 DEF EndHandshake, Listening, history
  <2>2. /\ y \in Client /\ y.queue = sx[c].queue /\ y.file = sx[c].file /\ y.fd = sx[c].fd
        /\ y.seq = sx[c].seq
    BY <1>1 DEF Client
  <2>. HIDE DEF y
  <2>3. Placed(y, files, buffer, order)
    BY <1>1, <2>2 DEF Placed, InFile, At, Ahead
  <2>4. Moves(c)
    BY <1>1, <2>1, <2>2, <2>3, MovesIs
  <2>. QED
    BY <1>2, <2>1, <2>4, ClientStepInv
<1>6. CASE Close(c)
  <2>1. /\ sx' = [sx EXCEPT ![c] = Idle] /\ from' = [from EXCEPT ![c] = 0] /\ last' = last
        /\ early' = early \ {c} /\ phase = "up" /\ UNCHANGED <<memory, disk, server>>
        /\ serving' = None
    BY <1>6 DEF Close
  <2>2. Idle \in Client /\ Placed(Idle, files, buffer, order)
    BY IdlePlaced
  <2>3. Moves(c)
    BY <1>1, <2>1, <2>2, MovesIs
  <2>4. from' \in [Clients -> Nat]
    BY <1>2, <2>1
  <2>. QED
    BY <1>2, <2>1, <2>3, <2>4, ClientStepInv
<1>. QED
  BY <1>3, <1>4, <1>5, <1>6 DEF Request

LEMMA SendIs ==
  ASSUME NEW c \in Clients, NEW packet \in Packet, Send(c, packet), ClientType
  PROVE  /\ UNCHANGED <<memory, disk, server, early>> /\ serving' \in Clients \cup {None}
         /\ last' \in [Clients -> [number : Nat, serial : 1..MaxPackets] \cup {None}]
         /\ from' \in [Clients -> Nat]
         /\ IF Matches(sx[c], packet)
              THEN /\ last'[c] = [number |-> packet.number, serial |-> packet.serial]
                   /\ from'[c] = 0 /\ serving' = None
              ELSE UNCHANGED <<last, from>> /\ serving' = c
         /\ \A d \in Clients \ {c} : last'[d] = last[d] /\ from'[d] = from[d]
<1>1. packet.number \in Nat /\ packet.serial \in 1..MaxPackets
  BY DEF Packet
<1>. DEFINE r == [number |-> packet.number, serial |-> packet.serial]
<1>2. r \in [number : Nat, serial : 1..MaxPackets]
  BY <1>1
<1>3. /\ last \in [Clients -> [number : Nat, serial : 1..MaxPackets] \cup {None}]
      /\ from \in [Clients -> Nat]
  BY DEF ClientType
<1>4. /\ UNCHANGED <<memory, disk, server, early>>
      /\ IF Matches(sx[c], packet)
           THEN /\ last' = [last EXCEPT ![c] = r] /\ from' = [from EXCEPT ![c] = 0]
                /\ serving' = None
           ELSE UNCHANGED <<last, from>> /\ serving' = c
  BY DEF Send, history
<1>. HIDE DEF r
<1>5. CASE Matches(sx[c], packet)
  <2>1. /\ last'[c] = r /\ from'[c] = 0 /\ serving' = None
        /\ last' \in [Clients -> [number : Nat, serial : 1..MaxPackets] \cup {None}]
        /\ from' \in [Clients -> Nat]
        /\ \A d \in Clients \ {c} : last'[d] = last[d] /\ from'[d] = from[d]
    BY <1>2, <1>3, <1>4, <1>5
  <2>. QED
    BY <1>4, <1>5, <2>1 DEF r
<1>6. CASE ~Matches(sx[c], packet)
  BY <1>3, <1>4, <1>6
<1>. QED
  BY <1>5, <1>6

LEMMA DeliverInv ==
  ASSUME Inv, NEW c \in Clients, Deliver(c)
  PROVE  Inv'
<1>1. /\ Chain(files) /\ Linked(order) /\ seqLong \in Nat /\ sx \in [Clients -> Client]
      /\ ClientType /\ Placed(sx[c], files, buffer, order) /\ (phase # "down" => Agrees)
  BY InvIs
<1>2. /\ last \in [Clients -> [number : Nat, serial : 1..MaxPackets] \cup {None}]
      /\ from \in [Clients -> Nat] /\ serving \in Clients \cup {None} /\ early \subseteq Clients
  BY <1>1 DEF ClientType
<1>3. phase = "up"
  BY DEF Deliver, SwitchToMemory, EndOfFile, ReadFile, ReadMemory, NothingLeft, Delivering
<1>4. CASE SwitchToMemory(c)
  <2>1. Moves(c)
    BY <1>1, <1>4, SwitchMoves
  <2>2. UNCHANGED <<memory, disk, server, last, from, early>> /\ serving' = c
    BY <1>4 DEF SwitchToMemory, history
  <2>. QED
    BY <1>2, <1>3, <2>1, <2>2, ClientStepInv
<1>5. CASE EndOfFile(c)
  <2>1. Moves(c)
    BY <1>1, <1>3, <1>5, EndOfFileMoves
  <2>2. UNCHANGED <<memory, disk, server, last, from, early>> /\ serving' = c
    BY <1>5 DEF EndOfFile, history
  <2>. QED
    BY <1>2, <1>3, <2>1, <2>2, ClientStepInv
<1>6. CASE ReadFile(c)
  <2>1. Moves(c) /\ FileAt(c).packets[ReadAt(c) + 1] \in Packet
    BY <1>1, <1>3, <1>6, ReadFileMoves
  <2>2. Send(c, FileAt(c).packets[ReadAt(c) + 1])
    BY <1>6 DEF ReadFile
  <2>3. /\ UNCHANGED <<memory, disk, server, early>> /\ serving' \in Clients \cup {None}
        /\ last' \in [Clients -> [number : Nat, serial : 1..MaxPackets] \cup {None}]
        /\ from' \in [Clients -> Nat]
    BY <1>1, <2>1, <2>2, SendIs
  <2>. QED
    BY <1>2, <1>3, <2>1, <2>3, ClientStepInv
<1>7. CASE ReadMemory(c)
  <2>1. /\ Moves(c) /\ buffer[sx[c].queue].packet \in Packet
        /\ Send(c, buffer[sx[c].queue].packet)
    BY <1>1, <1>3, <1>7, ReadMemoryMoves
  <2>2. /\ UNCHANGED <<memory, disk, server, early>> /\ serving' \in Clients \cup {None}
        /\ last' \in [Clients -> [number : Nat, serial : 1..MaxPackets] \cup {None}]
        /\ from' \in [Clients -> Nat]
    BY <1>1, <2>1, SendIs
  <2>. QED
    BY <1>2, <1>3, <2>1, <2>2, ClientStepInv
<1>8. CASE NothingLeft(c)
  <2>1. Moves(c)
    BY <1>1, <1>8, NothingLeftMoves
  <2>2. UNCHANGED <<memory, disk, server, last, from, early>> /\ serving' = None
    BY <1>8 DEF NothingLeft, history
  <2>. QED
    BY <1>2, <1>3, <2>1, <2>2, ClientStepInv
<1>. QED
  BY <1>4, <1>5, <1>6, <1>7, <1>8 DEF Deliver
-----------------------------------------------------------------------------
LEMMA InitInv ==
  ASSUME Init
  PROVE  Inv
<1>1. /\ order = [i \in 1..Buffers |-> i] /\ buffer = [b \in 1..MaxBuffers |-> None]
      /\ first = None /\ free = 1 /\ held = {} /\ seq = Start % Mod
      /\ files = (IF Start = 0 THEN <<>>
                  ELSE <<[name |-> Start, seq |-> Start % Mod, packets |-> <<>>]>>)
      /\ seqLong = Start /\ serial = 0
      /\ phase = "up" /\ blanks = 0 /\ saved = FALSE /\ aborted = FALSE /\ stops = 0
      /\ sx = AllIdle /\ serving = None /\ early = {}
      /\ last = [c \in Clients |-> None] /\ from = [c \in Clients |-> 0]
  BY DEF Init, AllIdle
<1>2. order = Rotated(0)
  <2>1. \A i \in 1..Buffers : ((i - 1 + 0) % Buffers) + 1 = i
    BY ConstantTypes
  <2>. QED
    BY <1>1, <2>1 DEF Rotated
<1>3. /\ Linked(order) /\ Len(order) = Buffers /\ Elements(order) = 1..Buffers
  BY <1>2, RotatedIs, ConstantTypes
<1>4. order[1] = 1 /\ \A i \in 1..Len(order) : order[i] \in 1..MaxBuffers
  BY <1>1, <1>3, LinkedTypes, ConstantTypes
<1>5. \A i \in 1..Len(order) : buffer[order[i]] = None
  BY <1>1, <1>4
<1>6. Recent(files, buffer, order, seqLong)
  BY <1>1, <1>5 DEF Recent
<1>7. Handed(order, buffer, held, free)
  <2>1. IsFiniteSet(held) /\ Cardinality(held) = 0
    BY <1>1, FS_EmptySet
  <2>2. held = {order[i] : i \in 1..Cardinality(held)}
    BY <1>1, <2>1
  <2>. QED
    BY <1>1, <1>4, <2>1, <2>2, ConstantTypes DEF Handed
<1>8. Leading(order, buffer, first)
  BY <1>1, <1>5 DEF Leading
<1>9. Chain(files) /\ Behind(files) = Start
  <2>1. CASE Start = 0
    BY <1>1, <2>1, ConstantTypes DEF Chain, Behind
  <2>2. CASE Start # 0
    <3>. DEFINE f == [name |-> Start, seq |-> Start % Mod, packets |-> <<>>]
                E == <<>>
    <3>1. Start \in Nat /\ Start % Mod \in SeqNumbers
      BY ConstantTypes, ModRange
    <3>2. f \in File /\ f.name = Start /\ f.seq = Start % Mod /\ Len(f.packets) = 0
      BY <3>1 DEF File
    <3>3. files = <<f>>
      BY <1>1, <2>2
    <3>. HIDE DEF f
    <3>4. files \in Seq(File) /\ Len(files) = 1 /\ files[1] = f
      BY <3>2, <3>3
    <3>5. Base(1) = 0
      BY BaseStep
    <3>6. files # <<>>
      BY <3>4
    <3>7. Stored(files, 1) = 0
      BY <3>2, <3>4 DEF Stored
    <3>8. Behind(files) = Start
      BY <3>1, <3>2, <3>4, <3>6, <3>7 DEF Behind
    <3>. QED
      BY <3>1, <3>2, <3>4, <3>5, <3>6, <3>7, <3>8, ConstantTypes DEF Chain
  <2>. QED
    BY <2>1, <2>2
<1>10. Agrees
  BY <1>1, <1>6, <1>7, <1>8, <1>9 DEF Agrees
<1>11. buffer \in [1..MaxBuffers -> Content]
  BY <1>1 DEF Content
<1>12. ServerType
  <2>1. /\ seqLong = Start /\ serial = 0 /\ phase = "up" /\ blanks = 0 /\ saved = FALSE
        /\ aborted = FALSE /\ stops = 0
    BY <1>1
  <2>2. Start \in Nat /\ 0 \in 0..MaxPackets /\ 0 \in 0..Blanks /\ 0 \in 0..MaxStops
    BY ConstantTypes
  <2>. QED
    BY <2>1, <2>2 DEF ServerType
<1>13. ClientType
  BY <1>1, AllIdleType DEF ClientType
<1>14. \A c \in Clients : Placed(sx[c], files, buffer, order)
  BY <1>1, IdlePlaced DEF AllIdle
<1>15. Start <= seqLong /\ seqLong \in Nat /\ phase = "up" /\ ~aborted
  <2>1. Start \in Nat
    BY ConstantTypes
  <2>2. seqLong = Start /\ phase = "up" /\ aborted = FALSE
    BY <1>1
  <2>. QED
    BY <2>1, <2>2
<1>. QED
  BY <1>3, <1>9, <1>10, <1>11, <1>12, <1>13, <1>14, <1>15, InvUp DEF UpParts

LEMMA StutterInv ==
  ASSUME Inv, UNCHANGED vars
  PROVE  Inv'
<1>1. UNCHANGED <<order, buffer, first, free, held, seq, files, seqLong, serial, phase, blanks,
                  saved, aborted, stops, sx, serving, last, from, early>>
  BY DEF vars, memory, disk, server, history
<1>2. TypeOK'
  BY <1>1 DEF Inv, StoreInv, TypeOK, Ring
<1>3. Agrees' <=> Agrees
  BY <1>1 DEF Agrees
<1>4. StoreInv'
  BY <1>1, <1>2, <1>3 DEF Inv, StoreInv
<1>5. ClientInv'
  BY <1>1 DEF Inv, ClientInv
<1>. QED
  BY <1>4, <1>5 DEF Inv

LEMMA NextInv ==
  ASSUME Inv, DiskOutlasts, [Next]_vars
  PROVE  Inv'
<1>1. CASE Ingest
  BY <1>1, GetBufferInv, QueueBufferInv, EnlargeInv DEF Ingest
<1>2. CASE \E c \in Clients : Request(c) \/ Deliver(c)
  BY <1>2, RequestInv, DeliverInv
<1>. QED
  BY <1>1, <1>2, StopInv, CrashInv, RestartInv, CreateBlankInv, StutterInv DEF Next

LEMMA Invariance ==
  ASSUME DiskOutlasts
  PROVE  Spec => []Inv
<1>1. Init => Inv
  BY InitInv
<1>2. Inv /\ [Next]_vars => Inv'
  BY NextInv
<1>. QED
  BY <1>1, <1>2, PTL DEF Spec
-----------------------------------------------------------------------------
\* What the invariant says in the terms of the properties.

LEMMA InvStore == Inv => StoreConsistent
<1>. SUFFICES ASSUME Inv
              PROVE  StoreConsistent
  OBVIOUS
<1>1. Chain(files) /\ Linked(order) /\ seqLong \in Nat /\ TypeOK
  BY InvIs DEF Inv, StoreInv
<1>2. ASSUME phase # "down"
      PROVE  /\ free # None /\ seq = seqLong % Mod
             /\ first = None <=> \A i \in 1..Len(order) : ~Filled(i)
             /\ first # None => buffer[first] # None
  <2>1. Agrees
    BY <1>2, InvIs
  <2>2. free \in 1..MaxBuffers
    BY <1>1, <2>1, HandedIs DEF Agrees
  <2>. QED
    BY <2>1, <2>2, ConstantTypes DEF Agrees, Leading, Filled
<1>3. ASSUME phase # "down", NEW i \in 1..Len(order), Filled(i)
      PROVE  LET content == buffer[order[i]] IN
             /\ i < Len(order) => Filled(i + 1)
             /\ content.packet.number = seqLong - 1 - (Len(order) - i)
             /\ content.seq = content.packet.number % Mod
             /\ OnDisk(content.packet)
  <2>. DEFINE p == buffer[order[i]].packet
  <2>1. Agrees
    BY <1>3, InvIs
  <2>2. /\ \A j \in i..Len(order) : buffer[order[j]] # None
        /\ p.number = seqLong - 1 - (Len(order) - i)
        /\ buffer[order[i]].seq = p.number % Mod
        /\ Holds(files, p)
    BY <1>3, <2>1 DEF Agrees, Recent, Filled
  <2>3. Len(order) \in Nat
    BY <1>1, LinkedSize
  <2>4. i < Len(order) => Filled(i + 1)
    BY <2>2, <2>3 DEF Filled
  <2>5. OnDisk(p)
    <3>. HIDE DEF p
    <3>1. PICK j \in 1..Len(files) : \E k \in 1..Stored(files, j) : files[j].packets[k] = p
      BY <2>2 DEF Holds
    <3>2. PICK k \in 1..Stored(files, j) : files[j].packets[k] = p
      BY <3>1
    <3>3. Stored(files, j) = Size(j)
      BY DEF Stored, Size
    <3>4. /\ files[j].name + k - 1 = p.number /\ files[j].seq = files[j].name % Mod
      BY <1>1, <3>2 DEF Chain
    <3>5. files[j].name \in Nat /\ Stored(files, j) \in Nat
      BY <1>1, FileTypes DEF Chain
    <3>. k - 1 \in Int /\ files[j].name \in Int
      BY <3>5
    <3>6. ((k - 1) + (files[j].name % Mod)) % Mod = ((k - 1) + files[j].name) % Mod
      BY ModSum
    <3>7. files[j].name % Mod \in Int
      <4>1. files[j].name % Mod \in SeqNumbers
        BY ModRange
      <4>2. SeqNumbers \subseteq Int
        BY ConstantTypes DEF SeqNumbers
      <4>. QED
        BY <4>1, <4>2
    <3>8. (files[j].seq + k - 1) % Mod = p.number % Mod
      <4>. DEFINE n == files[j].name
                  v == n % Mod
      <4>1. files[j].seq + k - 1 = (k - 1) + v /\ (k - 1) + n = p.number
        <5>1. n \in Nat /\ v \in Int /\ files[j].seq = v /\ n + k - 1 = p.number
          BY <3>4, <3>5, <3>7
        <5>. HIDE DEF v, n
        <5>. QED
          BY <5>1
      <4>2. ((k - 1) + v) % Mod = ((k - 1) + n) % Mod
        BY <3>6
      <4>. HIDE DEF v, n
      <4>. QED
        BY <4>1, <4>2
    <3>. QED
      BY <3>2, <3>3, <3>4, <3>8 DEF OnDisk
  <2>. QED
    BY <2>2, <2>4, <2>5
<1>. QED
  BY <1>1, <1>2, <1>3 DEF StoreConsistent

LEMMA InvCursors == Inv => CursorsValid
<1>. SUFFICES ASSUME Inv, NEW c \in Clients
              PROVE
    /\ sx[c].file # None =>
         /\ \E i \in 1..Len(files) : files[i].name = sx[c].file
         /\ ReadAt(c) <= Len(FileAt(c).packets)
         /\ SeqAt(c) = Unread(c) % Mod
    /\ sx[c].queue # None => sx[c].queue \in Ring /\ buffer[sx[c].queue] # None
    /\ sx[c].queue # None /\ sx[c].file # None =>
         Unread(c) <= buffer[sx[c].queue].packet.number
  BY DEF CursorsValid
<1>1. Chain(files) /\ sx \in [Clients -> Client] /\ Placed(sx[c], files, buffer, order)
  BY InvIs
<1>2. sx[c].queue # None => sx[c].queue \in Ring /\ buffer[sx[c].queue] # None
  BY <1>1 DEF Placed, Elements, Ring
<1>3. ASSUME sx[c].file # None
      PROVE  /\ \E i \in 1..Len(files) : files[i].name = sx[c].file
             /\ ReadAt(c) <= Len(FileAt(c).packets)
             /\ SeqAt(c) = Unread(c) % Mod
             /\ At(sx[c]) = Unread(c)
  BY <1>1, <1>3, FileAtIs
<1>4. ASSUME sx[c].queue # None, sx[c].file # None
      PROVE  Unread(c) <= buffer[sx[c].queue].packet.number
  BY <1>1, <1>3, <1>4 DEF Placed, InFile, Ahead
<1>. QED
  BY <1>2, <1>3, <1>4
-----------------------------------------------------------------------------
\* What a step leaves in the state of a client.

\* The first file once there is room for another packet.
LEMMA RolledFirst ==
  ASSUME Inv, phase # "down"
  PROVE  Rolled[1].name \in Nat /\ Rolled[1].name # None
<1>1. /\ Chain(files) /\ Behind(files) = seqLong /\ seqLong \in Nat /\ seqLong >= Start
      /\ seq = seqLong % Mod
  BY InvIs, ConstantTypes DEF Agrees
<1>2. Chain(Rolled) /\ Rolled # <<>>
  BY <1>1, RolledIs
<1>3. 1 \in 1..Len(Rolled) /\ Rolled \in Seq(File)
  BY <1>2 DEF Chain
<1>4. Rolled[1].name \in Nat
  BY <1>3, FileTypes
<1>. QED
  BY <1>4, ConstantTypes

LEMMA ForcedFields ==
  ASSUME NEW x \in Client, Rolled[1].name \in Nat, NEW f, f = Forced(x)
  PROVE  /\ f \in Client /\ f.queue = x.queue /\ f.active = x.active /\ f.ready = x.ready
         /\ f.done = x.done /\ f.selective = x.selective /\ f.seq = x.seq
         /\ IF x.file # None /\ x.file < Rolled[1].name
              THEN f.file = Rolled[1].name /\ f.fd = None
              ELSE f.file = x.file /\ f.fd = x.fd
<1>. DEFINE N == Rolled[1].name
<1>1. CASE x.file # None /\ x.file < N
  <2>1. f = [x EXCEPT !.file = N, !.fd = None]
    BY <1>1 DEF Forced
  <2>. HIDE DEF N
  <2>2. N \in Nat
    BY DEF N
  <2>3. /\ f \in Client /\ f.queue = x.queue /\ f.active = x.active /\ f.ready = x.ready
        /\ f.done = x.done /\ f.selective = x.selective /\ f.seq = x.seq
        /\ f.file = N /\ f.fd = None
    BY <2>1, <2>2 DEF Client
  <2>. QED
    BY <1>1, <2>3 DEF N
<1>2. CASE ~(x.file # None /\ x.file < N)
  BY <1>2 DEF Forced
<1>. QED
  BY <1>1, <1>2

\* Whether the new packet p is of no concern to a client.
Ignores(x, p) == ~x.active \/ (x.queue = None /\ ~Matches(x, p))

LEMMA StoredFields ==
  ASSUME NEW x \in Client, Rolled[1].name \in Nat, NEW p, NEW b \in 1..MaxBuffers,
         NEW y, y = Woken(Forced(x), b, p)
  PROVE  /\ y.active = x.active /\ y.done = x.done /\ y.selective = x.selective
         /\ y.seq = x.seq
         /\ IF x.file # None /\ x.file < Rolled[1].name
              THEN y.file = Rolled[1].name /\ y.fd = None
              ELSE y.file = x.file /\ y.fd = x.fd
         /\ IF Ignores(x, p)
              THEN y.queue = x.queue /\ y.ready = x.ready
              ELSE /\ y.queue = IF x.queue = None THEN b ELSE x.queue
                   /\ y.ready = (x.ready \/ x.done)
<1>. DEFINE f == Forced(x)
<1>1. /\ f \in Client /\ f.queue = x.queue /\ f.active = x.active /\ f.ready = x.ready
      /\ f.done = x.done /\ f.selective = x.selective /\ f.seq = x.seq
      /\ IF x.file # None /\ x.file < Rolled[1].name
           THEN f.file = Rolled[1].name /\ f.fd = None
           ELSE f.file = x.file /\ f.fd = x.fd
  BY ForcedFields
<1>2. y = Woken(f, b, p)
  OBVIOUS
<1>. HIDE DEF f
<1>3. Matches(f, p) <=> Matches(x, p)
  BY <1>1 DEF Matches
<1>4. CASE Ignores(x, p)
  <2>1. y = f
    BY <1>1, <1>2, <1>3, <1>4 DEF Woken, Ignores
  <2>. QED
    BY <1>1, <1>4, <2>1
<1>5. CASE ~Ignores(x, p)
  <2>1. y = [f EXCEPT !.queue = IF @ = None THEN b ELSE @, !.ready = @ \/ f.done]
    BY <1>1, <1>2, <1>3, <1>5 DEF Woken, Ignores
  <2>2. y = [f EXCEPT !.queue = IF f.queue = None THEN b ELSE f.queue,
                      !.ready = f.ready \/ f.done]
    BY <1>1, <2>1 DEF Client
  <2>3. /\ y.active = f.active /\ y.done = f.done /\ y.selective = f.selective /\ y.seq = f.seq
        /\ y.file = f.file /\ y.fd = f.fd
        /\ y.queue = (IF f.queue = None THEN b ELSE f.queue) /\ y.ready = (f.ready \/ f.done)
    BY <1>1, <2>2 DEF Client
  <2>. QED
    BY <1>1, <1>5, <2>3
<1>. QED
  BY <1>4, <1>5

LEMMA RecycledFields ==
  ASSUME NEW x \in Client, NEW b, NEW y, y = Recycled(x, b)
  PROVE  /\ y.active = x.active /\ y.done = x.done /\ y.selective = x.selective
         /\ y.ready = x.ready
         /\ y.queue = IF x.queue = b THEN NextOf(b) ELSE x.queue
         /\ x.queue # b => y = x
         /\ x.queue = b /\ x.file # None => y.file = x.file /\ y.fd = x.fd /\ y.seq = x.seq
         /\ x.queue = b /\ x.file = None /\ FileWith(buffer[b].seq) # 0 =>
              LET i == FileWith(buffer[b].seq) IN
              /\ y.file = files[i].name /\ y.fd = Offset(i, buffer[b].seq)
              /\ y.seq = buffer[b].seq
<1>. DEFINE s == buffer[b].seq
            i == FileWith(s)
            o == Offset(i, s)
            z == NextOf(b)
            n == files[i].name
<1>1. CASE x.queue # b
  BY <1>1 DEF Recycled
<1>2. CASE x.queue = b /\ x.file # None
  <2>1. y = [x EXCEPT !.queue = z]
    BY <1>2 DEF Recycled
  <2>. HIDE DEF z
  <2>. QED
    BY <1>2, <2>1 DEF Client, z
<1>3. CASE x.queue = b /\ x.file = None /\ i # 0
  <2>1. y = [x EXCEPT !.queue = z, !.file = n, !.fd = o, !.seq = s]
    BY <1>3 DEF Recycled
  <2>. HIDE DEF z, n, o, s
  <2>2. /\ y.active = x.active /\ y.done = x.done /\ y.selective = x.selective
        /\ y.ready = x.ready /\ y.queue = z /\ y.file = n /\ y.fd = o /\ y.seq = s
    BY <2>1 DEF Client
  <2>. QED
    BY <1>3, <2>2 DEF z, n, o, s
<1>4. CASE x.queue = b /\ x.file = None /\ i = 0
  <2>1. y = [x EXCEPT !.queue = z, !.seq = Next1(@)]
    BY <1>4 DEF Recycled
  <2>. HIDE DEF z, i
  <2>2. /\ y.active = x.active /\ y.done = x.done /\ y.selective = x.selective
        /\ y.ready = x.ready /\ y.queue = z
    BY <2>1 DEF Client
  <2>. QED
    BY <1>4, <2>2 DEF z, i, s
<1>. QED
  BY <1>1, <1>2, <1>3, <1>4

\* The buffer behind buf_free is in the list too.
LEMMA FreeIs ==
  ASSUME Inv, phase # "down"
  PROVE  /\ free \in 1..MaxBuffers /\ free \in Elements(order) /\ free # None
         /\ NextOf(free) \in 1..MaxBuffers /\ NextOf(free) # None
<1>. DEFINE h == Cardinality(held)
<1>1. Linked(order) /\ Handed(order, buffer, held, free)
  BY InvIs DEF Agrees
<1>2. /\ h \in Nat /\ h + 1 \in 1..Len(order) /\ h + 2 \in 1..Len(order) /\ free = order[h + 1]
      /\ free \in 1..MaxBuffers /\ free \in Elements(order)
  BY <1>1, HandedIs
<1>. HIDE DEF h
<1>3. h + 1 # Len(order) /\ (h + 1) + 1 = h + 2
  BY <1>1, <1>2, LinkedSize
<1>4. NextOf(order[h + 1]) = IF h + 1 = Len(order) THEN None ELSE order[(h + 1) + 1]
  BY <1>1, <1>2, PlaceIs
<1>5. order[h + 2] \in 1..MaxBuffers
  BY <1>1, <1>2, LinkedTypes
<1>. QED
  BY <1>2, <1>3, <1>4, <1>5, ConstantTypes
-----------------------------------------------------------------------------
\* What a request asks for: a place from which the client is served anew, or the one
\* behind the last packet that it has received.
Behindhand(c) == Next1(last[c].number % Mod)
Goes(c, place, ready) ==
  /\ last[c] # None /\ seqLong - last[c].number < Mod /\ last' = last
  /\ place = FindPacket(Behindhand(c)) /\ ready = Found(Behindhand(c))
  /\ from' = [from EXCEPT ![c] = IF ready THEN 0 ELSE seqLong]
Asked(c, place, ready) ==
  /\ WellPlaced(place) /\ (~ready => place = Nowhere)
  /\ \/ Anew(c, place) /\ place \in {Nowhere, Oldest} \cup {FindPacket(m) : m \in SeqNumbers}
     \/ Goes(c, place, ready)

LEMMA NotFound ==
  ASSUME NEW m, ~Found(m)
  PROVE  FindPacket(m) = Nowhere
BY DEF Found, FindPacket

LEMMA AskedIs ==
  ASSUME Inv, NEW c \in Clients, NEW mode \in Modes,
         \/ RequestNext(c, mode) \/ RequestAll(c, mode) \/ Resume(c, mode)
         \/ \E m \in 0..(Mod - 1) : RequestFrom(c, m, mode)
  PROVE  \E place : \E ready \in BOOLEAN :
           Serve(c, place, ready, mode) /\ Asked(c, place, ready)
<1>1. /\ Chain(files) /\ Linked(order) /\ seqLong \in Nat /\ ClientType
      /\ sx \in [Clients -> Client] /\ (phase # "down" => Agrees)
  BY InvIs
<1>2. phase = "up"
  BY DEF RequestNext, RequestAll, RequestFrom, Resume, Serve, Listening
<1>3. Agrees
  BY <1>1, <1>2
<1>4. WellPlaced(Nowhere) /\ WellPlaced(Oldest) /\ \A m \in SeqNumbers : WellPlaced(FindPacket(m))
  BY <1>1, <1>3, NowherePlaced, OldestPlaced, FoundPlaced
<1>. DEFINE Goal == \E place : \E ready \in BOOLEAN :
                      Serve(c, place, ready, mode) /\ Asked(c, place, ready)
<1>5. ASSUME RequestNext(c, mode)
      PROVE  Goal
  <2>1. Serve(c, Nowhere, FALSE, mode) /\ Anew(c, Nowhere)
    BY <1>5 DEF RequestNext
  <2>2. Asked(c, Nowhere, FALSE)
    BY <1>4, <2>1 DEF Asked
  <2>. QED
    BY <2>1, <2>2
<1>6. ASSUME RequestAll(c, mode)
      PROVE  Goal
  <2>1. Serve(c, Oldest, TRUE, mode) /\ Anew(c, Oldest)
    BY <1>6 DEF RequestAll
  <2>2. Asked(c, Oldest, TRUE)
    BY <1>4, <2>1 DEF Asked
  <2>. QED
    BY <2>1, <2>2
<1>7. ASSUME NEW m \in 0..(Mod - 1), RequestFrom(c, m, mode)
      PROVE  Goal
  <2>1. Serve(c, FindPacket(m), Found(m), mode) /\ Anew(c, FindPacket(m))
    BY <1>7 DEF RequestFrom
  <2>2. m \in SeqNumbers
    BY DEF SeqNumbers
  <2>3. Found(m) \in BOOLEAN /\ (~Found(m) => FindPacket(m) = Nowhere)
    BY FoundType, NotFound
  <2>4. Asked(c, FindPacket(m), Found(m))
    BY <1>4, <2>1, <2>2, <2>3 DEF Asked
  <2>. QED
    BY <2>1, <2>3, <2>4
<1>8. ASSUME Resume(c, mode)
      PROVE  Goal
  <2>. DEFINE m == Behindhand(c)
  <2>1. /\ Serve(c, FindPacket(m), Found(m), mode) /\ last' = last
        /\ from' = [from EXCEPT ![c] = IF Found(m) THEN 0 ELSE seqLong]
        /\ last[c] # None /\ seqLong - last[c].number < Mod
    BY <1>8 DEF Resume, Behindhand
  <2>2. m \in SeqNumbers
    <3>1. last[c].number \in Nat
      BY <1>1, <2>1 DEF ClientType
    <3>2. last[c].number % Mod \in SeqNumbers
      BY <3>1, ModRange
    <3>3. (last[c].number % Mod) + 1 \in Int
      BY <3>2 DEF SeqNumbers
    <3>. QED
      BY <3>3, ModRange DEF Next1, Behindhand
  <2>3. Goes(c, FindPacket(m), Found(m))
    BY <2>1 DEF Goes
  <2>. HIDE DEF m
  <2>4. Found(m) \in BOOLEAN /\ (~Found(m) => FindPacket(m) = Nowhere)
    BY FoundType, NotFound
  <2>5. Asked(c, FindPacket(m), Found(m))
    BY <1>4, <2>2, <2>3, <2>4 DEF Asked
  <2>. QED
    BY <2>1, <2>4, <2>5
<1>. QED
  BY <1>5, <1>6, <1>7, <1>8

\* A client is marked for delivery, or there is nothing for it to read but a packet
\* that came before the END of its handshake.
Marked(x, e) ==
  /\ ~x.active => ~x.ready /\ x.queue = None /\ x.file = None
  /\ x.active /\ ~x.ready =>
       (x.queue = None /\ x.file = None) \/ (x.queue # None /\ e)
MarkInv == \A c \in Clients : Marked(sx[c], c \in early)

LEMMA IdleMarked == \A e : Marked(Idle, e)
<1>1. ~Idle.active /\ ~Idle.ready /\ Idle.queue = None /\ Idle.file = None
  BY DEF Idle
<1>. QED
  BY <1>1 DEF Marked

LEMMA StoredMarked ==
  ASSUME Inv, phase # "down", NEW x \in Client, NEW p, NEW b \in 1..MaxBuffers,
         NEW y, y = Woken(Forced(x), b, p), NEW c, NEW E, Marked(x, c \in E), NEW D,
         c \in D <=> y.active /\ ~y.ready /\ y.queue # None /\ (c \in E \/ ~x.done)
  PROVE  Marked(y, c \in D)
<1>1. Rolled[1].name \in Nat /\ Rolled[1].name # None
  BY RolledFirst
<1>2. /\ y.active = x.active /\ y.done = x.done
      /\ y.file # None <=> x.file # None
      /\ IF Ignores(x, p)
           THEN y.queue = x.queue /\ y.ready = x.ready
           ELSE /\ y.queue = IF x.queue = None THEN b ELSE x.queue
                /\ y.ready = (x.ready \/ x.done)
  BY <1>1, StoredFields
<1>3. x.active \in BOOLEAN /\ x.ready \in BOOLEAN /\ x.done \in BOOLEAN /\ b # None
  BY ClientFields, ConstantTypes
<1>4. CASE ~x.active
  BY <1>2, <1>4 DEF Marked, Ignores
<1>5. CASE x.active /\ Ignores(x, p)
  <2>1. x.queue = None
    BY <1>5 DEF Ignores
  <2>. QED
    BY <1>2, <1>5, <2>1 DEF Marked
<1>6. CASE x.active /\ ~Ignores(x, p)
  <2>1. y.queue # None
    BY <1>2, <1>3, <1>6
  <2>2. ~y.ready => c \in D
    BY <1>2, <1>3, <1>6, <2>1
  <2>. QED
    BY <1>2, <1>6, <2>1, <2>2 DEF Marked
<1>. QED
  BY <1>4, <1>5, <1>6

LEMMA StoreMark ==
  ASSUME Inv, MarkInv, phase # "down", NEW b \in 1..MaxBuffers,
         NEW kind \in {"main", "other", "blank"}, Store(b, kind)
  PROVE  MarkInv'
<1>1. sx \in [Clients -> Client]
  BY InvIs
<1>2. /\ sx' = [c \in Clients |-> Woken(Forced(sx[c]), b, NewPacket(kind))]
      /\ early' = {c \in Clients : /\ sx'[c].active /\ ~sx'[c].ready /\ sx'[c].queue # None
                                   /\ c \in early \/ ~sx[c].done}
  BY DEF Store, NewPacket
<1>3. ASSUME NEW c \in Clients
      PROVE  Marked(sx'[c], c \in early')
  <2>1. sx[c] \in Client /\ Marked(sx[c], c \in early)
    BY <1>1 DEF MarkInv
  <2>2. sx'[c] = Woken(Forced(sx[c]), b, NewPacket(kind))
    BY <1>2
  <2>3. (c \in early') <=> sx'[c].active /\ ~sx'[c].ready /\ sx'[c].queue # None
                           /\ (c \in early \/ ~sx[c].done)
    BY <1>2
  <2>. QED
    BY <2>1, <2>2, <2>3, StoredMarked
<1>. QED
  BY <1>3 DEF MarkInv

\* A step of client c alone.
LEMMA AloneMark ==
  ASSUME MarkInv, NEW c \in Clients, \A d \in Clients \ {c} : sx'[d] = sx[d],
         early' = early \/ early' = early \ {c}, Marked(sx'[c], c \in early')
  PROVE  MarkInv'
<1>1. ASSUME NEW d \in Clients, d # c
      PROVE  Marked(sx'[d], d \in early')
  <2>1. sx'[d] = sx[d] /\ Marked(sx[d], d \in early) /\ (d \in early' <=> d \in early)
    BY <1>1 DEF MarkInv
  <2>. QED
    BY <2>1 DEF Marked
<1>. QED
  BY <1>1 DEF MarkInv

LEMMA RequestMark ==
  ASSUME Inv, MarkInv, NEW c \in Clients, Request(c)
  PROVE  MarkInv'
<1>1. sx \in [Clients -> Client] /\ sx[c] \in Client /\ Marked(sx[c], c \in early)
  BY InvIs DEF MarkInv
<1>2. ASSUME NEW mode \in Modes,
             \/ RequestNext(c, mode) \/ RequestAll(c, mode) \/ Resume(c, mode)
             \/ \E m \in 0..(Mod - 1) : RequestFrom(c, m, mode)
      PROVE  MarkInv'
  <2>1. PICK place : \E ready \in BOOLEAN :
               Serve(c, place, ready, mode) /\ Asked(c, place, ready)
    BY <1>2, AskedIs
  <2>2. PICK ready \in BOOLEAN : Serve(c, place, ready, mode) /\ Asked(c, place, ready)
    BY <2>1
  <2>3. WellPlaced(place) /\ (~ready => place = Nowhere)
    BY <2>2 DEF Asked
  <2>4. /\ Moves(c) /\ early' = early \ {c} /\ sx'[c].active /\ sx'[c].ready = ready
        /\ sx'[c].queue = place.queue /\ sx'[c].file = place.file
    BY <1>1, <2>2, <2>3, ServeIs
  <2>5. Nowhere.queue = None /\ Nowhere.file = None
    BY DEF Nowhere
  <2>6. Marked(sx'[c], c \in early')
    BY <2>3, <2>4, <2>5 DEF Marked
  <2>. QED
    BY <2>4, <2>6, AloneMark DEF Moves
<1>3. CASE Select(c)
  <2>. DEFINE m == sx[c].multi
              y == [Idle EXCEPT !.on = TRUE, !.multi = m]
  <2>1. sx' = [sx EXCEPT ![c] = y] /\ early' = early \ {c}
    BY <1>3 DEF Select
  <2>. HIDE DEF m
  <2>2. ~y.active /\ ~y.ready /\ y.queue = None /\ y.file = None
    BY DEF Idle
  <2>. HIDE DEF y
  <2>3. sx'[c] = y /\ \A d \in Clients \ {c} : sx'[d] = sx[d]
    BY <1>1, <2>1
  <2>4. Marked(sx'[c], c \in early')
    BY <2>2, <2>3 DEF Marked
  <2>. QED
    BY <2>1, <2>3, <2>4, AloneMark
<1>4. CASE EndHandshake(c)
  <2>. DEFINE y == [sx[c] EXCEPT !.done = TRUE]
  <2>1. sx' = [sx EXCEPT ![c] = y] /\ early' = early
    BY <1>4 DEF EndHandshake
  <2>2. /\ y.active = sx[c].active /\ y.queue = sx[c].queue /\ y.file = sx[c].file
        /\ y.ready = sx[c].ready
    BY <1>1 DEF Client
  <2>. HIDE DEF y
  <2>3. sx'[c] = y /\ \A d \in Clients \ {c} : sx'[d] = sx[d]
    BY <1>1, <2>1
  <2>4. Marked(sx'[c], c \in early')
    BY <1>1, <2>1, <2>2, <2>3 DEF Marked
  <2>. QED
    BY <2>1, <2>3, <2>4, AloneMark
<1>5. CASE Close(c)
  <2>1. sx' = [sx EXCEPT ![c] = Idle] /\ early' = early \ {c}
    BY <1>5 DEF Close
  <2>2. sx'[c] = Idle /\ \A d \in Clients \ {c} : sx'[d] = sx[d]
    BY <1>1, <2>1
  <2>. QED
    BY <2>1, <2>2, AloneMark, IdleMarked
<1>. QED
  BY <1>2, <1>3, <1>4, <1>5 DEF Request

LEMMA DeliverMark ==
  ASSUME Inv, MarkInv, NEW c \in Clients, Deliver(c)
  PROVE  MarkInv'
<1>1. sx \in [Clients -> Client] /\ sx[c] \in Client /\ Marked(sx[c], c \in early)
  BY InvIs DEF MarkInv
<1>2. sx[c].ready
  BY DEF Deliver, SwitchToMemory, EndOfFile, ReadFile, ReadMemory, NothingLeft, Delivering
<1>3. ASSUME NEW y, sx' = [sx EXCEPT ![c] = y], early' = early, Marked(y, c \in early)
      PROVE  MarkInv'
  <2>1. sx'[c] = y /\ \A d \in Clients \ {c} : sx'[d] = sx[d]
    BY <1>1, <1>3
  <2>. QED
    BY <1>3, <2>1, AloneMark
<1>4. ASSUME NEW y, y.active = sx[c].active, y.ready = sx[c].ready, sx[c].active
      PROVE  Marked(y, c \in early)
  BY <1>2, <1>4 DEF Marked
<1>5. CASE SwitchToMemory(c)
  <2>. DEFINE y == [sx[c] EXCEPT !.file = None, !.fd = None]
  <2>1. sx' = [sx EXCEPT ![c] = y] /\ early' = early /\ sx[c].file # None
    BY <1>5 DEF SwitchToMemory, Reached
  <2>2. y.active = sx[c].active /\ y.ready = sx[c].ready /\ sx[c].active
    BY <1>1, <2>1 DEF Client, Marked
  <2>. QED
    BY <1>3, <1>4, <2>1, <2>2
<1>6. CASE EndOfFile(c)
  <2>. DEFINE g == FileAfter(sx[c].file)
              t == SeqAt(c)
              y == [sx[c] EXCEPT !.file = g, !.fd = None, !.seq = t]
  <2>1. sx' = [sx EXCEPT ![c] = y] /\ early' = early /\ sx[c].file # None
    BY <1>1, <1>6 DEF EndOfFile, Client
  <2>. HIDE DEF g, t
  <2>2. y.active = sx[c].active /\ y.ready = sx[c].ready /\ sx[c].active
    BY <1>1, <2>1 DEF Client, Marked
  <2>. QED
    BY <1>3, <1>4, <2>1, <2>2
<1>7. CASE ReadFile(c)
  <2>. DEFINE r == ReadAt(c) + 1
              t == Next1(SeqAt(c))
              y == [sx[c] EXCEPT !.fd = r, !.seq = t]
  <2>1. sx' = [sx EXCEPT ![c] = y] /\ early' = early /\ sx[c].file # None
    BY <1>7 DEF ReadFile, Send
  <2>. HIDE DEF r, t
  <2>2. y.active = sx[c].active /\ y.ready = sx[c].ready /\ sx[c].active
    BY <1>1, <2>1 DEF Client, Marked
  <2>. QED
    BY <1>3, <1>4, <2>1, <2>2
<1>8. CASE ReadMemory(c)
  <2>. DEFINE z == NextOf(sx[c].queue)
              t == Next1(buffer[sx[c].queue].seq)
              y == [sx[c] EXCEPT !.queue = z, !.seq = t]
  <2>0. sx[c].queue # None /\ buffer[sx[c].queue] # None
    BY <1>8, InvIs DEF ReadMemory, Placed
  <2>1. sx' = [sx EXCEPT ![c] = y] /\ early' = early
    BY <1>1, <1>8, <2>0 DEF ReadMemory, Send, Client
  <2>. HIDE DEF z, t
  <2>2. y.active = sx[c].active /\ y.ready = sx[c].ready /\ sx[c].active
    BY <1>1, <2>0 DEF Client, Marked
  <2>. QED
    BY <1>3, <1>4, <2>1, <2>2
<1>9. CASE NothingLeft(c)
  <2>. DEFINE a == sx[c].realtime
              y == [sx[c] EXCEPT !.ready = FALSE, !.active = a]
  <2>1. /\ sx' = [sx EXCEPT ![c] = y] /\ early' = early
        /\ sx[c].queue = None /\ sx[c].file = None
    BY <1>9 DEF NothingLeft
  <2>. HIDE DEF a
  <2>2. ~y.ready /\ y.queue = None /\ y.file = None
    BY <1>1, <2>1 DEF Client
  <2>3. Marked(y, c \in early)
    BY <2>2 DEF Marked
  <2>. QED
    BY <1>3, <2>1, <2>3
<1>. QED
  BY <1>5, <1>6, <1>7, <1>8, <1>9 DEF Deliver

LEMMA GetBufferMark ==
  ASSUME Inv, MarkInv, GetBuffer
  PROVE  MarkInv'
<1>1. sx \in [Clients -> Client] /\ phase = "up" /\ early' = early
  BY InvIs DEF GetBuffer
<1>2. ASSUME NEW c \in Clients
      PROVE  Marked(sx'[c], c \in early')
  <2>1. sx'[c] = IF buffer[free] = None THEN sx[c] ELSE Recycled(sx[c], free)
    BY <1>1 DEF GetBuffer
  <2>2. sx[c] \in Client /\ Marked(sx[c], c \in early)
    BY <1>1 DEF MarkInv
  <2>3. CASE buffer[free] # None
    <3>. DEFINE y == Recycled(sx[c], free)
    <3>1. /\ y.active = sx[c].active /\ y.ready = sx[c].ready
          /\ y.queue = IF sx[c].queue = free THEN NextOf(free) ELSE sx[c].queue
          /\ sx[c].queue # free => y = sx[c]
      BY <2>2, RecycledFields
    <3>2. free # None /\ NextOf(free) # None
      BY <1>1, FreeIs
    <3>. HIDE DEF y
    <3>3. Marked(y, c \in early)
      BY <2>2, <3>1, <3>2 DEF Marked
    <3>. QED
      BY <1>1, <2>1, <2>3, <3>3 DEF y
  <2>4. CASE buffer[free] = None
    BY <1>1, <2>1, <2>2, <2>4
  <2>. QED
    BY <2>3, <2>4
<1>. QED
  BY <1>2 DEF MarkInv

LEMMA NextMark ==
  ASSUME Inv, MarkInv, [Next]_vars
  PROVE  MarkInv'
<1>1. ASSUME UNCHANGED <<sx, early>>
      PROVE  MarkInv'
  BY <1>1 DEF MarkInv
<1>2. ASSUME AllOff
      PROVE  MarkInv'
  BY <1>2, IdleMarked DEF AllOff, MarkInv
<1>3. CASE \E b \in 1..MaxBuffers, kind \in {"main", "other"} : QueueBuffer(b, kind)
  BY <1>3, StoreMark DEF QueueBuffer
<1>4. CASE \E b \in 1..MaxBuffers : EnlargeBy(b)
  BY <1>1, <1>4 DEF EnlargeBy
<1>5. CASE Stop \/ Crash
  BY <1>2, <1>5 DEF Stop, Crash
<1>6. CASE Restart
  BY <1>1, <1>6 DEF Restart
<1>7. CASE CreateBlank
  <2>1. Store(free, "blank") /\ phase = "recovering"
    BY <1>7 DEF CreateBlank
  <2>2. free \in 1..MaxBuffers
    BY <2>1, FreeIs
  <2>. QED
    BY <2>1, <2>2, StoreMark
<1>8. CASE \E c \in Clients : Request(c) \/ Deliver(c)
  BY <1>8, RequestMark, DeliverMark
<1>9. CASE UNCHANGED vars
  BY <1>1, <1>9 DEF vars
<1>. QED
  BY <1>3, <1>4, <1>5, <1>6, <1>7, <1>8, <1>9, GetBufferMark DEF Next, Ingest

LEMMA MarkScheduled == MarkInv => Scheduled
BY DEF MarkInv, Marked, Scheduled
-----------------------------------------------------------------------------
\* The number of the packet that a client reads next.  It is the same whether the
\* packet is read from memory or from disk, and it does not decrease.
Pos(x, F, B) == IF x.file # None THEN At(x) ELSE Ahead(x, F, B)

\* Where a file has not been opened, the sequence number is one that was read before.
Fresh(x) == x.file # None /\ x.fd = None => \E u \in Start..At(x) : x.seq = u % Mod

LEMMA RecycledPos ==
  ASSUME Chain(files), Linked(order), Agrees, seqLong \in Nat, free \in 1..MaxBuffers,
         free \in Elements(order), buffer \in [1..MaxBuffers -> Content],
         NEW x \in Client, Placed(x, files, buffer, order), Fresh(x),
         NEW C, C = [buffer EXCEPT ![free] = None],
         NEW y, y = IF buffer[free] = None THEN x ELSE Recycled(x, free)
  PROVE  Pos(y, files, C) = Pos(x, files, buffer) /\ Fresh(y)
<1>1. C[free] = None /\ \A b \in 1..MaxBuffers : b # free => C[b] = buffer[b]
  OBVIOUS
<1>2. /\ x.queue \in 1..MaxBuffers \cup {None}
      /\ x.queue # None => x.queue \in Elements(order) /\ buffer[x.queue] # None
  BY ClientFields DEF Placed
<1>3. CASE x.queue # free \/ buffer[free] = None
  <2>1. y = x
    BY <1>3 DEF Recycled
  <2>2. x.queue # None => C[x.queue] = buffer[x.queue]
    BY <1>1, <1>2, <1>3
  <2>3. Ahead(x, files, C) = Ahead(x, files, buffer)
    BY <2>2 DEF Ahead
  <2>. QED
    BY <2>1, <2>3 DEF Pos
<1>4. CASE x.queue = free /\ buffer[free] # None /\ x.file # None
  <2>1. y.file = x.file /\ y.fd = x.fd /\ y.seq = x.seq
    BY <1>4, RecycledFields
  <2>2. At(y) = At(x)
    BY <2>1 DEF At
  <2>. QED
    BY <1>4, <2>1, <2>2 DEF Pos, Fresh
<1>5. CASE x.queue = free /\ buffer[free] # None /\ x.file = None
  <2>. DEFINE n == buffer[free].packet.number
              s == buffer[free].seq
  <2>1. PICK j \in 1..Len(order) : free = order[j]
    BY DEF Elements
  <2>2. s = n % Mod /\ Holds(files, buffer[free].packet)
    BY <1>5, <2>1 DEF Agrees, Recent
  <2>3. PICK i \in 1..Len(files) : files[i].name <= n /\ n < files[i].name + Stored(files, i)
    BY <2>2, HeldNumber
  <2>4. n \in Nat
    BY <2>2, HeldNumber
  <2>5. FileWith(n % Mod) = i /\ Offset(i, n % Mod) = n - files[i].name
    BY <2>3, <2>4, FileWithIs DEF Size, Stored
  <2>6. files[i].name \in Nat /\ i # 0
    BY ChainRange
  <2>7. y.file = files[i].name /\ y.fd = n - files[i].name
    BY <1>5, <2>2, <2>5, <2>6, RecycledFields
  <2>8. Pos(x, files, buffer) = n
    BY <1>2, <1>5, ConstantTypes DEF Pos, Ahead
  <2>. HIDE DEF n
  <2>9. n - files[i].name \in Nat
    BY <2>3, <2>4, <2>6
  <2>10. y.fd # None /\ y.file # None
    BY <2>6, <2>7, <2>9, ConstantTypes
  <2>11. At(y) = n
    BY <2>4, <2>6, <2>7, <2>10 DEF At
  <2>. QED
    BY <2>8, <2>10, <2>11 DEF Pos, Fresh
<1>. QED
  BY <1>3, <1>4, <1>5

LEMMA StoredPos ==
  ASSUME Chain(files), Linked(order), Agrees, seqLong \in Nat, seqLong >= Start,
         buffer \in [1..MaxBuffers -> Content], NEW p \in Packet, p.number = seqLong,
         NEW b \in Elements(order), buffer[b] = None,
         NEW G, G = WithLast(Rolled, Append(Rolled[Len(Rolled)].packets, p)),
         NEW C, C = WithPacket(buffer, b, seq, p),
         NEW x \in Client, Placed(x, files, buffer, order), Fresh(x),
         NEW y, y = Woken(Forced(x), b, p)
  PROVE  /\ Pos(x, files, buffer) <= Pos(y, G, C) /\ Fresh(y)
         /\ x.active => \A q : Holds(G, q) /\ q.number < Pos(y, G, C) =>
              \/ Holds(files, q) /\ q.number < Pos(x, files, buffer)
              \/ q = p /\ ~Matches(x, p)
<1>. DEFINE N == Rolled[1].name
<1>1. /\ Chain(G) /\ G # <<>> /\ Behind(G) = seqLong + 1 /\ Holds(G, p)
      /\ G[1].name = N /\ N \in Nat
      /\ \A q : Holds(G, q) => q = p \/ Holds(files, q)
      /\ \A i \in 1..Len(files) : files[i].name < N =>
           files[i].name + Stored(files, i) <= N
      /\ seq = seqLong % Mod /\ Behind(files) = seqLong
  BY WrittenIs DEF Agrees
<1>2. seq \in SeqNumbers
  BY <1>1, ModRange
<1>3. /\ C[b] # None /\ C[b].packet = p
      /\ \A a \in 1..MaxBuffers : a # b => C[a] = buffer[a]
  <2>1. PICK q \in 1..Len(order) : b = order[q]
    BY DEF Elements
  <2>. QED
    BY <1>2, <2>1, StoredContent
<1>. b \in 1..MaxBuffers
  BY LinkedSize
<1>4. /\ x.queue \in 1..MaxBuffers \cup {None} /\ x.file \in Nat \cup {None}
      /\ x.fd \in (0..SegmentSize) \cup {None} /\ b # None
      /\ x.file # None => At(x) \in Nat /\ At(x) >= x.file
  BY ClientFields, ConstantTypes
<1>5. /\ y.seq = x.seq
      /\ IF x.file # None /\ x.file < N
           THEN y.file = N /\ y.fd = None
           ELSE y.file = x.file /\ y.fd = x.fd
      /\ IF Ignores(x, p)
           THEN y.queue = x.queue
           ELSE y.queue = IF x.queue = None THEN b ELSE x.queue
  BY <1>1, StoredFields
<1>. HIDE DEF N
<1>6. \A q : Holds(G, q) => q.number >= N
  BY <1>1, HeldNumber
<1>7. ASSUME NEW q, Holds(files, q)
      PROVE  q.number \in Nat /\ q.number < seqLong
  BY <1>1, <1>7, HeldNumber
<1>8. CASE x.file # None
  <2>1. PICK i \in 1..Len(files) :
          /\ files[i].name = x.file
          /\ x.fd # None => x.fd <= Stored(files, i) /\ x.seq = At(x) % Mod
    BY <1>8 DEF Placed, InFile
  <2>2. files[i].name >= Start /\ files[i].name \in Nat /\ Stored(files, i) \in 0..SegmentSize
    BY ChainRange DEF Chain
  <2>3. Pos(x, files, buffer) = At(x)
    BY <1>8 DEF Pos
  <2>4. x.file \in Nat /\ At(x) \in Nat /\ At(x) >= x.file /\ x.file >= Start
    BY <1>4, <1>8, <2>1, <2>2
  <2>5. At(x) <= seqLong
    <3>1. At(x) <= Ahead(x, files, buffer)
      BY <1>8 DEF Placed, InFile
    <3>2. x.queue # None => Ahead(x, files, buffer) \in Nat /\ Ahead(x, files, buffer) < seqLong
      <4>1. SUFFICES ASSUME x.queue # None
                     PROVE  Ahead(x, files, buffer) \in Nat /\ Ahead(x, files, buffer) < seqLong
        OBVIOUS
      <4>2. x.queue \in Elements(order) /\ buffer[x.queue] # None
        BY <4>1 DEF Placed
      <4>3. PICK j \in 1..Len(order) : x.queue = order[j]
        BY <4>2 DEF Elements
      <4>4. Holds(files, buffer[x.queue].packet)
        BY <4>2, <4>3 DEF Agrees, Recent
      <4>. QED
        BY <1>7, <4>1, <4>4 DEF Ahead
    <3>3. x.queue = None => Ahead(x, files, buffer) = seqLong
      BY <1>1 DEF Ahead
    <3>. QED
      BY <2>4, <3>1, <3>2, <3>3
  <2>6. CASE x.file < N
    <3>1. y.file = N /\ y.fd = None /\ N # None
      BY <1>1, <1>5, <1>8, <2>6, ConstantTypes
    <3>2. At(y) = N /\ Pos(y, G, C) = N
      BY <1>1, <3>1 DEF At, Pos
    <3>3. x.file + Stored(files, i) <= N
      BY <1>1, <2>1, <2>6
    <3>4. At(x) <= N
      BY <1>1, <1>4, <2>1, <2>2, <2>4, <2>6, <3>3, ConstantTypes DEF At
    <3>5. \E u \in Start..N : x.seq = u % Mod
      <4>1. CASE x.fd = None
        <5>1. PICK u \in Start..At(x) : x.seq = u % Mod
          BY <1>8, <4>1 DEF Fresh
        <5>2. u \in Start..N
          BY <1>1, <2>4, <3>4, <5>1, ConstantTypes
        <5>. QED
          BY <5>1, <5>2
      <4>2. CASE x.fd # None
        <5>1. At(x) \in Start..N
          BY <1>1, <2>4, <3>4, ConstantTypes
        <5>. QED
          BY <2>1, <4>2, <5>1
      <4>. QED
        BY <4>1, <4>2
    <3>6. Fresh(y)
      BY <1>5, <3>2, <3>5 DEF Fresh
    <3>7. \A q : Holds(G, q) => ~(q.number < Pos(y, G, C))
      <4>1. SUFFICES ASSUME NEW q, Holds(G, q) PROVE ~(q.number < N)
        BY <3>2
      <4>2. q.number \in Nat
        BY <1>1, <4>1, HeldNumber
      <4>. QED
        BY <1>1, <1>6, <4>1, <4>2
    <3>. QED
      BY <2>3, <3>2, <3>4, <3>6, <3>7
  <2>7. CASE ~(x.file < N)
    <3>1. y.file = x.file /\ y.fd = x.fd
      BY <1>5, <2>7
    <3>2. At(y) = At(x) /\ Pos(y, G, C) = At(x)
      BY <1>8, <3>1 DEF At, Pos
    <3>3. Fresh(y)
      BY <1>5, <3>1, <3>2 DEF Fresh
    <3>4. ASSUME NEW q, Holds(G, q), q.number < Pos(y, G, C)
          PROVE  Holds(files, q)
      <4>1. q # p
        BY <2>4, <2>5, <3>2, <3>4
      <4>. QED
        BY <1>1, <3>4, <4>1
    <3>. QED
      BY <2>3, <2>4, <3>2, <3>3, <3>4
  <2>. QED
    BY <2>6, <2>7
<1>9. CASE x.file = None
  <2>1. y.file = None
    BY <1>5, <1>9
  <2>2. /\ Pos(x, files, buffer) = Ahead(x, files, buffer) /\ Pos(y, G, C) = Ahead(y, G, C)
        /\ Fresh(y)
    BY <1>9, <2>1 DEF Pos, Fresh
  <2>3. CASE x.queue # None
    <3>1. y.queue = x.queue
      BY <1>5, <2>3
    <3>2. x.queue \in Elements(order) /\ buffer[x.queue] # None
      BY <2>3 DEF Placed
    <3>3. C[x.queue] = buffer[x.queue]
      BY <1>3, <1>4, <2>3, <3>2
    <3>4. Ahead(y, G, C) = Ahead(x, files, buffer) /\ Ahead(x, files, buffer) = buffer[x.queue].packet.number
      BY <2>3, <3>1, <3>3 DEF Ahead
    <3>5. Ahead(x, files, buffer) \in Nat /\ Ahead(x, files, buffer) < seqLong
      <4>1. PICK j \in 1..Len(order) : x.queue = order[j]
        BY <3>2 DEF Elements
      <4>2. Holds(files, buffer[x.queue].packet)
        BY <3>2, <4>1 DEF Agrees, Recent
      <4>. QED
        BY <1>7, <3>4, <4>2
    <3>6. ASSUME NEW q, Holds(G, q), q.number < Ahead(x, files, buffer)
          PROVE  Holds(files, q)
      BY <1>1, <3>5, <3>6
    <3>. QED
      BY <2>2, <3>4, <3>5, <3>6
  <2>4. CASE x.queue = None
    <3>1. Ahead(x, files, buffer) = seqLong
      BY <1>1, <2>4 DEF Ahead
    <3>2. ASSUME NEW q, Holds(G, q), q # p
          PROVE  Holds(files, q) /\ q.number < seqLong
      BY <1>1, <1>7, <3>2
    <3>3. CASE Ignores(x, p)
      <4>1. y.queue = None
        BY <1>5, <2>4, <3>3
      <4>2. Ahead(y, G, C) = seqLong + 1
        BY <1>1, <4>1 DEF Ahead
      <4>3. x.active => ~Matches(x, p)
        BY <3>3 DEF Ignores
      <4>. QED
        BY <2>2, <3>1, <3>2, <4>2, <4>3
    <3>4. CASE ~Ignores(x, p)
      <4>1. y.queue = b
        BY <1>5, <2>4, <3>4
      <4>2. Ahead(y, G, C) = seqLong
        BY <1>3, <1>4, <4>1 DEF Ahead
      <4>. QED
        BY <2>2, <3>1, <3>2, <4>2
    <3>. QED
      BY <3>3, <3>4
  <2>. QED
    BY <2>3, <2>4
<1>. QED
  BY <1>8, <1>9

\* The packet in a buffer is on disk, and not before the first file.
LEMMA QueueHeld ==
  ASSUME Chain(files), Linked(order), Agrees, seqLong \in Nat, NEW b \in Elements(order),
         buffer[b] # None
  PROVE  /\ Holds(files, buffer[b].packet) /\ buffer[b].packet \in Packet
         /\ buffer[b].packet.number \in Nat /\ buffer[b].packet.number < seqLong
         /\ files # <<>> /\ files[1].name <= buffer[b].packet.number
         /\ buffer[b].seq = buffer[b].packet.number % Mod
<1>1. PICK j \in 1..Len(order) : b = order[j]
  BY DEF Elements
<1>2. /\ Holds(files, buffer[b].packet)
      /\ buffer[b].seq = buffer[b].packet.number % Mod
  BY <1>1 DEF Agrees, Recent
<1>. QED
  BY <1>2, HeldNumber DEF Agrees

LEMMA FirstFile ==
  ASSUME Chain(files), Agrees, seqLong \in Nat, files # <<>>
  PROVE  /\ 1 \in 1..Len(files) /\ files[1].name \in Nat /\ files[1].name >= Start
         /\ files[1].seq = files[1].name % Mod /\ files[1].seq \in SeqNumbers
         /\ files[1].name <= seqLong /\ seqLong <= files[1].name + Room
<1>1. 1 \in 1..Len(files)
  <2>1. files \in Seq(File)
    BY DEF Chain
  <2>. QED
    BY <2>1
<1>2. /\ files[1].name \in Nat /\ Stored(files, 1) \in 0..SegmentSize
      /\ files[1].name + Stored(files, 1) <= seqLong /\ seqLong <= files[1].name + Room
  BY <1>1, ChainRange DEF Agrees
<1>3. /\ files[1].name >= Start /\ files[1].seq = files[1].name % Mod
      /\ files[1].seq \in SeqNumbers
  BY <1>1, FileTypes DEF Chain
<1>. QED
  BY <1>1, <1>2, <1>3

LEMMA InBufferIs ==
  ASSUME Chain(files), Linked(order), Agrees, seqLong \in Nat, NEW m \in SeqNumbers,
         InMemory(m) # None, NEW p, p = InBuffer(InMemory(m))
  PROVE  /\ Pos(p, files, buffer) = p.number /\ Fresh(p)
         /\ p.number \in Nat /\ p.number % Mod = m /\ p.number < seqLong
         /\ files # <<>> /\ files[1].name <= p.number
<1>1. /\ WellPlaced(p) /\ p.number % Mod = m /\ p.number < seqLong
      /\ p.number = buffer[p.queue].packet.number /\ p.queue # None /\ p.file = None
  BY InBufferPlaced
<1>2. p.queue \in Elements(order) /\ buffer[p.queue] # None /\ p.number \in Nat
  BY <1>1 DEF WellPlaced, Placed
<1>3. files # <<>> /\ files[1].name <= p.number
  BY <1>1, <1>2, QueueHeld
<1>. QED
  BY <1>1, <1>2, <1>3 DEF Pos, Ahead, Fresh

LEMMA NowhereIs ==
  ASSUME Agrees
  PROVE  Pos(Nowhere, files, buffer) = seqLong /\ Nowhere.number = seqLong /\ Fresh(Nowhere)
BY DEF Nowhere, Pos, Ahead, Fresh, Agrees

LEMMA OldestIs ==
  ASSUME Chain(files), Linked(order), Agrees, seqLong \in Nat
  PROVE  /\ Pos(Oldest, files, buffer) = Oldest.number /\ Fresh(Oldest)
         /\ Oldest.number = IF files = <<>> THEN seqLong ELSE files[1].name
<1>1. CASE files = <<>>
  <2>1. Oldest = [Nowhere EXCEPT !.queue = first, !.seq = 0]
    BY <1>1 DEF Oldest
  <2>2. first = None
    BY <1>1, FirstPlaced
  <2>3. Oldest.queue = None /\ Oldest.file = None /\ Oldest.number = seqLong
    BY <2>1, <2>2 DEF Nowhere
  <2>. QED
    BY <1>1, <2>3 DEF Pos, Ahead, Fresh, Agrees
<1>2. CASE files # <<>> /\ InMemory(files[1].seq) # None
  <2>. DEFINE p == Oldest
  <2>1. p = InBuffer(InMemory(files[1].seq))
    BY <1>2 DEF Oldest
  <2>2. /\ files[1].name \in Nat /\ files[1].seq = files[1].name % Mod
        /\ files[1].seq \in SeqNumbers /\ seqLong <= files[1].name + Room
    BY <1>2, FirstFile
  <2>3. /\ Pos(p, files, buffer) = p.number /\ Fresh(p)
        /\ p.number \in Nat /\ p.number % Mod = files[1].seq /\ p.number < seqLong
        /\ files[1].name <= p.number
    BY <1>2, <2>1, <2>2, InBufferIs
  <2>. HIDE DEF p
  <2>4. p.number = files[1].name
    <3>. DEFINE n == p.number
                k == files[1].name
    <3>1. n \in Int /\ k \in Int /\ n % Mod = k % Mod /\ n - k < Mod /\ k - n < Mod
      BY <2>2, <2>3, RingFits, ConstantTypes
    <3>. HIDE DEF n, k
    <3>2. n = k
      BY <3>1, ModSame
    <3>. QED
      BY <3>2 DEF n, k
  <2>. QED
    BY <1>2, <2>3, <2>4 DEF p
<1>3. CASE files # <<>> /\ InMemory(files[1].seq) = None
  <2>. DEFINE p == Oldest
  <2>1. p = [queue |-> first, file |-> files[1].name, fd |-> None, seq |-> files[1].seq,
             number |-> files[1].name]
    BY <1>3 DEF Oldest
  <2>2. /\ files[1].name \in Nat /\ files[1].name >= Start
        /\ files[1].seq = files[1].name % Mod
    BY <1>3, FirstFile
  <2>3. p.file = files[1].name /\ p.fd = None /\ p.seq = files[1].seq /\ p.number = files[1].name
    BY <2>1
  <2>. HIDE DEF p
  <2>4. p.file # None /\ At(p) = files[1].name
    BY <2>2, <2>3, ConstantTypes DEF At
  <2>5. files[1].name \in Start..files[1].name
    BY <2>2, ConstantTypes
  <2>6. Fresh(p)
    BY <2>2, <2>3, <2>4, <2>5 DEF Fresh
  <2>. QED
    BY <1>3, <2>3, <2>4, <2>6 DEF Pos, p
<1>. QED
  BY <1>1, <1>2, <1>3

\* Where find_packet() leads: to the packet, or to the next one; else to nothing, or to
\* the oldest packet when it is neither in memory nor on disk.
LEMMA FoundIs ==
  ASSUME Chain(files), Linked(order), Agrees, seqLong \in Nat, NEW m \in SeqNumbers,
         NEW p, p = FindPacket(m)
  PROVE  /\ Pos(p, files, buffer) = p.number /\ Fresh(p) /\ p.number \in Nat
         /\ \/ /\ p.number % Mod = m /\ p.number < seqLong
               /\ files # <<>> /\ files[1].name <= p.number
            \/ p.number = seqLong /\ (m = seq \/ ~Found(m))
            \/ p = Oldest /\ FileWith(m) = 0 /\ m # seq
<1>0. WellPlaced(p)
  BY FoundPlaced
<1>00. p.number \in Nat
  BY <1>0 DEF WellPlaced
<1>1. CASE InMemory(m) # None
  <2>1. p = InBuffer(InMemory(m))
    BY <1>1 DEF FindPacket
  <2>. QED
    BY <1>1, <2>1, InBufferIs
<1>2. CASE InMemory(m) = None /\ FileWith(m) # 0
  <2>. DEFINE i == FileWith(m)
              d == Offset(i, m)
  <2>1. p = [queue |-> first, file |-> files[i].name, fd |-> d, seq |-> m,
             number |-> files[i].name + d]
    BY <1>2 DEF FindPacket
  <2>2. p.file = files[i].name /\ p.fd = d /\ p.number = files[i].name + d
    BY <2>1
  <2>3. /\ i \in 1..Len(files) /\ d \in Nat /\ d < Size(i) /\ (files[i].name + d) % Mod = m
    BY <1>2, FileWithSound
  <2>4. /\ files[i].name \in Nat /\ Stored(files, i) \in 0..SegmentSize /\ d < Stored(files, i)
        /\ files[i].name + Stored(files, i) <= seqLong /\ files # <<>>
    BY <2>3, ChainRange DEF Size, Stored, Agrees
  <2>5. files[1].name <= files[i].name
    BY <2>3, ChainOrder
  <2>6. files[1].name \in Nat
    BY <2>4, FirstFile
  <2>. HIDE DEF i, d
  <2>7. p.file # None /\ p.fd # None /\ At(p) = p.number
    BY <2>2, <2>3, <2>4, ConstantTypes DEF At
  <2>8. p.number < seqLong /\ files[1].name <= p.number /\ p.number % Mod = m
    BY <2>2, <2>3, <2>4, <2>5, <2>6
  <2>. QED
    BY <1>00, <2>4, <2>7, <2>8 DEF Pos, Fresh
<1>3. CASE InMemory(m) = None /\ FileWith(m) = 0 /\ (m = seq \/ TooFar(m))
  <2>1. p = Nowhere
    BY <1>3 DEF FindPacket
  <2>2. m = seq \/ ~Found(m)
    BY <1>3 DEF Found
  <2>. QED
    BY <1>00, <2>1, <2>2, NowhereIs
<1>4. CASE InMemory(m) = None /\ FileWith(m) = 0 /\ ~(m = seq \/ TooFar(m))
  <2>1. p = Oldest
    BY <1>4 DEF FindPacket
  <2>. QED
    BY <1>00, <1>4, <2>1, OldestIs
<1>. QED
  BY <1>1, <1>2, <1>3, <1>4

\* If numbers have the same remainder and the first is less than Mod above the
\* second, it is not above.
LEMMA ModBelow ==
  ASSUME NEW x \in Int, NEW y \in Int, x % Mod = y % Mod, x - y < Mod
  PROVE  x <= y
<1>1. CASE y - x < Mod
  BY <1>1, ModSame
<1>2. CASE ~(y - x < Mod)
  BY <1>2, ConstantTypes
<1>. QED
  BY <1>1, <1>2

\* A client that goes on behind packet n gets no older packet, and skips none that is
\* still there.
LEMMA ResumeIs ==
  ASSUME Chain(files), Linked(order), Agrees, seqLong \in Nat, NEW n \in Nat,
         seqLong - n < Mod, NEW p, p = FindPacket(Next1(n % Mod))
  PROVE  /\ Found(Next1(n % Mod)) =>
              p.number <= n + 1 \/ \A q : Holds(files, q) => p.number <= q.number
         /\ n < seqLong => n < p.number
<1>. DEFINE m == Next1(n % Mod)
            R == Found(m)
<1>1. m = (n + 1) % Mod
  BY Next1Is
<1>2. m \in SeqNumbers
  <2>1. n + 1 \in Int
    OBVIOUS
  <2>2. (n + 1) % Mod \in SeqNumbers
    BY <2>1, ModRange
  <2>. QED
    BY <1>1, <2>2
<1>3. p = FindPacket(m) /\ seq = seqLong % Mod /\ Behind(files) = seqLong
  BY DEF Agrees
<1>4. p.number \in Nat
     /\ \/ /\ p.number % Mod = m /\ p.number < seqLong
           /\ files # <<>> /\ files[1].name <= p.number
        \/ p.number = seqLong /\ (m = seq \/ ~R)
        \/ p = Oldest /\ FileWith(m) = 0 /\ m # seq
  BY <1>2, <1>3, FoundIs
<1>. SUFFICES /\ R => p.number <= n + 1 \/ \A q : Holds(files, q) => p.number <= q.number
              /\ n < seqLong => n < p.number
  OBVIOUS
<1>. HIDE DEF m, R
<1>5. CASE p.number % Mod = m /\ p.number < seqLong /\ files # <<>> /\ files[1].name <= p.number
  <2>. DEFINE v == p.number
              w == n + 1
  <2>1. v \in Nat /\ w \in Nat /\ v % Mod = w % Mod /\ v - w < Mod /\ w = n + 1
    BY <1>1, <1>4, <1>5, ConstantTypes
  <2>2. n < seqLong => w - v < Mod
    <3>1. files[1].name \in Nat /\ seqLong <= files[1].name + Room
      BY <1>5, FirstFile
    <3>2. p.number \in Nat /\ Room \in Nat /\ Room < Mod /\ Mod \in Nat
      BY <1>4, RingFits, ConstantTypes
    <3>. QED
      BY <1>5, <3>1, <3>2
  <2>3. v = p.number
    OBVIOUS
  <2>. HIDE DEF v, w
  <2>4. v <= w
    BY <2>1, ModBelow
  <2>5. n < seqLong => w = v
    BY <2>1, <2>2, ModSame
  <2>. QED
    BY <2>1, <2>3, <2>4, <2>5
<1>6. CASE p.number = seqLong /\ (m = seq \/ ~R)
  <2>1. n < seqLong => n < p.number
    BY <1>6
  <2>2. R => p.number <= n + 1
    <3>1. SUFFICES ASSUME R PROVE seqLong <= n + 1
      BY <1>6
    <3>. DEFINE w == n + 1
    <3>2. w \in Int /\ seqLong % Mod = w % Mod /\ seqLong - w < Mod
      BY <1>1, <1>3, <1>6, <3>1, ConstantTypes
    <3>. HIDE DEF w
    <3>3. seqLong <= w
      BY <3>2, ModBelow
    <3>. QED
      BY <3>3 DEF w
  <2>. QED
    BY <2>1, <2>2
<1>7. CASE p = Oldest /\ FileWith(m) = 0 /\ m # seq
  <2>1. p.number = IF files = <<>> THEN seqLong ELSE files[1].name
    BY <1>7, OldestIs
  <2>2. ASSUME NEW q, Holds(files, q)
        PROVE  p.number <= q.number
    BY <2>1, <2>2, HeldNumber
  <2>3. ASSUME n < seqLong
        PROVE  n < p.number
    <3>1. CASE files = <<>>
      BY <2>1, <2>3, <3>1
    <3>2. CASE files # <<>>
      <4>1. p.number = files[1].name /\ files[1].name \in Nat
        BY <2>1, <3>2, FirstFile
      <4>2. n + 1 # seqLong
        BY <1>1, <1>3, <1>7
      <4>3. SUFFICES ASSUME files[1].name <= n PROVE FALSE
        BY <4>1
      <4>4. n + 1 \in Int /\ files[1].name <= n + 1 /\ n + 1 < seqLong
        BY <2>3, <4>1, <4>2, <4>3
      <4>. DEFINE w == n + 1
      <4>5. PICK i \in 1..Len(files) : files[i].name <= w /\ w < files[i].name + Stored(files, i)
        BY <1>3, <3>2, <4>4, ChainCovers
      <4>6. w \in Int /\ w % Mod = m
        BY <1>1, <4>4
      <4>. HIDE DEF w
      <4>7. FileWith(w % Mod) = i
        BY <4>5, <4>6, FileWithIs DEF Size, Stored
      <4>. QED
        BY <1>7, <4>6, <4>7
    <3>. QED
      BY <3>1, <3>2
  <2>. QED
    BY <2>2, <2>3
<1>. QED
  BY <1>4, <1>5, <1>6, <1>7
-----------------------------------------------------------------------------
\* What a client has read: what it wants of the packets on disk before its cursor, from
\* number f on, is not after the last packet it has received, l.
Served(x, F, B, f, l) ==
  x.active => \A p : Holds(F, p) /\ f <= p.number /\ p.number < Pos(x, F, B) /\ Matches(x, p)
                       => l # None /\ p.number <= l.number
SkipInv ==
  /\ seqLong <= Start + serial
  /\ \A c \in Clients : /\ Fresh(sx[c])
                        /\ Served(sx[c], files, buffer, from[c], last[c])

LEMMA DeliverFields ==
  ASSUME sx \in [Clients -> Client], NEW c \in Clients, Deliver(c),
         Chain(files), Placed(sx[c], files, buffer, order)
  PROVE  /\ sx'[c].selective = sx[c].selective
         /\ ~NothingLeft(c) => sx'[c].active = sx[c].active
         /\ EndOfFile(c) => sx'[c].fd = None /\ sx'[c].seq = SeqAt(c)
         /\ ReadFile(c) => sx'[c].fd = ReadAt(c) + 1
<1>1. sx[c] \in Client
  OBVIOUS
<1>. DEFINE x == sx[c]
            g == FileAfter(x.file)
            t == SeqAt(c)
            r == ReadAt(c) + 1
            s == Next1(SeqAt(c))
            z == NextOf(x.queue)
            v == Next1(buffer[x.queue].seq)
<1>2. CASE SwitchToMemory(c)
  <2>. DEFINE y == [x EXCEPT !.file = None, !.fd = None]
  <2>1. sx' = [sx EXCEPT ![c] = y] /\ sx[c].file # None
    BY <1>2 DEF SwitchToMemory, Reached
  <2>2. y.active = x.active /\ y.selective = x.selective
    BY <1>1 DEF Client
  <2>. HIDE DEF y
  <2>3. sx'[c] = y
    BY <2>1
  <2>4. ~EndOfFile(c) /\ ~ReadFile(c)
    BY <1>2 DEF SwitchToMemory, EndOfFile, ReadFile
  <2>. QED
    BY <2>2, <2>3, <2>4
<1>3. CASE EndOfFile(c)
  <2>. DEFINE y == [x EXCEPT !.file = g, !.fd = None, !.seq = t]
  <2>1. sx' = [sx EXCEPT ![c] = y] /\ ReadAt(c) = Len(FileAt(c).packets)
    BY <1>1, <1>3 DEF EndOfFile, Client
  <2>. HIDE DEF g, t
  <2>2. y.active = x.active /\ y.selective = x.selective /\ y.fd = None /\ y.seq = t
    BY <1>1 DEF Client
  <2>. HIDE DEF y
  <2>3. sx'[c] = y
    BY <2>1
  <2>4. ~ReadFile(c)
    <3>1. sx[c].file # None
      BY <1>3 DEF EndOfFile
    <3>2. ReadAt(c) \in Nat
      BY <1>1, <3>1, FileAtIs
    <3>3. ~(ReadAt(c) < Len(FileAt(c).packets))
      BY <2>1, <3>2
    <3>. QED
      BY <3>3 DEF ReadFile
  <2>. QED
    BY <2>2, <2>3, <2>4 DEF t
<1>4. CASE ReadFile(c) /\ ~EndOfFile(c)
  <2>. DEFINE y == [x EXCEPT !.fd = r, !.seq = s]
  <2>1. sx' = [sx EXCEPT ![c] = y]
    BY <1>4 DEF ReadFile
  <2>. HIDE DEF r, s
  <2>2. y.active = x.active /\ y.selective = x.selective /\ y.fd = r
    BY <1>1 DEF Client
  <2>. HIDE DEF y
  <2>3. sx'[c] = y
    BY <2>1
  <2>. QED
    BY <1>4, <2>2, <2>3 DEF r
<1>5. CASE ReadMemory(c)
  <2>. DEFINE y == [x EXCEPT !.queue = z, !.seq = v]
  <2>0. x.queue # None /\ buffer[x.queue] # None /\ x.file = None
    BY <1>5 DEF ReadMemory, Placed
  <2>1. sx' = [sx EXCEPT ![c] = y]
    BY <1>1, <1>5, <2>0 DEF ReadMemory, Client
  <2>. HIDE DEF z, v
  <2>2. y.active = x.active /\ y.selective = x.selective
    BY <1>1 DEF Client
  <2>. HIDE DEF y
  <2>3. sx'[c] = y
    BY <2>1
  <2>4. ~EndOfFile(c) /\ ~ReadFile(c)
    BY <2>0 DEF EndOfFile, ReadFile
  <2>. QED
    BY <2>2, <2>3, <2>4
<1>6. CASE NothingLeft(c)
  <2>. DEFINE a == x.realtime
              y == [x EXCEPT !.ready = FALSE, !.active = a]
  <2>1. sx' = [sx EXCEPT ![c] = y] /\ x.file = None
    BY <1>6 DEF NothingLeft
  <2>. HIDE DEF a
  <2>2. y.selective = x.selective
    BY <1>1 DEF Client
  <2>. HIDE DEF y
  <2>3. sx'[c] = y
    BY <2>1
  <2>4. ~EndOfFile(c) /\ ~ReadFile(c)
    BY <2>1 DEF EndOfFile, ReadFile
  <2>. QED
    BY <1>6, <2>2, <2>3, <2>4
<1>. QED
  BY <1>2, <1>3, <1>4, <1>5, <1>6 DEF Deliver

\* How a round of do_deliver() moves the cursor: onto the next packet when one is read.
\* The file cursor meets memory where it is, also if its file has not been opened yet
\* and its sequence number is an old one.
TrueSwitch(c) ==
  SwitchToMemory(c) /\ sx[c].fd = None => At(sx[c]) = Ahead(sx[c], files, buffer)

LEMMA SwitchPos ==
  ASSUME Inv, NEW c \in Clients, SwitchToMemory(c)
  PROVE  /\ Fresh(sx'[c]) /\ Pos(sx[c], files, buffer) <= Pos(sx'[c], files, buffer)
         /\ TrueSwitch(c) => Pos(sx'[c], files, buffer) = Pos(sx[c], files, buffer)
         /\ MaxPackets < Mod /\ seqLong <= Start + serial /\ Fresh(sx[c]) => TrueSwitch(c)
<1>. DEFINE x == sx[c]
            y == sx'[c]
            n == buffer[x.queue].packet.number
<1>1. /\ Chain(files) /\ Linked(order) /\ Agrees /\ seqLong \in Nat /\ sx \in [Clients -> Client]
      /\ x \in Client /\ Placed(x, files, buffer, order) /\ Behind(files) = seqLong
      /\ serial \in 0..MaxPackets
  BY InvIs DEF SwitchToMemory, Delivering, Agrees, ServerType
<1>2. /\ x.queue # None /\ x.file # None /\ buffer[x.queue] # None
      /\ x.seq = buffer[x.queue].seq
  BY DEF SwitchToMemory, Reached
<1>3. y.queue = x.queue /\ y.file = None
  BY <1>1, SwitchMoves
<1>4. x.queue \in Elements(order) /\ InFile(x, files, n)
  BY <1>1, <1>2 DEF Placed, Ahead
<1>5. n \in Nat /\ n < seqLong /\ files # <<>> /\ x.seq = n % Mod
  BY <1>1, <1>2, <1>4, QueueHeld
<1>6. Pos(x, files, buffer) = At(x) /\ Pos(y, files, buffer) = n /\ Fresh(y)
  BY <1>2, <1>3 DEF Pos, Ahead, Fresh
<1>7. At(x) \in Nat /\ At(x) >= x.file /\ x.file \in Nat
  BY <1>1, <1>2, ClientFields
<1>. HIDE DEF n, x, y
<1>8. At(x) <= n
  BY <1>4 DEF InFile
<1>9. ASSUME x.fd # None
      PROVE  At(x) = n
  <2>1. PICK i \in 1..Len(files) : files[i].name = x.file /\ x.seq = At(x) % Mod
    BY <1>4, <1>9 DEF InFile
  <2>2. files[1].name <= x.file /\ files[1].name \in Nat /\ seqLong <= files[1].name + Room
    BY <1>1, <1>5, <2>1, ChainOrder, FirstFile
  <2>3. n - At(x) < Mod /\ At(x) - n < Mod
    <3>1. Room \in Nat /\ Room < Mod /\ Mod \in Nat
      BY RingFits, ConstantTypes
    <3>2. n \in Nat /\ n < seqLong
      BY <1>5
    <3>. QED
      BY <1>1, <1>7, <1>8, <2>2, <3>1, <3>2
  <2>. DEFINE a == At(x)
  <2>4. a \in Int /\ n \in Int /\ a % Mod = n % Mod /\ n - a < Mod /\ a - n < Mod
    BY <1>5, <1>7, <2>1, <2>3
  <2>. HIDE DEF a
  <2>5. a = n
    BY <2>4, ModSame
  <2>. QED
    BY <2>5 DEF a
<1>10. ASSUME x.fd = None, MaxPackets < Mod, seqLong <= Start + serial, Fresh(x)
       PROVE  At(x) = n
  <2>1. PICK u \in Start..At(x) : x.seq = u % Mod
    BY <1>2, <1>10 DEF Fresh, x
  <2>2. u \in Int /\ n \in Int /\ u % Mod = n % Mod /\ n - u < Mod /\ u - n < Mod
    BY <1>1, <1>5, <1>7, <1>8, <1>10, <2>1, ConstantTypes
  <2>3. u = n
    BY <2>2, ModSame
  <2>. QED
    BY <1>5, <1>7, <1>8, <2>1, <2>3
<1>11. Ahead(x, files, buffer) = n
  BY <1>2 DEF Ahead, n
<1>12. Pos(x, files, buffer) <= Pos(y, files, buffer)
  BY <1>5, <1>6, <1>7, <1>8
<1>13. MaxPackets < Mod /\ seqLong <= Start + serial /\ Fresh(x) => TrueSwitch(c)
  BY <1>10, <1>11 DEF TrueSwitch, x
<1>14. TrueSwitch(c) => At(x) = n
  BY <1>9, <1>11 DEF TrueSwitch, x
<1>. QED
  BY <1>6, <1>12, <1>13, <1>14 DEF x, y

LEMMA EndOfFilePos ==
  ASSUME Inv, NEW c \in Clients, EndOfFile(c)
  PROVE  Fresh(sx'[c]) /\ Pos(sx'[c], files, buffer) = Pos(sx[c], files, buffer)
<1>. DEFINE x == sx[c]
            y == sx'[c]
<1>1. /\ Chain(files) /\ Linked(order) /\ Agrees /\ seqLong \in Nat /\ sx \in [Clients -> Client]
      /\ x \in Client /\ Placed(x, files, buffer, order) /\ Behind(files) = seqLong
  BY InvIs DEF EndOfFile, Delivering, Agrees
<1>2. x.file # None
  BY DEF EndOfFile
<1>3. /\ y.queue = x.queue
      /\ y.file # None => At(y) = At(x)
      /\ y.file = None => At(x) = seqLong
  BY <1>1, EndOfFileMoves
<1>4. y.fd = None /\ y.seq = SeqAt(c)
  BY <1>1, DeliverFields DEF Deliver
<1>5. At(x) \in Nat /\ At(x) >= x.file /\ x.file \in Nat
  BY <1>1, <1>2, ClientFields
<1>6. Pos(x, files, buffer) = At(x)
  BY <1>2 DEF Pos
<1>7. CASE y.file # None
  <2>1. SeqAt(c) = At(x) % Mod
    BY <1>1, <1>2, FileAtIs
  <2>2. PICK i \in 1..Len(files) : files[i].name = x.file
    BY <1>1, <1>2 DEF Placed, InFile
  <2>3. x.file >= Start
    BY <1>1, <2>2 DEF Chain
  <2>. HIDE DEF x, y
  <2>4. At(x) \in Start..At(x)
    BY <1>5, <2>3, ConstantTypes
  <2>. QED
    BY <1>3, <1>4, <1>6, <1>7, <2>1, <2>4 DEF Fresh, Pos, x, y
<1>8. CASE y.file = None
  <2>1. x.queue = None
    <3>1. SUFFICES ASSUME x.queue # None PROVE FALSE
      OBVIOUS
    <3>2. x.queue \in Elements(order) /\ buffer[x.queue] # None
      BY <1>1, <3>1 DEF Placed
    <3>3. buffer[x.queue].packet.number \in Nat /\ buffer[x.queue].packet.number < seqLong
      BY <1>1, <3>2, QueueHeld
    <3>4. At(x) <= buffer[x.queue].packet.number
      BY <1>1, <1>2, <3>1 DEF Placed, InFile, Ahead
    <3>. QED
      BY <1>1, <1>3, <1>8, <3>3, <3>4
  <2>2. Pos(y, files, buffer) = seqLong
    BY <1>1, <1>3, <1>8, <2>1 DEF Pos, Ahead
  <2>. QED
    BY <1>3, <1>6, <1>8, <2>2 DEF Fresh
<1>. QED
  BY <1>7, <1>8

\* A packet is read, from disk or from memory: it is the one at the cursor.
Taken(c, q) ==
  /\ Send(c, q) /\ q \in Packet /\ Holds(files, q)
  /\ q.number = Pos(sx[c], files, buffer)
  /\ Pos(sx'[c], files, buffer) = Pos(sx[c], files, buffer) + 1
  /\ Fresh(sx'[c])

LEMMA ReadTakes ==
  ASSUME Inv, NEW c \in Clients, ReadFile(c) \/ ReadMemory(c)
  PROVE  \E q : Taken(c, q)
<1>1. /\ Chain(files) /\ Linked(order) /\ Agrees /\ seqLong \in Nat /\ sx \in [Clients -> Client]
      /\ sx[c] \in Client /\ Placed(sx[c], files, buffer, order)
  BY InvIs DEF ReadFile, ReadMemory, Delivering
<1>2. CASE ReadFile(c)
  <2>. DEFINE q == FileAt(c).packets[ReadAt(c) + 1]
  <2>1. /\ sx'[c].file # None /\ At(sx'[c]) = At(sx[c]) + 1
        /\ q.number = At(sx[c]) /\ q \in Packet /\ Holds(files, q)
    BY <1>1, <1>2, ReadFileMoves
  <2>2. Send(c, q) /\ sx[c].file # None
    BY <1>2 DEF ReadFile
  <2>3. Pos(sx[c], files, buffer) = At(sx[c]) /\ Pos(sx'[c], files, buffer) = At(sx'[c])
    BY <2>1, <2>2 DEF Pos
  <2>4. sx'[c].fd = ReadAt(c) + 1
    BY <1>1, <1>2, DeliverFields DEF Deliver
  <2>5. ReadAt(c) \in Nat
    BY <1>1, <2>2, FileAtIs
  <2>6. Fresh(sx'[c])
    BY <2>4, <2>5, ConstantTypes DEF Fresh
  <2>. QED
    BY <2>1, <2>2, <2>3, <2>6 DEF Taken
<1>3. CASE ReadMemory(c)
  <2>. DEFINE q == buffer[sx[c].queue].packet
  <2>1. /\ sx'[c].file = None /\ q \in Packet /\ Holds(files, q) /\ Send(c, q)
        /\ Ahead(sx'[c], files, buffer) = Ahead(sx[c], files, buffer) + 1
    BY <1>1, <1>3, ReadMemoryMoves
  <2>2. sx[c].file = None /\ sx[c].queue # None
    BY <1>3 DEF ReadMemory
  <2>3. Ahead(sx[c], files, buffer) = q.number
    BY <2>2 DEF Ahead
  <2>. HIDE DEF q
  <2>. QED
    BY <2>1, <2>2, <2>3 DEF Taken, Pos, Fresh
<1>. QED
  BY <1>2, <1>3

LEMMA NothingPos ==
  ASSUME sx \in [Clients -> Client], NEW c \in Clients, Placed(sx[c], files, buffer, order),
         NothingLeft(c)
  PROVE  Fresh(sx'[c]) /\ Pos(sx'[c], files, buffer) = Pos(sx[c], files, buffer)
<1>1. sx'[c].queue = None /\ sx'[c].file = None
  BY NothingLeftMoves
<1>2. sx[c].queue = None /\ sx[c].file = None
  BY DEF NothingLeft
<1>. QED
  BY <1>1, <1>2 DEF Fresh, Pos, Ahead

LEMMA TakenServed ==
  ASSUME Inv, NEW c \in Clients, NEW q, Taken(c, q), sx'[c].active = sx[c].active,
         sx'[c].selective = sx[c].selective,
         Served(sx[c], files, buffer, from[c], last[c])
  PROVE  Served(sx'[c], files, buffer, from'[c], last'[c])
<1>1. /\ Chain(files) /\ ClientType
  BY InvIs
<1>2. /\ Send(c, q) /\ q \in Packet /\ Holds(files, q)
      /\ q.number = Pos(sx[c], files, buffer)
      /\ Pos(sx'[c], files, buffer) = q.number + 1
  BY DEF Taken
<1>3. IF Matches(sx[c], q)
        THEN /\ last'[c] = [number |-> q.number, serial |-> q.serial]
             /\ from'[c] = 0
        ELSE UNCHANGED <<last, from>>
  BY <1>1, <1>2, SendIs
<1>4. \A p : Matches(sx'[c], p) <=> Matches(sx[c], p)
  BY DEF Matches
<1>5. SUFFICES ASSUME sx[c].active, NEW p, Holds(files, p), from'[c] <= p.number,
                      p.number < Pos(sx'[c], files, buffer), Matches(sx[c], p)
               PROVE  last'[c] # None /\ p.number <= last'[c].number
  BY <1>4 DEF Served
<1>6. p.number \in Nat /\ q.number \in Nat
  BY <1>1, <1>2, <1>5, HeldNumber
<1>7. q.number \in Nat /\ q.serial \in 1..MaxPackets
  BY <1>2 DEF Packet
<1>8. CASE Matches(sx[c], q)
  <2>. DEFINE l == [number |-> q.number, serial |-> q.serial]
  <2>1. last'[c] = l /\ l.number = q.number
    BY <1>3, <1>8
  <2>2. l \in [number : Nat, serial : 1..MaxPackets]
    BY <1>7
  <2>3. l # None
    BY <2>2, NoneAssumption DEF NoneAssumption
  <2>. HIDE DEF l
  <2>4. p.number <= q.number
    BY <1>2, <1>5, <1>6
  <2>. QED
    BY <2>1, <2>3, <2>4
<1>9. CASE ~Matches(sx[c], q)
  <2>1. last' = last /\ from' = from
    BY <1>3, <1>9
  <2>2. p # q
    BY <1>5, <1>9
  <2>3. p.number # q.number
    BY <1>1, <1>2, <1>5, <2>2, HeldOnce
  <2>4. p.number < q.number
    BY <1>2, <1>5, <1>6, <2>3
  <2>5. from[c] <= p.number /\ p.number < Pos(sx[c], files, buffer)
    BY <1>2, <1>5, <2>1, <2>4
  <2>6. last[c] # None /\ p.number <= last[c].number
    BY <1>5, <2>5 DEF Served
  <2>. QED
    BY <2>1, <2>6
<1>. QED
  BY <1>8, <1>9

\* A step of client c alone.
LEMMA AloneSkip ==
  ASSUME Inv, SkipInv, NEW c \in Clients, UNCHANGED <<files, buffer, seqLong, serial>>,
         \A d \in Clients \ {c} : /\ sx'[d] = sx[d] /\ last'[d] = last[d]
                                  /\ from'[d] = from[d],
         Fresh(sx'[c]), Served(sx'[c], files, buffer, from'[c], last'[c])
  PROVE  SkipInv'
<1>1. seqLong' <= Start + serial'
  BY DEF SkipInv
<1>2. ASSUME NEW d \in Clients
      PROVE  Fresh(sx'[d]) /\ Served(sx'[d], files', buffer', from'[d], last'[d])
  <2>1. CASE d = c
    BY <2>1
  <2>2. CASE d # c
    <3>1. sx'[d] = sx[d] /\ last'[d] = last[d] /\ from'[d] = from[d]
      BY <2>2
    <3>2. Fresh(sx[d]) /\ Served(sx[d], files, buffer, from[d], last[d])
      BY DEF SkipInv
    <3>. QED
      BY <3>1, <3>2
  <2>. QED
    BY <2>1, <2>2
<1>. QED
  BY <1>1, <1>2 DEF SkipInv

LEMMA SamePlace ==
  ASSUME NEW x, NEW y, NEW F, NEW B, NEW f, NEW l,
         Pos(y, F, B) = Pos(x, F, B), y.selective = x.selective, y.active => x.active,
         Served(x, F, B, f, l)
  PROVE  Served(y, F, B, f, l)
<1>1. \A p : Matches(y, p) <=> Matches(x, p)
  BY DEF Matches
<1>. QED
  BY <1>1 DEF Served

LEMMA DeliverSkip ==
  ASSUME Inv, MarkInv, SkipInv, NEW c \in Clients, TrueSwitch(c), Deliver(c)
  PROVE  SkipInv'
<1>1. /\ Chain(files) /\ sx \in [Clients -> Client] /\ Placed(sx[c], files, buffer, order)
      /\ Fresh(sx[c]) /\ Served(sx[c], files, buffer, from[c], last[c])
      /\ seqLong <= Start + serial /\ ClientType
  BY InvIs DEF SkipInv
<1>2. sx[c].active
  <2>1. sx[c].ready
    BY DEF Deliver, SwitchToMemory, EndOfFile, ReadFile, ReadMemory, NothingLeft, Delivering
  <2>. QED
    BY <2>1 DEF MarkInv, Marked
<1>3. sx'[c].selective = sx[c].selective /\ (~NothingLeft(c) => sx'[c].active = sx[c].active)
  BY <1>1, DeliverFields
<1>4. ASSUME NEW q, Taken(c, q), sx'[c].active = sx[c].active, Moves(c)
      PROVE  SkipInv'
  <2>1. /\ UNCHANGED <<memory, disk>>
        /\ \A d \in Clients \ {c} : last'[d] = last[d] /\ from'[d] = from[d]
    BY <1>1, <1>4, SendIs DEF Taken
  <2>2. UNCHANGED <<files, buffer, seqLong, serial>>
    BY <2>1 DEF memory, disk
  <2>3. Served(sx'[c], files, buffer, from'[c], last'[c]) /\ Fresh(sx'[c])
    BY <1>1, <1>3, <1>4, TakenServed DEF Taken
  <2>4. \A d \in Clients \ {c} : sx'[d] = sx[d]
    BY <1>4 DEF Moves
  <2>. QED
    BY <2>1, <2>2, <2>3, <2>4, AloneSkip
<1>5. ASSUME Pos(sx'[c], files, buffer) = Pos(sx[c], files, buffer), Fresh(sx'[c]), Moves(c),
             UNCHANGED <<memory, disk, history>>
      PROVE  SkipInv'
  <2>1. UNCHANGED <<files, buffer, seqLong, serial, last, from>>
    BY <1>5 DEF memory, disk, history
  <2>2. Served(sx'[c], files, buffer, from[c], last[c])
    BY <1>1, <1>2, <1>3, <1>5, SamePlace
  <2>3. \A d \in Clients \ {c} : sx'[d] = sx[d]
    BY <1>5 DEF Moves
  <2>. QED
    BY <1>5, <2>1, <2>2, <2>3, AloneSkip
<1>6. Linked(order) /\ Agrees /\ seqLong \in Nat
  BY InvIs DEF Deliver, SwitchToMemory, EndOfFile, ReadFile, ReadMemory, NothingLeft, Delivering
<1>7. CASE SwitchToMemory(c)
  <2>1. Moves(c)
    BY <1>1, <1>7, SwitchMoves
  <2>2. Pos(sx'[c], files, buffer) = Pos(sx[c], files, buffer) /\ Fresh(sx'[c])
    BY <1>1, <1>7, SwitchPos
  <2>. QED
    BY <1>5, <1>7, <2>1, <2>2 DEF SwitchToMemory
<1>8. CASE EndOfFile(c)
  <2>1. Moves(c)
    BY <1>1, <1>6, <1>8, EndOfFileMoves
  <2>2. Pos(sx'[c], files, buffer) = Pos(sx[c], files, buffer) /\ Fresh(sx'[c])
    BY <1>8, EndOfFilePos
  <2>. QED
    BY <1>5, <1>8, <2>1, <2>2 DEF EndOfFile
<1>9. CASE NothingLeft(c)
  <2>1. Moves(c)
    BY <1>1, <1>9, NothingLeftMoves
  <2>2. Pos(sx'[c], files, buffer) = Pos(sx[c], files, buffer) /\ Fresh(sx'[c])
    BY <1>1, <1>9, NothingPos
  <2>. QED
    BY <1>5, <1>9, <2>1, <2>2 DEF NothingLeft
<1>10. CASE ReadFile(c) /\ ~NothingLeft(c)
  <2>1. Moves(c)
    BY <1>1, <1>6, <1>10, ReadFileMoves
  <2>2. \E q : Taken(c, q)
    BY <1>10, ReadTakes
  <2>. QED
    BY <1>3, <1>4, <1>10, <2>1, <2>2
<1>11. CASE ReadMemory(c) /\ ~NothingLeft(c)
  <2>1. Moves(c)
    BY <1>1, <1>6, <1>11, ReadMemoryMoves
  <2>2. \E q : Taken(c, q)
    BY <1>11, ReadTakes
  <2>. QED
    BY <1>3, <1>4, <1>11, <2>1, <2>2
<1>. QED
  BY <1>7, <1>8, <1>9, <1>10, <1>11 DEF Deliver

\* A request leads to a place whose number is that of its packet.
LEMMA PlaceIsNumber ==
  ASSUME Inv, phase = "up", NEW c \in Clients, NEW place, NEW ready \in BOOLEAN,
         Asked(c, place, ready)
  PROVE  Pos(place, files, buffer) = place.number /\ Fresh(place) /\ place.number \in Nat
<1>1. Chain(files) /\ Linked(order) /\ Agrees /\ seqLong \in Nat /\ ClientType
  BY InvIs
<1>2. WellPlaced(place)
  BY DEF Asked
<1>3. place.number \in Nat
  BY <1>2 DEF WellPlaced
<1>4. CASE place = Nowhere
  BY <1>1, <1>3, <1>4, NowhereIs
<1>5. CASE place = Oldest
  BY <1>1, <1>3, <1>5, OldestIs
<1>6. ASSUME NEW m \in SeqNumbers, place = FindPacket(m)
      PROVE  Pos(place, files, buffer) = place.number /\ Fresh(place)
  BY <1>1, <1>6, FoundIs
<1>7. CASE Goes(c, place, ready)
  <2>1. place = FindPacket(Behindhand(c)) /\ last[c] # None
    BY <1>7 DEF Goes
  <2>2. last[c].number \in Nat
    BY <1>1, <2>1 DEF ClientType
  <2>3. Behindhand(c) = (last[c].number + 1) % Mod
    BY <2>2, Next1Is DEF Behindhand
  <2>4. last[c].number + 1 \in Int
    BY <2>2
  <2>5. Behindhand(c) \in SeqNumbers
    BY <2>3, <2>4, ModRange
  <2>. QED
    BY <1>3, <1>6, <2>1, <2>5
<1>. QED
  BY <1>3, <1>4, <1>5, <1>6, <1>7 DEF Asked

\* It is the cursor from then on.
LEMMA ServedAt ==
  ASSUME Inv, NEW c \in Clients, NEW mode \in Modes, NEW place, NEW ready \in BOOLEAN,
         Serve(c, place, ready, mode), Asked(c, place, ready)
  PROVE  /\ Fresh(sx'[c]) /\ Pos(sx'[c], files, buffer) = place.number
         /\ place.number \in Nat /\ Moves(c) /\ phase = "up"
         /\ UNCHANGED <<memory, disk, server, serving>>
<1>1. sx \in [Clients -> Client] /\ WellPlaced(place)
  BY InvIs DEF Asked
<1>2. /\ Moves(c) /\ phase = "up" /\ UNCHANGED <<memory, disk, server, serving>>
      /\ sx'[c].queue = place.queue /\ sx'[c].file = place.file /\ sx'[c].fd = place.fd
      /\ sx'[c].seq = place.seq
  BY <1>1, ServeIs
<1>3. Pos(place, files, buffer) = place.number /\ Fresh(place) /\ place.number \in Nat
  BY <1>2, PlaceIsNumber
<1>4. At(sx'[c]) = At(place) /\ Ahead(sx'[c], files, buffer) = Ahead(place, files, buffer)
  BY <1>2 DEF At, Ahead
<1>5. Pos(sx'[c], files, buffer) = Pos(place, files, buffer)
  BY <1>2, <1>4 DEF Pos
<1>6. Fresh(sx'[c])
  BY <1>2, <1>3, <1>4 DEF Fresh
<1>. QED
  BY <1>2, <1>3, <1>5, <1>6

LEMMA AskedServed ==
  ASSUME Inv, NEW c \in Clients, NEW place, NEW ready \in BOOLEAN, phase = "up",
         Asked(c, place, ready), NEW x, Pos(x, files, buffer) = place.number,
         place.number \in Nat
  PROVE  /\ Served(x, files, buffer, from'[c], last'[c])
         /\ \A d \in Clients \ {c} : last'[d] = last[d] /\ from'[d] = from[d]
<1>1. /\ Chain(files) /\ Linked(order) /\ Agrees /\ seqLong \in Nat
      /\ last \in [Clients -> [number : Nat, serial : 1..MaxPackets] \cup {None}]
      /\ from \in [Clients -> Nat]
  BY InvIs DEF ClientType
<1>2. CASE Anew(c, place)
  <2>1. from' = [from EXCEPT ![c] = place.number] /\ last' = [last EXCEPT ![c] = None]
    BY <1>2 DEF Anew
  <2>2. from'[c] = place.number /\ \A d \in Clients \ {c} : last'[d] = last[d] /\ from'[d] = from[d]
    BY <1>1, <2>1
  <2>3. ASSUME NEW p, Holds(files, p), place.number <= p.number, p.number < place.number
        PROVE  FALSE
    <3>1. p.number \in Nat
      BY <1>1, <2>3, HeldNumber
    <3>. QED
      BY <2>3, <3>1
  <2>. QED
    BY <2>2, <2>3 DEF Served
<1>3. CASE Goes(c, place, ready)
  <2>. DEFINE n == last[c].number
  <2>1. /\ last[c] # None /\ seqLong - n < Mod /\ last' = last
        /\ place = FindPacket(Next1(n % Mod)) /\ ready = Found(Next1(n % Mod))
        /\ from' = [from EXCEPT ![c] = IF ready THEN 0 ELSE seqLong]
    BY <1>3 DEF Goes, Behindhand
  <2>2. n \in Nat
    BY <1>1, <2>1
  <2>3. ready => place.number <= n + 1 \/ \A q : Holds(files, q) => place.number <= q.number
    <3>. HIDE DEF n
    <3>. QED
      BY <1>1, <2>1, <2>2, ResumeIs
  <2>4. from'[c] = (IF ready THEN 0 ELSE seqLong)
        /\ \A d \in Clients \ {c} : last'[d] = last[d] /\ from'[d] = from[d]
    BY <1>1, <2>1
  <2>5. ASSUME NEW p, Holds(files, p), from'[c] <= p.number, p.number < place.number
        PROVE  p.number <= n
    <3>1. p.number \in Nat /\ p.number < seqLong
      BY <1>1, <2>5, HeldNumber DEF Agrees
    <3>2. ready
      BY <1>1, <2>4, <2>5, <3>1
    <3>. HIDE DEF n
    <3>3. ~(place.number <= p.number)
      BY <2>5, <3>1
    <3>4. place.number <= n + 1
      BY <2>3, <2>5, <3>2, <3>3
    <3>. QED
      BY <2>2, <2>5, <3>1, <3>4
  <2>. QED
    BY <2>1, <2>4, <2>5 DEF Served
<1>. QED
  BY <1>2, <1>3 DEF Asked

LEMMA RequestSkip ==
  ASSUME Inv, SkipInv, NEW c \in Clients, Request(c)
  PROVE  SkipInv'
<1>1. /\ sx \in [Clients -> Client] /\ sx[c] \in Client /\ Fresh(sx[c])
      /\ Served(sx[c], files, buffer, from[c], last[c])
      /\ from \in [Clients -> Nat]
  BY InvIs DEF SkipInv, ClientType
<1>2. ASSUME NEW mode \in Modes,
             \/ RequestNext(c, mode) \/ RequestAll(c, mode) \/ Resume(c, mode)
             \/ \E m \in 0..(Mod - 1) : RequestFrom(c, m, mode)
      PROVE  SkipInv'
  <2>1. PICK place : \E ready \in BOOLEAN :
               Serve(c, place, ready, mode) /\ Asked(c, place, ready)
    BY <1>2, AskedIs
  <2>2. PICK ready \in BOOLEAN : Serve(c, place, ready, mode) /\ Asked(c, place, ready)
    BY <2>1
  <2>3. /\ Fresh(sx'[c]) /\ Pos(sx'[c], files, buffer) = place.number /\ place.number \in Nat
        /\ Moves(c) /\ phase = "up" /\ UNCHANGED <<memory, disk>>
    BY <2>2, ServedAt
  <2>4. /\ Served(sx'[c], files, buffer, from'[c], last'[c])
        /\ \A d \in Clients \ {c} : last'[d] = last[d] /\ from'[d] = from[d]
    BY <2>2, <2>3, AskedServed
  <2>5. UNCHANGED <<files, buffer, seqLong, serial>> /\ \A d \in Clients \ {c} : sx'[d] = sx[d]
    BY <2>3 DEF memory, disk, Moves
  <2>. QED
    BY <2>3, <2>4, <2>5, AloneSkip
<1>3. ASSUME NEW y, sx' = [sx EXCEPT ![c] = y], ~y.active, y.file = None,
             from' = [from EXCEPT ![c] = 0], last' = last, UNCHANGED <<memory, disk>>
      PROVE  SkipInv'
  <2>1. sx'[c] = y /\ \A d \in Clients \ {c} : sx'[d] = sx[d] /\ from'[d] = from[d]
    BY <1>1, <1>3
  <2>2. Fresh(sx'[c]) /\ Served(sx'[c], files, buffer, from'[c], last'[c])
    BY <1>3, <2>1 DEF Fresh, Served
  <2>3. UNCHANGED <<files, buffer, seqLong, serial>>
    BY <1>3 DEF memory, disk
  <2>. QED
    BY <1>3, <2>1, <2>2, <2>3, AloneSkip
<1>4. CASE Select(c)
  <2>. DEFINE m == sx[c].multi
              y == [Idle EXCEPT !.on = TRUE, !.multi = m]
  <2>1. /\ sx' = [sx EXCEPT ![c] = y] /\ from' = [from EXCEPT ![c] = 0] /\ last' = last
        /\ UNCHANGED <<memory, disk>>
    BY <1>4 DEF Select
  <2>. HIDE DEF m
  <2>2. ~y.active /\ y.file = None
    BY DEF Idle
  <2>. HIDE DEF y
  <2>. QED
    BY <1>3, <2>1, <2>2
<1>5. CASE EndHandshake(c)
  <2>. DEFINE y == [sx[c] EXCEPT !.done = TRUE]
  <2>1. sx' = [sx EXCEPT ![c] = y] /\ UNCHANGED <<memory, disk, history>>
    BY <1>5 DEF EndHandshake
  <2>2. /\ y.active = sx[c].active /\ y.queue = sx[c].queue /\ y.file = sx[c].file
        /\ y.fd = sx[c].fd /\ y.seq = sx[c].seq /\ y.selective = sx[c].selective
    BY <1>1 DEF Client
  <2>. HIDE DEF y
  <2>3. sx'[c] = y /\ \A d \in Clients \ {c} : sx'[d] = sx[d]
    BY <1>1, <2>1
  <2>4. At(y) = At(sx[c]) /\ Ahead(y, files, buffer) = Ahead(sx[c], files, buffer)
    BY <2>2 DEF At, Ahead
  <2>5. Fresh(y) /\ Pos(y, files, buffer) = Pos(sx[c], files, buffer)
    BY <1>1, <2>2, <2>4 DEF Fresh, Pos
  <2>6. Served(y, files, buffer, from[c], last[c])
    BY <1>1, <2>2, <2>5, SamePlace
  <2>7. UNCHANGED <<files, buffer, seqLong, serial, last, from>>
    BY <2>1 DEF memory, disk, history
  <2>. QED
    BY <2>3, <2>5, <2>6, <2>7, AloneSkip
<1>6. CASE Close(c)
  <2>1. /\ sx' = [sx EXCEPT ![c] = Idle] /\ from' = [from EXCEPT ![c] = 0] /\ last' = last
        /\ UNCHANGED <<memory, disk>>
    BY <1>6 DEF Close
  <2>2. ~Idle.active /\ Idle.file = None
    BY DEF Idle
  <2>. QED
    BY <1>3, <2>1, <2>2
<1>. QED
  BY <1>2, <1>4, <1>5, <1>6 DEF Request

\* The server ends: no client is active any more.
LEMMA AwaySkip ==
  ASSUME sx' = AllIdle, seqLong' <= Start + serial'
  PROVE  SkipInv'
<1>1. ~Idle.active /\ Idle.file = None
  BY DEF Idle
<1>2. \A c \in Clients : sx'[c] = Idle
  BY DEF AllIdle
<1>. QED
  BY <1>1, <1>2 DEF SkipInv, Fresh, Served

LEMMA GetBufferSkip ==
  ASSUME Inv, SkipInv, GetBuffer
  PROVE  SkipInv'
<1>1. /\ Chain(files) /\ Linked(order) /\ Agrees /\ seqLong \in Nat /\ sx \in [Clients -> Client]
      /\ buffer \in [1..MaxBuffers -> Content] /\ phase = "up"
      /\ \A c \in Clients : sx[c] \in Client /\ Placed(sx[c], files, buffer, order)
  BY InvIs DEF GetBuffer
<1>2. free \in 1..MaxBuffers /\ free \in Elements(order)
  BY <1>1, FreeIs
<1>3. /\ buffer' = [buffer EXCEPT ![free] = None]
      /\ sx' = IF buffer[free] = None THEN sx
               ELSE [c \in Clients |-> Recycled(sx[c], free)]
      /\ UNCHANGED <<files, seqLong, serial, last, from>>
  BY DEF GetBuffer, disk, history
<1>4. ASSUME NEW c \in Clients
      PROVE  Fresh(sx'[c]) /\ Served(sx'[c], files', buffer', from'[c], last'[c])
  <2>1. sx'[c] = IF buffer[free] = None THEN sx[c] ELSE Recycled(sx[c], free)
    BY <1>3
  <2>2. Fresh(sx[c]) /\ Served(sx[c], files, buffer, from[c], last[c])
    BY DEF SkipInv
  <2>3. Fresh(sx'[c]) /\ Pos(sx'[c], files, buffer') = Pos(sx[c], files, buffer)
    BY <1>1, <1>2, <1>3, <2>1, <2>2, RecycledPos
  <2>4. sx'[c].active = sx[c].active /\ sx'[c].selective = sx[c].selective
    BY <1>1, <2>1, RecycledFields
  <2>5. \A p : Matches(sx'[c], p) <=> Matches(sx[c], p)
    BY <2>4 DEF Matches
  <2>6. Served(sx'[c], files, buffer', from[c], last[c])
    BY <2>2, <2>3, <2>4, <2>5 DEF Served
  <2>. QED
    BY <1>3, <2>3, <2>6
<1>. QED
  BY <1>3, <1>4 DEF SkipInv

LEMMA QueueBufferSkip ==
  ASSUME Inv, SkipInv, NEW b \in 1..MaxBuffers, NEW kind \in {"main", "other"},
         QueueBuffer(b, kind)
  PROVE  SkipInv'
<1>. DEFINE p == NewPacket(kind)
<1>1. /\ Chain(files) /\ Linked(order) /\ Agrees /\ seqLong \in Nat /\ sx \in [Clients -> Client]
      /\ buffer \in [1..MaxBuffers -> Content] /\ Start <= seqLong /\ serial \in 0..MaxPackets
      /\ \A c \in Clients : sx[c] \in Client /\ Placed(sx[c], files, buffer, order)
  BY InvIs DEF QueueBuffer, ServerType
<1>2. Store(b, kind) /\ b \in held /\ last' = last /\ from' = from
  BY DEF QueueBuffer, history
<1>3. /\ p \in Packet /\ p.number = seqLong /\ serial' = serial + 1 /\ seqLong' = seqLong + 1
      /\ buffer' = WithPacket(buffer, b, seq, p) /\ files' = Written(p)
      /\ sx' = [c \in Clients |-> Woken(Forced(sx[c]), b, p)]
  BY <1>1, <1>2, StoreIs
<1>4. b \in Elements(order) /\ buffer[b] = None
  <2>1. Handed(order, buffer, held, free)
    BY <1>1 DEF Agrees
  <2>2. held \subseteq Elements(order)
    BY <1>1, <2>1, HandedIs
  <2>. QED
    BY <1>2, <2>1, <2>2 DEF Handed
<1>5. files' = WithLast(Rolled, Append(Rolled[Len(Rolled)].packets, p))
  BY <1>3 DEF Written
<1>6. Rolled[1].name \in Nat
  BY RolledFirst DEF QueueBuffer
<1>. HIDE DEF p
<1>7. ASSUME NEW c \in Clients
      PROVE  Fresh(sx'[c]) /\ Served(sx'[c], files', buffer', from'[c], last'[c])
  <2>1. sx'[c] = Woken(Forced(sx[c]), b, p)
    BY <1>3
  <2>2. Fresh(sx[c]) /\ Served(sx[c], files, buffer, from[c], last[c])
    BY DEF SkipInv
  <2>3. /\ Fresh(sx'[c])
        /\ sx[c].active => \A q : Holds(files', q) /\ q.number < Pos(sx'[c], files', buffer') =>
             \/ Holds(files, q) /\ q.number < Pos(sx[c], files, buffer)
             \/ q = p /\ ~Matches(sx[c], p)
    BY <1>1, <1>3, <1>4, <1>5, <2>1, <2>2, StoredPos
  <2>4. sx'[c].active = sx[c].active /\ sx'[c].selective = sx[c].selective
    BY <1>1, <1>6, <2>1, StoredFields
  <2>5. \A q : Matches(sx'[c], q) <=> Matches(sx[c], q)
    BY <2>4 DEF Matches
  <2>6. Served(sx'[c], files', buffer', from[c], last[c])
    <3>1. SUFFICES ASSUME sx'[c].active, NEW q, Holds(files', q), from[c] <= q.number,
                          q.number < Pos(sx'[c], files', buffer'), Matches(sx'[c], q)
                   PROVE  last[c] # None /\ q.number <= last[c].number
      BY DEF Served
    <3>2. Matches(sx[c], q) /\ sx[c].active
      BY <2>4, <2>5, <3>1
    <3>3. Holds(files, q) /\ q.number < Pos(sx[c], files, buffer)
      BY <2>3, <3>1, <3>2
    <3>. QED
      BY <2>2, <3>1, <3>2, <3>3 DEF Served
  <2>. QED
    BY <1>2, <2>3, <2>6
<1>8. seqLong' <= Start + serial'
  BY <1>1, <1>3, ConstantTypes DEF SkipInv
<1>. QED
  BY <1>7, <1>8 DEF SkipInv

LEMMA CreateBlankSkip ==
  ASSUME Inv, SkipInv, CreateBlank
  PROVE  SkipInv'
<1>1. /\ phase = "recovering" /\ Store(free, "blank")
      /\ sx = AllIdle /\ seqLong \in Nat /\ serial \in 0..MaxPackets
  BY InvIs DEF CreateBlank, Inv, ClientInv, AllIdle, ServerType
<1>2. free \in 1..MaxBuffers /\ Rolled[1].name \in Nat
  BY <1>1, FreeIs, RolledFirst
<1>3. /\ serial' = serial + 1 /\ seqLong' = seqLong + 1
      /\ sx' = [c \in Clients |-> Woken(Forced(sx[c]), free, NewPacket("blank"))]
  BY <1>1, StoreIs
<1>4. seqLong' <= Start + serial'
  BY <1>1, <1>3, ConstantTypes DEF SkipInv
<1>5. ~Idle.active /\ Idle.file = None /\ Idle \in Client
  BY IdlePlaced DEF Idle
<1>6. ASSUME NEW c \in Clients
      PROVE  ~sx'[c].active /\ sx'[c].file = None
  <2>1. sx'[c] = Woken(Forced(Idle), free, NewPacket("blank"))
    BY <1>1, <1>3 DEF AllIdle
  <2>. QED
    BY <1>2, <1>5, <2>1, StoredFields
<1>. QED
  BY <1>4, <1>6 DEF SkipInv, Fresh, Served

LEMMA NextSkip ==
  ASSUME Inv, MarkInv, SkipInv, [Next]_vars, [\A c \in Clients : TrueSwitch(c)]_vars
  PROVE  SkipInv'
<1>1. ASSUME UNCHANGED <<sx, files, buffer, seqLong, serial, last, from>>
      PROVE  SkipInv'
  BY <1>1 DEF SkipInv
<1>2. CASE \E b \in 1..MaxBuffers, kind \in {"main", "other"} : QueueBuffer(b, kind)
  BY <1>2, QueueBufferSkip
<1>3. CASE \E b \in 1..MaxBuffers : EnlargeBy(b)
  BY <1>1, <1>3 DEF EnlargeBy, disk, history
<1>4. CASE Stop \/ Crash
  <2>1. sx' = AllIdle /\ UNCHANGED <<seqLong, serial>>
    BY <1>4 DEF Stop, Crash, AllOff, AllIdle, disk
  <2>2. seqLong' <= Start + serial'
    BY <2>1 DEF SkipInv
  <2>. QED
    BY <2>1, <2>2, AwaySkip
<1>5. CASE Restart
  <2>1. sx' = AllIdle /\ serial' = serial /\ seqLong' = Behind(files) /\ seqLong' <= seqLong
    BY <1>5, RestartIs
  <2>2. seqLong' <= Start + serial'
    <3>1. seqLong \in Nat /\ serial \in 0..MaxPackets
      BY InvIs DEF ServerType
    <3>2. seqLong' \in Nat
      BY <1>5, RestartInv, InvIs DEF Inv, StoreInv, TypeOK
    <3>. QED
      BY <2>1, <3>1, <3>2, ConstantTypes DEF SkipInv
  <2>. QED
    BY <2>1, <2>2, AwaySkip
<1>6. CASE CreateBlank
  BY <1>6, CreateBlankSkip
<1>7. CASE UNCHANGED vars
  BY <1>1, <1>7 DEF vars, memory, disk, history
<1>8. CASE ~(UNCHANGED vars) /\ \E c \in Clients : Request(c) \/ Deliver(c)
  BY <1>8, RequestSkip, DeliverSkip
<1>. QED
  BY <1>2, <1>3, <1>4, <1>5, <1>6, <1>7, <1>8, GetBufferSkip DEF Next, Ingest

LEMMA SkipNothing == Inv /\ SkipInv => NothingSkipped
<1>1. SUFFICES ASSUME Inv, SkipInv, NEW c \in Clients, sx[c].active,
                      NEW i \in 1..Len(files), NEW k \in 1..Size(i),
                      files[i].packets[k].number >= from[c],
                      files[i].packets[k].number < Cursor(c), Matches(sx[c], files[i].packets[k])
               PROVE  last[c] # None /\ files[i].packets[k].number <= last[c].number
  BY DEF NothingSkipped
<1>2. /\ Chain(files) /\ seqLong \in Nat /\ sx \in [Clients -> Client]
      /\ Placed(sx[c], files, buffer, order) /\ (phase # "down" => Agrees)
  BY <1>1, InvIs
<1>3. phase = "up"
  <2>1. ~Idle.active
    BY DEF Idle
  <2>. QED
    BY <1>1, <2>1 DEF Inv, ClientInv
<1>4. Behind(files) = seqLong
  BY <1>2, <1>3 DEF Agrees
<1>. DEFINE p == files[i].packets[k]
<1>5. Holds(files, p)
  BY DEF Holds, Stored, Size
<1>6. Cursor(c) = Pos(sx[c], files, buffer)
  <2>1. CASE sx[c].file # None
    BY <1>2, <2>1, FileAtIs DEF Cursor, Pos
  <2>2. CASE sx[c].file = None
    BY <1>4, <2>2 DEF Cursor, Pos, Ahead
  <2>. QED
    BY <2>1, <2>2
<1>7. p.number \in Nat /\ from[c] \in Nat
  BY <1>1, <1>2, <1>5, HeldNumber, InvIs DEF ClientType
<1>8. Served(sx[c], files, buffer, from[c], last[c])
  BY <1>1 DEF SkipInv
<1>. HIDE DEF p
<1>9. from[c] <= p.number
  BY <1>1, <1>7 DEF p
<1>. QED
  BY <1>1, <1>5, <1>6, <1>8, <1>9 DEF Served, p
-----------------------------------------------------------------------------
\* The theorems.  Memory is not enlarged when it is full, and the segment files hold
\* what memory can hold even when one of them has just been deleted (DiskOutlasts).

LEMMA InitMarkSkip == Init => MarkInv /\ SkipInv
<1>. SUFFICES ASSUME Init
              PROVE  MarkInv /\ SkipInv
  OBVIOUS
<1>1. /\ seqLong = Start /\ serial = 0
      /\ \A c \in Clients : sx[c] = Idle
  BY DEF Init
<1>2. Start \in Nat
  BY ConstantAssumption
<1>3. ~Idle.active /\ Idle.file = None
  BY DEF Idle
<1>4. MarkInv
  BY <1>1, IdleMarked DEF MarkInv
<1>5. \A c \in Clients : /\ Fresh(sx[c])
                         /\ Served(sx[c], files, buffer, from[c], last[c])
  BY <1>1, <1>3 DEF Fresh, Served
<1>6. seqLong <= Start + serial
  BY <1>1, <1>2
<1>. QED
  BY <1>4, <1>5, <1>6 DEF SkipInv

\* Every variable keeps its type, memory and disk their limits.
THEOREM TypeCorrect ==
  ASSUME DiskOutlasts
  PROVE  Spec => []TypeOK
<1>1. Inv => TypeOK
  BY DEF Inv, StoreInv
<1>. QED
  BY <1>1, Invariance, PTL

\* Memory holds the most recent packets, each also on disk under its number, in
\* order and at the end of the list; the two counters agree and buf_free is not
\* exhausted, over crashes and restarts (BufferStoreImpl, FileStore, restore_state).
THEOREM StoreStaysConsistent ==
  ASSUME DiskOutlasts
  PROVE  Spec => []StoreConsistent
  BY Invariance, InvStore, PTL

\* No client keeps a cursor into a buffer that has been recycled or a file that has
\* been deleted, and no file cursor overtakes the memory cursor
\* (delete_oldest_buffer, delete_oldest_segment, do_deliver).
THEOREM CursorsStayValid ==
  ASSUME DiskOutlasts
  PROVE  Spec => []CursorsValid
  BY Invariance, InvCursors, PTL

\* The server never exits over a buffer without a sequence number (internal_check in
\* Sequence::increment and operator<<).
THEOREM ServerChecksHold ==
  ASSUME DiskOutlasts
  PROVE  Spec => []ChecksHold
<1>1. Inv => ChecksHold
  BY DEF Inv, ClientInv, ChecksHold
<1>. QED
  BY <1>1, Invariance, PTL

\* A client with something to read is marked for delivery, unless the only packet it
\* waits for came before the END of its handshake (new_buffer, deliver).
THEOREM ClientsScheduled ==
  ASSUME DiskOutlasts
  PROVE  Spec => []Scheduled
<1>1. Init => Inv /\ MarkInv
  BY InitInv, InitMarkSkip
<1>2. Inv /\ MarkInv /\ [Next]_vars => (Inv /\ MarkInv)'
  BY NextInv, NextMark
<1>. QED
  BY <1>1, <1>2, MarkScheduled, PTL DEF Spec

\* A packet on disk that a client has selected is not passed over, whatever files and
\* buffers are deleted under the client, over restarts too (delete_oldest_buffer,
\* delete_oldest_segment, new_buffer, do_deliver).  The only way to lose one is the
\* sequence number that a cursor keeps when delete_oldest_segment() has moved it: a
\* client must not be taken to memory because a later cycle of numbers has reached it.
THEOREM SkippedOnlyByOldNumber ==
  ASSUME DiskOutlasts
  PROVE  Spec /\ [][\A c \in Clients : TrueSwitch(c)]_vars => []NothingSkipped
<1>1. Init => Inv /\ MarkInv /\ SkipInv
  BY InitInv, InitMarkSkip
<1>2. /\ Inv /\ MarkInv /\ SkipInv /\ [Next]_vars /\ [\A c \in Clients : TrueSwitch(c)]_vars
      => (Inv /\ MarkInv /\ SkipInv)'
  BY NextInv, NextMark, NextSkip
<1>. QED
  BY <1>1, <1>2, SkipNothing, PTL DEF Spec

\* In particular none is passed over as long as fewer packets are stored than there
\* are sequence numbers.
THEOREM NoPacketSkipped ==
  ASSUME DiskOutlasts, MaxPackets < Mod
  PROVE  Spec => []NothingSkipped
<1>1. Init => Inv /\ MarkInv /\ SkipInv
  BY InitInv, InitMarkSkip
<1>2. Inv /\ SkipInv => \A c \in Clients : TrueSwitch(c)
  <2>1. ASSUME Inv, SkipInv, NEW c \in Clients, SwitchToMemory(c)
        PROVE  TrueSwitch(c)
    BY <2>1, SwitchPos DEF SkipInv
  <2>. QED
    BY <2>1 DEF TrueSwitch
<1>3. Inv /\ MarkInv /\ SkipInv /\ [Next]_vars => (Inv /\ MarkInv /\ SkipInv)'
  BY <1>2, NextInv, NextMark, NextSkip
<1>. QED
  BY <1>1, <1>3, SkipNothing, PTL DEF Spec

-----------------------------------------------------------------------------
\* The order of packets.  On disk a packet with a higher number has been stored later.
\* What a client has received last is older than all with higher numbers, and it is
\* before the cursor, and also before every number that is given out after a crash.

Ages(F, s) ==
  /\ \A p : Holds(F, p) => p.serial <= s
  /\ \A p, q : Holds(F, p) /\ Holds(F, q) /\ p.number < q.number => p.serial < q.serial
Older(l, F, s) ==
  l # None => /\ l.serial <= s
              /\ \A p : Holds(F, p) /\ l.number < p.number => l.serial < p.serial
Before(l, n) == l # None => l.number < n
Limit == IF phase = "down" THEN Behind(files) + Missing(Behind(files)) ELSE seqLong + blanks
Blanking ==
  /\ phase = "up" => blanks = 0
  /\ phase = "recovering" => seqLong > 0
  /\ phase # "down" => ~saved
Received(c) ==
  /\ Fresh(sx[c]) /\ Older(last[c], files, serial) /\ Before(last[c], Limit)
  /\ phase = "up" => Before(last[c], Pos(sx[c], files, buffer))
OrderInv == Ages(files, serial) /\ Blanking /\ \A c \in Clients : Received(c)

\* A crash while the server recovers takes no more packets off the disk than the
\* recovery has stored.
RecoveryKeeps ==
  [][Crash /\ phase = "recovering" => seqLong - Behind(files') <= Blanks - blanks]_vars

LEMMA IdleFresh == Fresh(Idle) /\ \A F, B : Pos(Idle, F, B) = Behind(F)
<1>1. Idle.file = None /\ Idle.queue = None
  BY DEF Idle
<1>. QED
  BY <1>1 DEF Fresh, Pos, Ahead

LEMMA InitOrder == Init => OrderInv
<1>. SUFFICES ASSUME Init
              PROVE  OrderInv
  OBVIOUS
<1>1. /\ files = (IF Start = 0 THEN <<>>
                  ELSE <<[name |-> Start, seq |-> Start % Mod, packets |-> <<>>]>>)
      /\ phase = "up" /\ blanks = 0 /\ saved = FALSE
      /\ \A c \in Clients : sx[c] = Idle /\ last[c] = None
  BY DEF Init
<1>2. \A p : ~Holds(files, p)
  <2>1. CASE Start = 0
    BY <1>1, <2>1 DEF Holds
  <2>2. CASE Start # 0
    <3>. DEFINE f == [name |-> Start, seq |-> Start % Mod, packets |-> <<>>]
    <3>1. files = <<f>> /\ Len(f.packets) = 0
      BY <1>1, <2>2
    <3>. HIDE DEF f
    <3>. QED
      BY <3>1 DEF Holds, Stored
  <2>. QED
    BY <2>1, <2>2
<1>3. Ages(files, serial) /\ Blanking
  BY <1>1, <1>2 DEF Ages, Blanking
<1>4. \A c \in Clients : Received(c)
  BY <1>1, IdleFresh DEF Received, Older, Before
<1>. QED
  BY <1>3, <1>4 DEF OrderInv

LEMMA PosIs == Inv /\ phase = "up" => \A c \in Clients : Pos(sx[c], files, buffer) \in Nat
<1>. SUFFICES ASSUME Inv, phase = "up", NEW c \in Clients
              PROVE  Pos(sx[c], files, buffer) \in Nat
  OBVIOUS
<1>1. /\ Chain(files) /\ Linked(order) /\ Agrees /\ seqLong \in Nat
      /\ sx[c] \in Client /\ Placed(sx[c], files, buffer, order)
  BY InvIs
<1>2. CASE sx[c].file # None
  BY <1>1, <1>2, ClientFields, ConstantTypes DEF Pos, At
<1>3. CASE sx[c].file = None /\ sx[c].queue = None
  BY <1>1, <1>3 DEF Pos, Ahead, Agrees
<1>4. CASE sx[c].file = None /\ sx[c].queue # None
  BY <1>1, <1>4, QueueHeld DEF Pos, Ahead, Placed
<1>. QED
  BY <1>2, <1>3, <1>4

LEMMA FewerAges ==
  ASSUME NEW F, NEW G, NEW s, \A p : Holds(G, p) => Holds(F, p)
  PROVE  /\ Ages(F, s) => Ages(G, s)
         /\ \A l : Older(l, F, s) => Older(l, G, s)
  BY DEF Ages, Older

LEMMA MoreAges ==
  ASSUME NEW F, Chain(F), NEW G, NEW p, NEW s \in Nat, Behind(F) = p.number,
         p.serial = s + 1, \A q : Holds(G, q) => q = p \/ Holds(F, q), Ages(F, s)
  PROVE  Ages(G, s + 1)
<1>0. Behind(F) \in Nat
  <2>1. F # <<>> => 1 \in 1..Len(F)
    BY DEF Chain
  <2>. QED
    BY <2>1, ChainRange DEF Behind
<1>1. \A q : Holds(F, q) => /\ q.number \in Nat /\ q.number < p.number
                            /\ q.serial \in Nat /\ q.serial <= s
  <2>. SUFFICES ASSUME NEW q, Holds(F, q)
                PROVE  /\ q.number \in Nat /\ q.number < p.number
                       /\ q.serial \in Nat /\ q.serial <= s
    OBVIOUS
  <2>1. q \in Packet /\ q.number \in Nat /\ q.number < p.number
    BY HeldNumber
  <2>2. q.serial \in Nat
    BY <2>1, ConstantTypes DEF Packet
  <2>. QED
    BY <2>1, <2>2 DEF Ages
<1>2. ASSUME NEW q, Holds(G, q)
      PROVE  q.serial <= s + 1
  BY <1>1, <1>2
<1>3. ASSUME NEW q, NEW r, Holds(G, q), Holds(G, r), q.number < r.number
      PROVE  q.serial < r.serial
  <2>1. CASE Holds(F, q) /\ Holds(F, r)
    BY <1>3, <2>1 DEF Ages
  <2>2. CASE Holds(F, q) /\ r = p
    BY <1>1, <2>2
  <2>3. CASE Holds(F, r) /\ q = p
    <3>1. r.number < p.number /\ r.number \in Nat /\ p.number < r.number
      BY <1>1, <1>3, <2>3
    <3>2. p.number \in Nat
      BY <1>0
    <3>. QED
      BY <3>1, <3>2
  <2>4. CASE q = p /\ r = p
    <3>1. p.number < p.number
      BY <1>3, <2>4
    <3>. QED
      BY <1>0, <3>1
  <2>. QED
    BY <1>3, <2>1, <2>2, <2>3, <2>4
<1>. QED
  BY <1>2, <1>3 DEF Ages

LEMMA MoreOlder ==
  ASSUME NEW F, NEW G, NEW p, NEW s \in Nat, p.serial = s + 1,
         \A q : Holds(G, q) => q = p \/ Holds(F, q),
         NEW l \in [number : Nat, serial : 1..MaxPackets] \cup {None}, Older(l, F, s)
  PROVE  Older(l, G, s + 1)
<1>. SUFFICES ASSUME l # None
              PROVE  /\ l.serial <= s + 1
                     /\ \A q : Holds(G, q) /\ l.number < q.number => l.serial < q.serial
  BY DEF Older
<1>1. l.serial \in Nat /\ l.serial <= s
  BY ConstantTypes DEF Older
<1>2. l.serial < p.serial
  BY <1>1
<1>3. \A q : Holds(F, q) /\ l.number < q.number => l.serial < q.serial
  BY DEF Older
<1>. QED
  BY <1>1, <1>2, <1>3

\* A packet is stored: it is the latest and has the highest number.
LEMMA StoreOrder ==
  ASSUME Inv, OrderInv, phase # "down", NEW b, NEW kind \in {"main", "other", "blank"},
         Store(b, kind), last' = last
  PROVE  /\ Ages(files', serial')
         /\ \A c \in Clients : Older(last'[c], files', serial')
<1>. DEFINE p == NewPacket(kind)
<1>1. /\ Chain(files) /\ Behind(files) = seqLong /\ seqLong \in Nat /\ Start <= seqLong
      /\ seq = seqLong % Mod /\ serial \in 0..MaxPackets
      /\ last \in [Clients -> [number : Nat, serial : 1..MaxPackets] \cup {None}]
  BY InvIs DEF Agrees, ServerType, ClientType
<1>2. /\ p \in Packet /\ p.number = seqLong /\ p.serial = serial + 1 /\ serial' = serial + 1
      /\ files' = Written(p)
  BY <1>1, StoreIs
<1>3. \A q : Holds(files', q) => q = p \/ Holds(files, q)
  BY <1>1, <1>2, WrittenIs DEF Written
<1>. HIDE DEF p
<1>4. serial \in Nat
  BY <1>1, ConstantTypes
<1>5. Ages(files, serial) /\ \A c \in Clients : Older(last[c], files, serial)
  BY DEF OrderInv, Received
<1>6. Ages(files', serial + 1)
  BY <1>1, <1>2, <1>3, <1>4, <1>5, MoreAges
<1>7. ASSUME NEW c \in Clients
      PROVE  Older(last[c], files', serial + 1)
  <2>1. last[c] \in [number : Nat, serial : 1..MaxPackets] \cup {None}
    BY <1>1
  <2>. QED
    BY <1>2, <1>3, <1>4, <1>5, <2>1, MoreOlder
<1>. QED
  BY <1>2, <1>6, <1>7

LEMMA QueueBufferOrder ==
  ASSUME Inv, Inv', OrderInv, NEW b \in 1..MaxBuffers, NEW kind \in {"main", "other"},
         QueueBuffer(b, kind)
  PROVE  OrderInv'
<1>. DEFINE p == NewPacket(kind)
<1>1. /\ Chain(files) /\ Linked(order) /\ Agrees /\ seqLong \in Nat /\ sx \in [Clients -> Client]
      /\ buffer \in [1..MaxBuffers -> Content] /\ Start <= seqLong /\ serial \in 0..MaxPackets
      /\ phase = "up" /\ blanks \in 0..Blanks
      /\ last \in [Clients -> [number : Nat, serial : 1..MaxPackets] \cup {None}]
      /\ \A c \in Clients : sx[c] \in Client /\ Placed(sx[c], files, buffer, order)
  BY InvIs DEF QueueBuffer, ServerType, ClientType
<1>2. /\ Store(b, kind) /\ b \in held /\ last' = last
      /\ phase' = phase /\ blanks' = blanks /\ saved' = saved
  BY DEF QueueBuffer, history, server
<1>3. /\ p \in Packet /\ p.number = seqLong /\ seqLong' = seqLong + 1
      /\ buffer' = WithPacket(buffer, b, seq, p) /\ files' = Written(p)
      /\ sx' = [c \in Clients |-> Woken(Forced(sx[c]), b, p)]
  BY <1>1, <1>2, StoreIs
<1>4. b \in Elements(order) /\ buffer[b] = None
  <2>1. Handed(order, buffer, held, free)
    BY <1>1 DEF Agrees
  <2>2. held \subseteq Elements(order)
    BY <1>1, <2>1, HandedIs
  <2>. QED
    BY <1>2, <2>1, <2>2 DEF Handed
<1>5. files' = WithLast(Rolled, Append(Rolled[Len(Rolled)].packets, p))
  BY <1>3 DEF Written
<1>. HIDE DEF p
<1>6. Ages(files', serial') /\ \A c \in Clients : Older(last'[c], files', serial')
  BY <1>1, <1>2, StoreOrder
<1>7. Blanking'
  BY <1>1, <1>2 DEF OrderInv, Blanking
<1>8. \A c \in Clients : Pos(sx[c], files, buffer) \in Nat /\ Pos(sx'[c], files', buffer') \in Nat
  <2>1. (Inv /\ phase = "up" => \A c \in Clients : Pos(sx[c], files, buffer) \in Nat)'
    BY PosIs, PTL
  <2>. QED
    BY <1>1, <1>2, <2>1, PosIs
<1>9. ASSUME NEW c \in Clients
      PROVE  Received(c)'
  <2>1. sx'[c] = Woken(Forced(sx[c]), b, p)
    BY <1>3
  <2>2. /\ Fresh(sx[c]) /\ Before(last[c], Limit)
        /\ Before(last[c], Pos(sx[c], files, buffer))
    BY <1>1 DEF OrderInv, Received
  <2>3. Fresh(sx'[c]) /\ Pos(sx[c], files, buffer) <= Pos(sx'[c], files', buffer')
    BY <1>1, <1>3, <1>4, <1>5, <2>1, <2>2, StoredPos
  <2>4. last[c] # None => last[c].number \in Nat
    BY <1>1
  <2>5. Before(last[c], Pos(sx'[c], files', buffer'))
    BY <1>8, <2>2, <2>3, <2>4 DEF Before
  <2>6. Limit' = Limit + 1 /\ Limit \in Nat
    BY <1>1, <1>2, <1>3, ConstantTypes DEF Limit
  <2>7. Before(last[c], Limit')
    BY <2>2, <2>4, <2>6 DEF Before
  <2>. QED
    BY <1>2, <1>6, <2>3, <2>5, <2>7 DEF Received
<1>. QED
  BY <1>6, <1>7, <1>9 DEF OrderInv

\* While the server recovers it serves nobody.
LEMMA CreateBlankOrder ==
  ASSUME Inv, Inv', OrderInv, CreateBlank
  PROVE  OrderInv'
<1>1. /\ phase = "recovering" /\ seqLong \in Nat /\ serial \in 0..MaxPackets
      /\ blanks \in 0..Blanks /\ sx = AllIdle /\ blanks >= 1
  BY InvIs DEF CreateBlank, Inv, ClientInv, StoreInv, AllIdle, ServerType
<1>2. /\ Store(free, "blank") /\ last' = last /\ blanks' = blanks - 1 /\ saved' = saved
      /\ phase' = (IF blanks = 1 THEN "up" ELSE phase)
  BY DEF CreateBlank, history
<1>3. /\ seqLong' = seqLong + 1
      /\ sx' = [c \in Clients |-> Woken(Forced(sx[c]), free, NewPacket("blank"))]
  BY <1>1, <1>2, StoreIs
<1>4. Ages(files', serial') /\ \A c \in Clients : Older(last'[c], files', serial')
  BY <1>1, <1>2, StoreOrder
<1>5. Blanking'
  BY <1>1, <1>2, <1>3, ConstantTypes DEF OrderInv, Blanking
<1>6. free \in 1..MaxBuffers /\ Rolled[1].name \in Nat
  BY <1>1, FreeIs, RolledFirst
<1>7. ~Idle.active /\ Idle.file = None /\ Idle.queue = None /\ Idle \in Client
  BY IdlePlaced DEF Idle
<1>8. ASSUME NEW c \in Clients
      PROVE  sx'[c].file = None /\ sx'[c].queue = None
  <2>1. sx'[c] = Woken(Forced(Idle), free, NewPacket("blank"))
    BY <1>1, <1>3 DEF AllIdle
  <2>2. Ignores(Idle, NewPacket("blank"))
    BY <1>7 DEF Ignores
  <2>3. sx'[c].queue = Idle.queue
    BY <1>6, <1>7, <2>1, <2>2, StoredFields
  <2>4. sx'[c].file = Idle.file
    BY <1>6, <1>7, <2>1, StoredFields
  <2>. QED
    BY <1>7, <2>3, <2>4
<1>9. Limit' = Limit
  BY <1>1, <1>2, <1>3, ConstantTypes DEF Limit
<1>10. phase' = "up" => Behind(files') = Limit'
  <2>1. (Inv => (phase # "down" => Agrees))'
    BY InvIs, PTL
  <2>2. phase' = "up" => Behind(files') = seqLong'
    BY <2>1 DEF Agrees
  <2>3. phase' = "up" => Limit' = seqLong' + blanks' /\ blanks' = 0
    BY <1>5 DEF Limit, Blanking
  <2>. QED
    BY <1>1, <1>3, <2>2, <2>3
<1>11. ASSUME NEW c \in Clients
       PROVE  Received(c)'
  <2>1. Before(last[c], Limit)
    BY DEF OrderInv, Received
  <2>2. Fresh(sx'[c]) /\ Pos(sx'[c], files', buffer') = Behind(files')
    BY <1>8 DEF Fresh, Pos, Ahead
  <2>. QED
    BY <1>2, <1>4, <1>9, <1>10, <2>1, <2>2 DEF Received
<1>. QED
  BY <1>4, <1>5, <1>11 DEF OrderInv

LEMMA GetBufferOrder ==
  ASSUME Inv, OrderInv, GetBuffer
  PROVE  OrderInv'
<1>1. /\ Chain(files) /\ Linked(order) /\ Agrees /\ seqLong \in Nat /\ sx \in [Clients -> Client]
      /\ buffer \in [1..MaxBuffers -> Content] /\ phase = "up"
      /\ \A c \in Clients : sx[c] \in Client /\ Placed(sx[c], files, buffer, order)
  BY InvIs DEF GetBuffer
<1>2. free \in 1..MaxBuffers /\ free \in Elements(order)
  BY <1>1, FreeIs
<1>3. /\ buffer' = [buffer EXCEPT ![free] = None]
      /\ sx' = IF buffer[free] = None THEN sx
               ELSE [c \in Clients |-> Recycled(sx[c], free)]
      /\ UNCHANGED <<files, seqLong, serial, last, phase, blanks, saved>>
  BY DEF GetBuffer, disk, server, history
<1>4. ASSUME NEW c \in Clients
      PROVE  Received(c)'
  <2>1. sx'[c] = IF buffer[free] = None THEN sx[c] ELSE Recycled(sx[c], free)
    BY <1>3
  <2>2. /\ Fresh(sx[c]) /\ Older(last[c], files, serial) /\ Before(last[c], Limit)
        /\ Before(last[c], Pos(sx[c], files, buffer))
    BY <1>1 DEF OrderInv, Received
  <2>3. Fresh(sx'[c]) /\ Pos(sx'[c], files, buffer') = Pos(sx[c], files, buffer)
    BY <1>1, <1>2, <1>3, <2>1, <2>2, RecycledPos
  <2>4. Limit' = Limit
    BY <1>3 DEF Limit, Missing
  <2>. QED
    BY <1>3, <2>2, <2>3, <2>4 DEF Received
<1>. QED
  BY <1>3, <1>4 DEF OrderInv, Ages, Blanking

\* What a client has received stays before the numbers that follow a crash.
LEMMA CrashLimit ==
  ASSUME Inv, Blanking, Crash, MaxLost <= Blanks,
         phase = "recovering" => seqLong - Behind(files') <= Blanks - blanks
  PROVE  Limit <= Limit' \/ Limit = 0
<1>1. /\ phase \in {"up", "recovering"} /\ phase' = "down"
      /\ saved' = saved
  BY DEF Crash, AllOff
<1>2. /\ Agrees /\ seqLong \in Nat /\ Start <= seqLong /\ blanks \in 0..Blanks
      /\ (phase = "recovering" => blanks >= 1)
  BY <1>1, InvIs DEF ServerType, Inv, StoreInv
<1>3. /\ Behind(files') <= seqLong
      /\ \/ Behind(files') = Behind(files)
         \/ \E k \in 1..MaxLost : k < seqLong /\ Behind(files') = Behind(files) - k
  BY CrashedFiles
<1>. DEFINE n == Behind(files')
<1>4. ~saved /\ Behind(files) = seqLong /\ Limit = seqLong + blanks
  BY <1>1, <1>2 DEF Blanking, Limit, Agrees
<1>5. Limit' = n + (IF n = 0 THEN 0 ELSE Blanks)
  BY <1>1, <1>4 DEF Limit, Missing
<1>. HIDE DEF n
<1>6. n \in Nat /\ (n = 0 => seqLong = 0)
  BY <1>2, <1>3, <1>4, ConstantTypes DEF n
<1>7. CASE phase = "up"
  <2>1. blanks = 0
    BY <1>7 DEF Blanking
  <2>2. n = seqLong \/ seqLong - n <= MaxLost
    BY <1>2, <1>3, <1>4, ConstantTypes DEF n
  <2>. QED
    BY <1>2, <1>4, <1>5, <1>6, <2>1, <2>2, ConstantTypes
<1>8. CASE phase = "recovering"
  <2>1. seqLong > 0
    BY <1>8 DEF Blanking
  <2>2. seqLong - n <= Blanks - blanks
    BY <1>8 DEF n
  <2>. QED
    BY <1>2, <1>4, <1>5, <1>6, <2>1, <2>2, ConstantTypes
<1>. QED
  BY <1>1, <1>7, <1>8

\* The server ends.
LEMMA EndOrder ==
  ASSUME Inv, OrderInv, AllOff, last' = last, serial' = serial,
         \A p : Holds(files', p) => Holds(files, p),
         Limit \in Nat, Limit' \in Nat, Limit <= Limit' \/ Limit = 0
  PROVE  OrderInv'
<1>1. phase' = "down" /\ \A c \in Clients : sx'[c] = Idle
  BY DEF AllOff
<1>2. Ages(files, serial) /\ \A c \in Clients : Older(last[c], files, serial)
  BY DEF OrderInv, Received
<1>3. Ages(files', serial') /\ \A c \in Clients : Older(last[c], files', serial')
  BY <1>2, FewerAges
<1>4. ASSUME NEW c \in Clients
      PROVE  Before(last[c], Limit')
  <2>1. last[c] # None => last[c].number \in Nat
    BY InvIs DEF ClientType
  <2>2. Before(last[c], Limit)
    BY DEF OrderInv, Received
  <2>. QED
    BY <2>1, <2>2 DEF Before
<1>5. Blanking'
  BY <1>1 DEF Blanking
<1>. QED
  BY <1>1, <1>3, <1>4, <1>5, IdleFresh DEF OrderInv, Received

LEMMA LimitNat == Inv => Limit \in Nat
<1>. SUFFICES ASSUME Inv
              PROVE  Limit \in Nat
  OBVIOUS
<1>1. /\ Chain(files) /\ seqLong \in Nat /\ blanks \in 0..Blanks
  BY InvIs DEF ServerType
<1>2. Behind(files) \in Nat
  BY <1>1, RegisteredIs
<1>. QED
  BY <1>1, <1>2, ConstantTypes DEF Limit, Missing

LEMMA CrashOrder ==
  ASSUME Inv, Inv', OrderInv, Crash, MaxLost <= Blanks,
         phase = "recovering" => seqLong - Behind(files') <= Blanks - blanks
  PROVE  OrderInv'
<1>1. Limit \in Nat /\ Limit' \in Nat
  <2>1. (Inv => Limit \in Nat)'
    BY LimitNat, PTL
  <2>. QED
    BY <2>1, LimitNat
<1>2. Limit <= Limit' \/ Limit = 0
  BY CrashLimit DEF OrderInv
<1>3. AllOff /\ last' = last /\ serial' = serial
  BY DEF Crash
<1>. QED
  BY <1>1, <1>2, <1>3, CrashedFiles, EndOrder

LEMMA StopOrder ==
  ASSUME Inv, Inv', OrderInv, Stop
  PROVE  OrderInv'
<1>1. Limit \in Nat /\ Limit' \in Nat
  <2>1. (Inv => Limit \in Nat)'
    BY LimitNat, PTL
  <2>. QED
    BY <2>1, LimitNat
<1>2. AllOff /\ last' = last /\ serial' = serial /\ files' = files /\ saved' = TRUE
      /\ phase = "up" /\ phase' = "down"
  BY DEF Stop, disk, AllOff
<1>3. Behind(files) = seqLong /\ seqLong \in Nat
  BY <1>2, InvIs DEF Agrees
<1>4. Limit = seqLong + 0
  BY <1>2 DEF Limit, OrderInv, Blanking
<1>5. Limit' = seqLong + 0
  BY <1>2, <1>3 DEF Limit, Missing
<1>. QED
  BY <1>1, <1>2, <1>4, <1>5, EndOrder

LEMMA RestartOrder ==
  ASSUME Inv, OrderInv, Restart
  PROVE  OrderInv'
<1>1. /\ files' = files /\ seqLong' = Behind(files) /\ sx' = AllIdle /\ saved' = FALSE
      /\ blanks' = Missing(EndOnDisk) /\ blanks' \in 0..Blanks
      /\ phase' = (IF blanks' = 0 THEN "up" ELSE "recovering")
      /\ UNCHANGED <<serial, last>>
  BY RestartIs
<1>2. EndOnDisk = Behind(files) /\ EndOnDisk \in Nat
  BY InvIs, RegisteredIs
<1>3. phase = "down"
  BY DEF Restart
<1>4. Limit = Behind(files) + blanks' /\ Limit' = Behind(files) + blanks'
  BY <1>1, <1>2, <1>3 DEF Limit
<1>5. Blanking'
  BY <1>1, <1>2 DEF Blanking, Missing
<1>6. ASSUME NEW c \in Clients
      PROVE  Received(c)'
  <2>1. Older(last[c], files, serial) /\ Before(last[c], Limit)
    BY DEF OrderInv, Received
  <2>2. sx'[c] = Idle
    BY <1>1 DEF AllIdle
  <2>3. Fresh(sx'[c]) /\ Pos(sx'[c], files', buffer') = Behind(files)
    BY <1>1, <2>2, IdleFresh
  <2>4. phase' = "up" => Limit' = Behind(files)
    BY <1>1, <1>2, <1>4
  <2>. QED
    BY <1>1, <1>4, <2>1, <2>3, <2>4 DEF Received
<1>7. Ages(files', serial')
  BY <1>1 DEF OrderInv
<1>. QED
  BY <1>5, <1>6, <1>7 DEF OrderInv

\* A step of client c alone.
LEMMA AloneOrder ==
  ASSUME Inv, OrderInv, NEW c \in Clients, phase = "up",
         UNCHANGED <<files, buffer, seqLong, serial, phase, blanks, saved>>,
         \A d \in Clients \ {c} : sx'[d] = sx[d] /\ last'[d] = last[d],
         Fresh(sx'[c]), Older(last'[c], files, serial), Before(last'[c], seqLong),
         Before(last'[c], Pos(sx'[c], files, buffer))
  PROVE  OrderInv'
<1>1. Limit' = Limit /\ Limit = seqLong + blanks /\ blanks = 0 /\ seqLong \in Nat
  BY InvIs DEF Limit, OrderInv, Blanking
<1>2. Limit' = seqLong
  BY <1>1
<1>3. ASSUME NEW d \in Clients
      PROVE  Received(d)'
  <2>1. CASE d = c
    BY <1>2, <2>1 DEF Received
  <2>2. CASE d # c
    <3>1. sx'[d] = sx[d] /\ last'[d] = last[d]
      BY <2>2
    <3>2. Received(d)
      BY DEF OrderInv
    <3>. QED
      BY <1>1, <3>1, <3>2 DEF Received
  <2>. QED
    BY <2>1, <2>2
<1>4. Ages(files', serial') /\ Blanking'
  BY DEF OrderInv, Blanking
<1>. QED
  BY <1>3, <1>4 DEF OrderInv

LEMMA RequestOrder ==
  ASSUME Inv, OrderInv, NEW c \in Clients, Request(c)
  PROVE  OrderInv' /\ last'[c] \in {None, last[c]} /\ \A d \in Clients \ {c} : last'[d] = last[d]
<1>1. /\ sx \in [Clients -> Client] /\ sx[c] \in Client /\ phase = "up" /\ Agrees
      /\ Chain(files) /\ Linked(order) /\ seqLong \in Nat
      /\ last \in [Clients -> [number : Nat, serial : 1..MaxPackets] \cup {None}]
  <2>1. phase = "up"
    BY DEF Request, RequestNext, RequestAll, Resume, RequestFrom, Select, EndHandshake, Close,
           Serve, Listening
  <2>. QED
    BY <2>1, InvIs DEF ClientType
<1>2. /\ Fresh(sx[c]) /\ Older(last[c], files, serial) /\ Before(last[c], seqLong)
      /\ Before(last[c], Pos(sx[c], files, buffer))
  <2>1. Limit = seqLong
    BY <1>1 DEF Limit, OrderInv, Blanking
  <2>. QED
    BY <1>1, <2>1 DEF OrderInv, Received
<1>3. ASSUME NEW mode \in Modes,
             \/ RequestNext(c, mode) \/ RequestAll(c, mode) \/ Resume(c, mode)
             \/ \E m \in 0..(Mod - 1) : RequestFrom(c, m, mode)
      PROVE  /\ OrderInv' /\ last'[c] \in {None, last[c]}
             /\ \A d \in Clients \ {c} : last'[d] = last[d]
  <2>1. PICK place : \E ready \in BOOLEAN :
               Serve(c, place, ready, mode) /\ Asked(c, place, ready)
    BY <1>3, AskedIs
  <2>2. PICK ready \in BOOLEAN : Serve(c, place, ready, mode) /\ Asked(c, place, ready)
    BY <2>1
  <2>3. /\ Fresh(sx'[c]) /\ Pos(sx'[c], files, buffer) = place.number /\ place.number \in Nat
        /\ Moves(c) /\ UNCHANGED <<memory, disk, server>>
    BY <2>2, ServedAt
  <2>4. /\ UNCHANGED <<files, buffer, seqLong, serial, phase, blanks, saved>>
        /\ \A d \in Clients \ {c} : sx'[d] = sx[d]
    BY <2>3 DEF memory, disk, server, Moves
  <2>5. CASE Anew(c, place)
    <3>1. last' = [last EXCEPT ![c] = None]
      BY <2>5 DEF Anew
    <3>2. last'[c] = None /\ \A d \in Clients \ {c} : last'[d] = last[d]
      BY <1>1, <3>1
    <3>3. /\ Older(last'[c], files, serial) /\ Before(last'[c], seqLong)
          /\ Before(last'[c], Pos(sx'[c], files, buffer))
      BY <3>2 DEF Older, Before
    <3>. QED
      BY <1>1, <2>3, <2>4, <3>2, <3>3, AloneOrder
  <2>6. CASE Goes(c, place, ready)
    <3>. DEFINE n == last[c].number
    <3>1. /\ last[c] # None /\ seqLong - n < Mod /\ last' = last
          /\ place = FindPacket(Next1(n % Mod))
      BY <2>6 DEF Goes, Behindhand
    <3>2. n \in Nat /\ n < seqLong
      BY <1>1, <1>2, <3>1 DEF Before
    <3>. HIDE DEF n
    <3>3. n < place.number
      BY <1>1, <3>1, <3>2, ResumeIs
    <3>4. Before(last'[c], Pos(sx'[c], files, buffer))
      BY <2>3, <3>1, <3>3 DEF Before, n
    <3>. QED
      BY <1>1, <1>2, <2>3, <2>4, <3>1, <3>4, AloneOrder
  <2>. QED
    BY <2>2, <2>5, <2>6 DEF Asked
<1>4. ASSUME NEW y, sx' = [sx EXCEPT ![c] = y], Fresh(y),
             Pos(y, files, buffer) \in {seqLong, Pos(sx[c], files, buffer)},
             UNCHANGED <<memory, disk, server, last>>
      PROVE  /\ OrderInv' /\ last'[c] \in {None, last[c]}
             /\ \A d \in Clients \ {c} : last'[d] = last[d]
  <2>1. sx'[c] = y /\ \A d \in Clients \ {c} : sx'[d] = sx[d]
    BY <1>1, <1>4
  <2>2. UNCHANGED <<files, buffer, seqLong, serial, phase, blanks, saved>> /\ last' = last
    BY <1>4 DEF memory, disk, server
  <2>3. Before(last[c], Pos(y, files, buffer))
    BY <1>2, <1>4
  <2>. QED
    BY <1>1, <1>2, <1>4, <2>1, <2>2, <2>3, AloneOrder
<1>5. ASSUME NEW y, y.file = None, y.queue = None
      PROVE  Fresh(y) /\ Pos(y, files, buffer) = seqLong
  BY <1>1, <1>5 DEF Fresh, Pos, Ahead, Agrees
<1>6. CASE Select(c)
  <2>. DEFINE m == sx[c].multi
              y == [Idle EXCEPT !.on = TRUE, !.multi = m]
  <2>1. sx' = [sx EXCEPT ![c] = y] /\ UNCHANGED <<memory, disk, server, last>>
    BY <1>6 DEF Select
  <2>. HIDE DEF m
  <2>2. y.file = None /\ y.queue = None
    BY DEF Idle
  <2>. HIDE DEF y
  <2>. QED
    BY <1>4, <1>5, <2>1, <2>2
<1>7. CASE EndHandshake(c)
  <2>. DEFINE y == [sx[c] EXCEPT !.done = TRUE]
  <2>1. sx' = [sx EXCEPT ![c] = y] /\ UNCHANGED <<memory, disk, server, last>>
    BY <1>7 DEF EndHandshake, history
  <2>2. /\ y.queue = sx[c].queue /\ y.file = sx[c].file /\ y.fd = sx[c].fd
        /\ y.seq = sx[c].seq
    BY <1>1 DEF Client
  <2>. HIDE DEF y
  <2>3. At(y) = At(sx[c]) /\ Ahead(y, files, buffer) = Ahead(sx[c], files, buffer)
    BY <2>2 DEF At, Ahead
  <2>4. Fresh(y) /\ Pos(y, files, buffer) = Pos(sx[c], files, buffer)
    BY <1>2, <2>2, <2>3 DEF Fresh, Pos
  <2>. QED
    BY <1>4, <2>1, <2>4
<1>8. CASE Close(c)
  <2>1. sx' = [sx EXCEPT ![c] = Idle] /\ UNCHANGED <<memory, disk, server, last>>
    BY <1>8 DEF Close
  <2>2. Idle.file = None /\ Idle.queue = None
    BY DEF Idle
  <2>. QED
    BY <1>4, <1>5, <2>1, <2>2
<1>. QED
  BY <1>3, <1>6, <1>7, <1>8 DEF Request

Later(c) ==
  last[c] # None /\ last'[c] \notin {None, last[c]} =>
    last'[c].number > last[c].number /\ last'[c].serial > last[c].serial

\* A packet is sent: it follows what the client has received before.
LEMMA TakenOrder ==
  ASSUME Inv, OrderInv, NEW c \in Clients, NEW q, Taken(c, q), phase = "up"
  PROVE  /\ Older(last'[c], files, serial) /\ Before(last'[c], seqLong)
         /\ Before(last'[c], Pos(sx'[c], files, buffer)) /\ Later(c)
         /\ \A d \in Clients \ {c} : last'[d] = last[d]
<1>1. /\ Chain(files) /\ ClientType /\ Agrees /\ seqLong \in Nat
      /\ last[c] # None => last[c].number \in Nat
  BY InvIs DEF ClientType
<1>2. /\ Send(c, q) /\ q \in Packet /\ Holds(files, q)
      /\ q.number = Pos(sx[c], files, buffer)
      /\ Pos(sx'[c], files, buffer) = q.number + 1
  BY DEF Taken
<1>3. /\ \A d \in Clients \ {c} : last'[d] = last[d]
      /\ \/ last'[c] = [number |-> q.number, serial |-> q.serial]
         \/ last' = last
  BY <1>1, <1>2, SendIs
<1>4. q.number \in Nat /\ q.number < seqLong /\ q.serial \in 1..MaxPackets
  BY <1>1, <1>2, HeldNumber DEF Agrees, Packet
<1>5. /\ Older(last[c], files, serial) /\ Before(last[c], q.number)
  BY <1>2 DEF OrderInv, Received
<1>6. CASE last' = last
  <2>1. Before(last[c], seqLong) /\ Before(last[c], q.number + 1)
    BY <1>1, <1>4, <1>5 DEF Before
  <2>2. Later(c)
    BY <1>6 DEF Later
  <2>. QED
    BY <1>2, <1>3, <1>5, <1>6, <2>1, <2>2
<1>7. CASE last'[c] = [number |-> q.number, serial |-> q.serial]
  <2>. DEFINE l == [number |-> q.number, serial |-> q.serial]
  <2>1. last'[c] = l /\ l.number = q.number /\ l.serial = q.serial
    BY <1>7
  <2>. HIDE DEF l
  <2>2. Before(l, seqLong) /\ Before(l, q.number + 1)
    BY <1>4, <2>1 DEF Before
  <2>3. Older(l, files, serial)
    BY <1>2, <2>1 DEF OrderInv, Ages, Older
  <2>4. last[c] # None => l.number > last[c].number /\ l.serial > last[c].serial
    <3>. SUFFICES ASSUME last[c] # None
                  PROVE  l.number > last[c].number /\ l.serial > last[c].serial
      OBVIOUS
    <3>1. last[c].number < q.number
      BY <1>5 DEF Before
    <3>2. last[c].serial < q.serial
      BY <1>2, <1>5, <3>1 DEF Older
    <3>. QED
      BY <2>1, <3>1, <3>2
  <2>5. Later(c)
    BY <2>1, <2>4 DEF Later
  <2>. QED
    BY <1>2, <1>3, <2>1, <2>2, <2>3, <2>5
<1>. QED
  BY <1>3, <1>6, <1>7

LEMMA DeliverOrder ==
  ASSUME Inv, OrderInv, NEW c \in Clients, Deliver(c)
  PROVE  OrderInv' /\ Later(c) /\ \A d \in Clients \ {c} : last'[d] = last[d]
<1>1. /\ Chain(files) /\ sx \in [Clients -> Client] /\ Placed(sx[c], files, buffer, order)
      /\ Linked(order) /\ Agrees /\ seqLong \in Nat /\ phase = "up" /\ ClientType
      /\ last[c] # None => last[c].number \in Nat
  BY InvIs DEF Deliver, SwitchToMemory, EndOfFile, ReadFile, ReadMemory, NothingLeft, Delivering,
               ClientType
<1>2. /\ Older(last[c], files, serial) /\ Before(last[c], seqLong)
      /\ Before(last[c], Pos(sx[c], files, buffer))
  <2>1. Limit = seqLong
    BY <1>1 DEF Limit, OrderInv, Blanking
  <2>. QED
    BY <1>1, <2>1 DEF OrderInv, Received
<1>3. ASSUME NEW q, Taken(c, q), Moves(c)
      PROVE  OrderInv' /\ Later(c) /\ \A d \in Clients \ {c} : last'[d] = last[d]
  <2>1. UNCHANGED <<memory, disk, server>> /\ Fresh(sx'[c])
    BY <1>1, <1>3, SendIs DEF Taken
  <2>2. /\ UNCHANGED <<files, buffer, seqLong, serial, phase, blanks, saved>>
        /\ \A d \in Clients \ {c} : sx'[d] = sx[d]
    BY <1>3, <2>1 DEF memory, disk, server, Moves
  <2>3. /\ Older(last'[c], files, serial) /\ Before(last'[c], seqLong)
        /\ Before(last'[c], Pos(sx'[c], files, buffer)) /\ Later(c)
        /\ \A d \in Clients \ {c} : last'[d] = last[d]
    BY <1>1, <1>3, TakenOrder
  <2>. QED
    BY <1>1, <2>1, <2>2, <2>3, AloneOrder
<1>4. ASSUME Pos(sx[c], files, buffer) <= Pos(sx'[c], files, buffer), Fresh(sx'[c]), Moves(c),
             Pos(sx'[c], files, buffer) \in Nat, UNCHANGED <<memory, disk, server, history>>
      PROVE  OrderInv' /\ Later(c) /\ \A d \in Clients \ {c} : last'[d] = last[d]
  <2>1. UNCHANGED <<files, buffer, seqLong, serial, phase, blanks, saved, last>>
    BY <1>4 DEF memory, disk, server, history
  <2>2. Pos(sx[c], files, buffer) \in Nat
    BY <1>1, PosIs
  <2>3. Before(last'[c], Pos(sx'[c], files, buffer))
    BY <1>1, <1>2, <1>4, <2>1, <2>2 DEF Before
  <2>4. \A d \in Clients \ {c} : sx'[d] = sx[d]
    BY <1>4 DEF Moves
  <2>5. Later(c)
    BY <2>1 DEF Later
  <2>. QED
    BY <1>1, <1>2, <1>4, <2>1, <2>3, <2>4, <2>5, AloneOrder
<1>5. Pos(sx[c], files, buffer) \in Nat
  BY <1>1, PosIs
<1>6. ASSUME Moves(c)
      PROVE  Pos(sx'[c], files, buffer) \in Nat
  <2>1. sx'[c] \in Client /\ Placed(sx'[c], files, buffer, order)
    BY <1>6 DEF Moves
  <2>2. CASE sx'[c].file # None
    BY <2>1, <2>2, ClientFields, ConstantTypes DEF Pos, At
  <2>3. CASE sx'[c].file = None /\ sx'[c].queue = None
    BY <1>1, <2>3 DEF Pos, Ahead, Agrees
  <2>4. CASE sx'[c].file = None /\ sx'[c].queue # None
    BY <1>1, <2>1, <2>4, QueueHeld DEF Pos, Ahead, Placed
  <2>. QED
    BY <2>2, <2>3, <2>4
<1>7. CASE SwitchToMemory(c)
  <2>1. Moves(c)
    BY <1>1, <1>7, SwitchMoves
  <2>2. Pos(sx[c], files, buffer) <= Pos(sx'[c], files, buffer) /\ Fresh(sx'[c])
    BY <1>7, SwitchPos
  <2>. QED
    BY <1>4, <1>6, <1>7, <2>1, <2>2 DEF SwitchToMemory
<1>8. CASE EndOfFile(c)
  <2>1. Moves(c)
    BY <1>1, <1>8, EndOfFileMoves
  <2>2. Pos(sx'[c], files, buffer) = Pos(sx[c], files, buffer) /\ Fresh(sx'[c])
    BY <1>8, EndOfFilePos
  <2>3. Pos(sx[c], files, buffer) <= Pos(sx'[c], files, buffer)
    BY <1>5, <2>2
  <2>. QED
    BY <1>4, <1>6, <1>8, <2>1, <2>2, <2>3 DEF EndOfFile
<1>9. CASE NothingLeft(c)
  <2>1. Moves(c)
    BY <1>1, <1>9, NothingLeftMoves
  <2>2. Pos(sx'[c], files, buffer) = Pos(sx[c], files, buffer) /\ Fresh(sx'[c])
    BY <1>1, <1>9, NothingPos
  <2>3. Pos(sx[c], files, buffer) <= Pos(sx'[c], files, buffer)
    BY <1>5, <2>2
  <2>. QED
    BY <1>4, <1>6, <1>9, <2>1, <2>2, <2>3 DEF NothingLeft
<1>10. CASE ReadFile(c)
  <2>1. Moves(c)
    BY <1>1, <1>10, ReadFileMoves
  <2>2. \E q : Taken(c, q)
    BY <1>10, ReadTakes
  <2>. QED
    BY <1>3, <2>1, <2>2
<1>11. CASE ReadMemory(c)
  <2>1. Moves(c)
    BY <1>1, <1>11, ReadMemoryMoves
  <2>2. \E q : Taken(c, q)
    BY <1>11, ReadTakes
  <2>. QED
    BY <1>3, <2>1, <2>2
<1>. QED
  BY <1>7, <1>8, <1>9, <1>10, <1>11 DEF Deliver

\* The last packet that a client has received changes in a step of this client only.
LEMMA StepOrder ==
  ASSUME Inv, OrderInv, [Next]_vars
  PROVE  \A c \in Clients : Later(c)
<1>1. CASE last' = last
  BY <1>1 DEF Later
<1>2. ASSUME NEW c \in Clients, Request(c)
      PROVE  \A d \in Clients : Later(d)
  BY <1>2, RequestOrder DEF Later
<1>3. ASSUME NEW c \in Clients, Deliver(c)
      PROVE  \A d \in Clients : Later(d)
  <2>1. Later(c) /\ \A d \in Clients \ {c} : last'[d] = last[d]
    BY <1>3, DeliverOrder
  <2>2. \A d \in Clients \ {c} : Later(d)
    BY <2>1 DEF Later
  <2>. QED
    BY <2>1, <2>2
<1>4. CASE Ingest
  BY <1>1, <1>4 DEF Ingest, GetBuffer, QueueBuffer, EnlargeBy, history
<1>5. CASE Stop \/ Crash
  BY <1>1, <1>5 DEF Stop, Crash
<1>6. CASE Restart \/ CreateBlank
  BY <1>1, <1>6 DEF Restart, CreateBlank, history
<1>7. CASE UNCHANGED vars
  BY <1>1, <1>7 DEF vars, history
<1>. QED
  BY <1>2, <1>3, <1>4, <1>5, <1>6, <1>7 DEF Next

LEMMA NextOrder ==
  ASSUME Inv, Inv', OrderInv, MaxLost <= Blanks, [Next]_vars,
         [Crash /\ phase = "recovering" => seqLong - Behind(files') <= Blanks - blanks]_vars
  PROVE  OrderInv'
<1>1. ASSUME UNCHANGED <<sx, files, buffer, seqLong, serial, last, phase, blanks, saved>>
      PROVE  OrderInv'
  <2>1. Limit' = Limit
    BY <1>1 DEF Limit, Missing
  <2>2. \A c \in Clients : Received(c)'
    BY <1>1, <2>1 DEF OrderInv, Received
  <2>. QED
    BY <1>1, <2>2 DEF OrderInv, Ages, Blanking
<1>2. CASE \E b \in 1..MaxBuffers, kind \in {"main", "other"} : QueueBuffer(b, kind)
  BY <1>2, QueueBufferOrder
<1>3. CASE \E b \in 1..MaxBuffers : EnlargeBy(b)
  BY <1>1, <1>3 DEF EnlargeBy, disk, server, history
<1>4. CASE Crash
  <2>1. phase = "recovering" => seqLong - Behind(files') <= Blanks - blanks
    <3>1. ~UNCHANGED vars
      BY <1>4 DEF Crash, AllOff, vars, server
    <3>. QED
      BY <1>4, <3>1
  <2>. QED
    BY <1>4, <2>1, CrashOrder
<1>5. CASE \E c \in Clients : Request(c) \/ Deliver(c)
  BY <1>5, RequestOrder, DeliverOrder
<1>6. CASE UNCHANGED vars
  BY <1>1, <1>6 DEF vars, memory, disk, server, history
<1>. QED
  BY <1>2, <1>3, <1>4, <1>5, <1>6, GetBufferOrder, StopOrder, RestartOrder, CreateBlankOrder
     DEF Next, Ingest

\* A client that goes on where it was gets only newer packets, with higher numbers,
\* also over reconnects, deleted files, crashes and restarts.  A crash takes no more
\* packets off the disk than blanks are inserted after it ("blanks"), and if it comes
\* while the server recovers, no more than the recovery has stored.
THEOREM PacketsInOrder ==
  ASSUME DiskOutlasts, MaxLost <= Blanks
  PROVE  Spec /\ RecoveryKeeps => InOrder
<1>1. Init => Inv /\ OrderInv
  BY InitInv, InitOrder
<1>2. /\ Inv /\ OrderInv /\ [Next]_vars
      /\ [Crash /\ phase = "recovering" => seqLong - Behind(files') <= Blanks - blanks]_vars
      => (Inv /\ OrderInv)'
  BY NextInv, NextOrder
<1>3. Inv /\ OrderInv /\ [Next]_vars =>
        [\A c \in Clients :
           last[c] # None /\ last'[c] \notin {None, last[c]} =>
             last'[c].number > last[c].number /\ last'[c].serial > last[c].serial]_vars
  BY StepOrder DEF Later
<1>. QED
  BY <1>1, <1>2, <1>3, PTL DEF Spec, InOrder, RecoveryKeeps
=============================================================================
