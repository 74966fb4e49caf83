---------------------------- MODULE HexFileProofs ----------------------------
(***************************************************************************)
(* Proofs about HexFile, for every memory size, part, file and number of   *)
(* readings: the image in memory is the file, and the blocks sent are the  *)
(* image.                                                                  *)
(*                                                                         *)
(* What the file says of a byte (FileByte) is defined by its last covering *)
(* record; the code overwrites bytes record by record.  The lemmas below   *)
(* say what one more line adds to the file's meaning.                      *)
(***************************************************************************)
EXTENDS HexFile, SequenceTheorems, WellFoundedInduction, TLAPS

\* A set of numbers has a least one.
LEMMA Least ==
  ASSUME NEW T \in SUBSET Nat, T # {}
  PROVE  \E x \in T : \A y \in T : x <= y
<1> DEFINE R == OpToRel(<, Nat)
<1>1. \E x \in T : \A y \in T : ~(<<y, x>> \in R)
  <2> HIDE DEF R
  <2>1. IsWellFoundedOn(R, Nat)
    BY NatLessThanWellFounded DEF R
  <2>2. QED
    BY <2>1, WFMin
<1>2. \A x, y \in Nat : <<y, x>> \in R <=> y < x
  BY DEF OpToRel
<1> HIDE DEF R
<1>3. PICK x \in T : \A y \in T : ~(<<y, x>> \in R)
  BY <1>1
<1>4. \A y \in T : ~(y < x)
  BY <1>2, <1>3
<1>5. \A m, n \in Nat : ~(n < m) => m <= n
  OBVIOUS
<1>6. QED
  BY <1>4, <1>5

\* A bounded set of numbers has a greatest one.
LEMMA Greatest ==
  ASSUME NEW S \in SUBSET Nat, S # {}, NEW b \in Nat, \A x \in S : x <= b
  PROVE  Max(S) \in S /\ \A y \in S : y <= Max(S)
<1> DEFINE T == {b - x : x \in S}
<1>1. T \in SUBSET Nat /\ T # {}
  <2>1. \A x \in S : b - x \in Nat
    OBVIOUS
  <2>2. \A t \in T : t \in Nat
    BY <2>1
  <2>3. \E x \in S : b - x \in T
    OBVIOUS
  <2>4. QED
    BY <2>2, <2>3
<1>2. PICK t \in T : \A y \in T : t <= y
  BY <1>1, Least
<1>3. PICK x \in S : t = b - x
  OBVIOUS
<1>4. \A y \in S : x >= y
  <2>1. TAKE y \in S
  <2>2. b - y \in T
    OBVIOUS
  <2>3. b - x <= b - y
    BY <1>2, <1>3, <2>2
  <2>4. QED
    BY <2>3
<1>5. Max(S) \in S /\ \A y \in S : Max(S) >= y
  BY <1>4 DEF Max
<1>6. QED
  BY <1>5

\* The greatest element is known when it is seen.
LEMMA GreatestIs ==
  ASSUME NEW S \in SUBSET Nat, NEW n \in S, \A x \in S : x <= n
  PROVE  Max(S) = n
<1>1. Max(S) \in S /\ \A y \in S : y <= Max(S)
  BY Greatest
<1>2. Max(S) \in Nat /\ n \in Nat
  BY <1>1
<1>3. QED
  BY <1>1, <1>2

----------------------------------------------------------------------------
(* Blocks *)

\* Of two multiples of the block size the larger is a block further.
LEMMA NextMultiple ==
  ASSUME NEW b \in Nat \ {0}, NEW q \in Nat, NEW m \in Nat, q * b < m * b
  PROVE  q * b + b <= m * b
<1>1. q < m
  <2>1. SUFFICES ASSUME m <= q PROVE FALSE
    OBVIOUS
  <2>2. m * b <= q * b
    BY <2>1
  <2>3. m * b \in Nat /\ q * b \in Nat
    OBVIOUS
  <2>4. QED
    BY <2>2, <2>3
<1>2. (q + 1) * b <= m * b
  BY <1>1
<1>3. (q + 1) * b = q * b + b
  OBVIOUS
<1>4. QED
  BY <1>2, <1>3

\* A number without remainder is a multiple.
LEMMA NoRemainder ==
  ASSUME NEW b \in Nat \ {0}, NEW n \in Nat, n % b = 0
  PROVE  \E m \in Nat : n = m * b
<1>1. n \div b \in Nat
  OBVIOUS
<1>2. n = (n \div b) * b
  OBVIOUS
<1>3. QED
  BY <1>1, <1>2

\* Dividing a multiple is exact.
LEMMA ExactDivision ==
  ASSUME NEW b \in Nat \ {0}, NEW q \in Nat
  PROVE  (q * b) \div b = q
<1>1. PICK d \in Nat, r \in Nat : q * b = d * b + r /\ r < b /\ d = (q * b) \div b
  OBVIOUS
<1>2. QED
  BY <1>1, NextMultiple

----------------------------------------------------------------------------
(* What one more line adds to a file *)

\* What a line is made of.
LEMMA LineFacts ==
  \A l \in Lines :
    /\ l.addr \in Nat /\ l.base \in Nat /\ l.bytes \in Seq(0..Blank)
    /\ l.kind \in {"data", "segment", "linear", "eof", "other", "junk"}
    /\ l.good \in BOOLEAN
<1>1. TAKE l \in Lines
<1>2. <<>> \in Seq(0..Blank)
  OBVIOUS
<1>3. ASSUME NEW d \in DataRecords, l \in DataLines(d)
      PROVE  /\ l.addr \in Nat /\ l.base \in Nat /\ l.bytes \in Seq(0..Blank)
             /\ l.kind = "data" /\ l.good \in BOOLEAN
  <2>1. d.addr \in Nat /\ d.bytes \in Seq(0..Blank)
    BY HexAssumption
  <2>2. l.addr = d.addr /\ l.bytes = d.bytes /\ l.base = 0 /\ l.kind = "data"
    BY <1>3 DEF DataLines
  <2>3. l.good \in BOOLEAN
    BY <1>3 DEF DataLines
  <2>4. QED
    BY <2>1, <2>2, <2>3
<1>4. CASE l \in BaseLines
  <2>1. /\ l.addr = 0 /\ l.bytes = <<>> /\ l.base \in Nat
        /\ l.kind \in {"segment", "linear"}
    BY <1>4, HexAssumption DEF BaseLines
  <2>2. l.good \in BOOLEAN
    BY <1>4 DEF BaseLines
  <2>3. QED
    BY <1>2, <2>1, <2>2
<1>5. CASE l \in OtherLines
  <2>1. /\ l.addr = 0 /\ l.bytes = <<>> /\ l.base = 0
        /\ l.kind \in {"eof", "other", "junk"}
    BY <1>5 DEF OtherLines
  <2>2. l.good \in BOOLEAN
    BY <1>5 DEF OtherLines
  <2>3. QED
    BY <1>2, <2>1, <2>2
<1>6. QED
  BY <1>3, <1>4, <1>5 DEF Lines

\* The base at a line is a number.
LEMMA BaseType ==
  ASSUME lines \in Seq(Lines), NEW k \in Nat
  PROVE  /\ Base(k) \in Nat
         /\ ExtendedBefore(k) # {} => Max(ExtendedBefore(k)) \in ExtendedBefore(k)
<1>1. ExtendedBefore(k) \in SUBSET Nat /\ \A j \in ExtendedBefore(k) : j <= k
  BY DEF ExtendedBefore
<1>2. ExtendedBefore(k) # {} => Max(ExtendedBefore(k)) \in ExtendedBefore(k)
  BY <1>1, Greatest
<1>3. ASSUME ExtendedBefore(k) # {}
      PROVE  BaseOf(lines[Max(ExtendedBefore(k))]) \in Nat
  <2>1. Max(ExtendedBefore(k)) \in DOMAIN lines
    BY <1>2, <1>3 DEF ExtendedBefore
  <2>2. PICK l \in Lines : l = lines[Max(ExtendedBefore(k))]
    BY <2>1, ElementOfSeq
  <2>3. l.base \in Nat
    BY LineFacts
  <2>4. BaseOf(l) \in Nat
    BY <2>3, HexAssumption DEF BaseOf
  <2>5. QED
    BY <2>2, <2>4
<1>4. QED
  BY <1>2, <1>3 DEF Base

\* The sequence of lines with one more.
LEMMA OneMore ==
  ASSUME lines \in Seq(Lines), NEW l \in Lines, lines' = Append(lines, l)
  PROVE  /\ lines' \in Seq(Lines) /\ Len(lines) \in Nat
         /\ Len(lines') = Len(lines) + 1 /\ lines'[Len(lines) + 1] = l
         /\ DOMAIN lines = 1..Len(lines) /\ DOMAIN lines' = 1..(Len(lines) + 1)
         /\ \A j \in 1..Len(lines) : lines'[j] = lines[j]
<1> HIDE DEF Lines
<1>1. /\ Append(lines, l) \in Seq(Lines) /\ Len(Append(lines, l)) = Len(lines) + 1
      /\ \A j \in 1..Len(lines) : Append(lines, l)[j] = lines[j]
      /\ Append(lines, l)[Len(lines) + 1] = l
  BY AppendProperties
<1>2. QED
  BY <1>1, LenProperties

\* The lines up to the new one keep their base; behind it the new one may
\* have set another.
LEMMA BaseAppended ==
  ASSUME lines \in Seq(Lines), NEW l \in Lines, lines' = Append(lines, l),
         NEW n, n = Len(lines) + 1
  PROVE  /\ \A k \in 1..n : Base(k)' = Base(k)
         /\ Base(n + 1)' = IF Extends(l) THEN BaseOf(l) ELSE Base(n)
<1>1. /\ lines' \in Seq(Lines) /\ n \in Nat /\ n >= 1
      /\ DOMAIN lines = 1..(n - 1) /\ DOMAIN lines' = 1..n
      /\ \A j \in 1..(n - 1) : lines'[j] = lines[j]
      /\ lines'[n] = l
  BY OneMore
<1>2. ASSUME NEW k \in 1..n PROVE Base(k)' = Base(k)
  <2>1. ExtendedBefore(k)' = ExtendedBefore(k)
    <3>1. \A j \in Nat : j \in 1..n /\ j < k <=> j \in 1..(n - 1) /\ j < k
      BY <1>1
    <3>2. \A j : (j \in DOMAIN lines' /\ j < k) <=> (j \in DOMAIN lines /\ j < k)
      BY <1>1, <3>1
    <3>3. \A j \in DOMAIN lines : Extends(lines'[j]) <=> Extends(lines[j])
      BY <1>1
    <3>4. QED
      BY <3>2, <3>3 DEF ExtendedBefore
  <2>2. CASE ExtendedBefore(k) = {}
    BY <2>1, <2>2 DEF Base
  <2>3. CASE ExtendedBefore(k) # {}
    <3>1. k \in Nat
      BY <1>1
    <3>2. Max(ExtendedBefore(k)) \in DOMAIN lines
      BY <2>3, <3>1, BaseType DEF ExtendedBefore
    <3>3. lines'[Max(ExtendedBefore(k))] = lines[Max(ExtendedBefore(k))]
      BY <1>1, <3>2
    <3>4. QED
      BY <2>1, <3>3 DEF Base
  <2>4. QED
    BY <2>2, <2>3
<1>3. CASE Extends(l)
  <2>1. n \in ExtendedBefore(n + 1)' /\ ExtendedBefore(n + 1)' \in SUBSET Nat
    BY <1>1, <1>3 DEF ExtendedBefore
  <2>2. \A j \in ExtendedBefore(n + 1)' : j <= n
    BY <1>1 DEF ExtendedBefore
  <2>3. Max(ExtendedBefore(n + 1)') = n
    BY <2>1, <2>2, GreatestIs
  <2>4. Base(n + 1)' = BaseOf(l)
    BY <1>1, <2>1, <2>3 DEF Base, BaseOf
  <2>5. QED
    BY <1>2, <1>3, <2>4
<1>4. CASE ~Extends(l)
  <2>1. ExtendedBefore(n + 1)' = ExtendedBefore(n)'
    <3>1. \A j \in 1..n : (j < n + 1 /\ Extends(lines'[j])) <=> (j < n /\ Extends(lines'[j]))
      BY <1>1, <1>4
    <3>2. QED
      BY <1>1, <3>1 DEF ExtendedBefore
  <2>2. Base(n + 1)' = Base(n)'
    BY <2>1 DEF Base
  <2>3. n \in 1..n
    BY <1>1
  <2>4. QED
    BY <1>2, <1>4, <2>2, <2>3
<1>5. QED
  BY <1>3, <1>4

\* The addresses a line covers when it is read at a base.
Reach(l, base) == base + l.addr..base + l.addr + Len(l.bytes) - 1

\* A good data record is the last of those that cover its addresses, and of
\* no others; any other line changes nothing.
LEMMA CoveringAppended ==
  ASSUME lines \in Seq(Lines), NEW l \in Lines, lines' = Append(lines, l),
         NEW n, n = Len(lines) + 1, NEW a
  PROVE  /\ Covering(a) \subseteq 1..(n - 1)
         /\ (l.kind = "data" /\ l.good /\ a \in Reach(l, Base(n)))
              => Covering(a)' = Covering(a) \cup {n}
         /\ ~(l.kind = "data" /\ l.good /\ a \in Reach(l, Base(n)))
              => Covering(a)' = Covering(a)
<1>1. /\ lines' \in Seq(Lines) /\ n \in Nat /\ n >= 1
      /\ DOMAIN lines = 1..(n - 1) /\ DOMAIN lines' = 1..n
      /\ \A j \in 1..(n - 1) : lines'[j] = lines[j]
      /\ lines'[n] = l
  BY OneMore
<1>2. \A k \in 1..n : Base(k)' = Base(k)
  BY BaseAppended
<1> DEFINE C(x, b) == x.kind = "data" /\ x.good /\ a \in Reach(x, b)
<1>3. Covering(a) = {k \in DOMAIN lines : C(lines[k], Base(k))}
  BY DEF Covering, Reach
<1>4. Covering(a)' = {k \in DOMAIN lines' : C(lines'[k], Base(k)')}
  BY DEF Covering, Reach
<1> HIDE DEF C
<1>5. \A k \in 1..(n - 1) : k \in 1..n /\ (C(lines'[k], Base(k)') <=> C(lines[k], Base(k)))
  BY <1>1, <1>2
<1>6. n \in 1..n /\ n \notin 1..(n - 1) /\ (C(lines'[n], Base(n)') <=> C(l, Base(n)))
  BY <1>1, <1>2
<1>7. \A k \in 1..n : k \in 1..(n - 1) \/ k = n
  BY <1>1
<1>8. C(l, Base(n)) => Covering(a)' = Covering(a) \cup {n}
  BY <1>1, <1>3, <1>4, <1>5, <1>6, <1>7
<1>9. ~C(l, Base(n)) => Covering(a)' = Covering(a)
  BY <1>1, <1>3, <1>4, <1>5, <1>6, <1>7
<1>10. Covering(a) \subseteq 1..(n - 1)
  BY <1>1, <1>3
<1>11. QED
  BY <1>8, <1>9, <1>10 DEF C

\* What the file has at an address, with one more line.
LEMMA ByteAppended ==
  ASSUME lines \in Seq(Lines), NEW l \in Lines, lines' = Append(lines, l),
         NEW n, n = Len(lines) + 1, NEW a
  PROVE  /\ (l.kind = "data" /\ l.good /\ a \in Reach(l, Base(n)))
              => FileByte(a)' = l.bytes[a - Base(n) - l.addr + 1]
         /\ ~(l.kind = "data" /\ l.good /\ a \in Reach(l, Base(n)))
              => FileByte(a)' = FileByte(a)
<1>1. /\ n \in Nat /\ n >= 1 /\ lines'[n] = l
      /\ \A j \in 1..(n - 1) : lines'[j] = lines[j]
  BY OneMore
<1>2. \A k \in 1..n : Base(k)' = Base(k)
  BY BaseAppended
<1>3. CASE l.kind = "data" /\ l.good /\ a \in Reach(l, Base(n))
  <2>1. Covering(a)' = Covering(a) \cup {n} /\ Covering(a) \subseteq 1..(n - 1)
    BY <1>3, CoveringAppended
  <2>2. Max(Covering(a)') = n
    <3>1. Covering(a)' \in SUBSET Nat /\ n \in Covering(a)' /\ \A k \in Covering(a)' : k <= n
      BY <1>1, <2>1
    <3>2. QED
      BY <3>1, GreatestIs
  <2>3. FileByte(a)' = lines'[n].bytes[a - Base(n)' - lines'[n].addr + 1]
    BY <2>1, <2>2 DEF FileByte
  <2>4. n \in 1..n
    BY <1>1
  <2>5. QED
    BY <1>1, <1>2, <1>3, <2>3, <2>4
<1>4. CASE ~(l.kind = "data" /\ l.good /\ a \in Reach(l, Base(n)))
  <2>1. Covering(a)' = Covering(a) /\ Covering(a) \subseteq 1..(n - 1)
    BY <1>4, CoveringAppended
  <2>2. CASE Covering(a) = {}
    BY <1>4, <2>1, <2>2 DEF FileByte
  <2>3. CASE Covering(a) # {}
    <3>1. Covering(a) \in SUBSET Nat /\ \A k \in Covering(a) : k <= n
      BY <1>1, <2>1
    <3>2. Max(Covering(a)) \in Covering(a)
      BY <1>1, <2>3, <3>1, Greatest
    <3>3. PICK k \in 1..(n - 1) : k = Max(Covering(a))
      BY <2>1, <3>2
    <3>4. lines'[k] = lines[k] /\ Base(k)' = Base(k)
      BY <1>1, <1>2
    <3>5. FileByte(a) = lines[k].bytes[a - Base(k) - lines[k].addr + 1]
      BY <2>3, <3>3 DEF FileByte
    <3>6. FileByte(a)' = lines'[k].bytes[a - Base(k)' - lines'[k].addr + 1]
      BY <2>1, <2>3, <3>3 DEF FileByte
    <3>7. QED
      BY <1>4, <3>4, <3>5, <3>6
  <2>4. QED
    BY <2>2, <2>3
<1>5. QED
  BY <1>3, <1>4

\* An empty file says nothing.
LEMMA NoLines ==
  ASSUME lines = <<>>
  PROVE  /\ \A a : Covering(a) = {} /\ FileByte(a) = Blank
         /\ \A k : Base(k) = 0
<1>1. DOMAIN lines = {}
  OBVIOUS
<1>2. QED
  BY <1>1 DEF Covering, FileByte, Base, ExtendedBefore

\* The file says the same as long as its lines do.
LEMMA SameLines ==
  ASSUME UNCHANGED lines
  PROVE  /\ \A a : Covering(a)' = Covering(a) /\ FileByte(a)' = FileByte(a)
         /\ \A k : Base(k)' = Base(k)
BY DEF Covering, FileByte, Base, ExtendedBefore

----------------------------------------------------------------------------
(* Reading *)

\* The lines read were accepted: they are records, and data records are good
\* and fit in the memory.
\* The base in the program's variable is that of the next line.
LinesInv ==
  /\ \A k \in DOMAIN lines :
       /\ lines[k].kind # "junk"
       /\ lines[k].kind = "data" =>
            lines[k].good /\ Base(k) + lines[k].addr + Len(lines[k].bytes) < MaxMemory
  /\ \A k : k = Len(lines) + 1 => extended = Base(k)

FileInv ==
  /\ lines \in Seq(Lines)
  /\ phase \in {"read", "open", "program"} => LinesInv /\ ImageIsFile

\* What a line does, kind by kind.
LEMMA LineRead ==
  ASSUME NEW l \in Lines, ReadLine(l), phase' # "exit"
  PROVE  /\ phase = "read" /\ ~Refused(l) /\ lines' = Append(lines, l)
         /\ UNCHANGED <<part, waited, addr, sent>>
         /\ l.kind = "data" => Store(l) /\ extended' = extended /\ l.good
         /\ l.kind \in {"segment", "linear"} => Extend(l) /\ UNCHANGED <<image, mask>>
         /\ l.kind \notin {"data", "segment", "linear"} => UNCHANGED <<image, mask, extended>>
<1>1. phase = "read" /\ ~Refused(l) /\ lines' = Append(lines, l)
      /\ UNCHANGED <<part, waited, addr, sent>>
  BY Zenon DEF ReadLine, Die
<1>2. l.kind = "data" => Store(l) /\ extended' = extended /\ l.good
  BY <1>1, Zenon DEF ReadLine, Die
<1>3. l.kind \in {"segment", "linear"} => Extend(l) /\ UNCHANGED <<image, mask>>
  BY <1>1, Zenon DEF ReadLine
<1>4. l.kind = "eof" => UNCHANGED <<image, mask, extended>>
  BY <1>1, Zenon DEF ReadLine
<1>5. l.kind \notin {"data", "segment", "linear", "eof"} => UNCHANGED <<image, mask, extended>>
  BY <1>1, Zenon DEF ReadLine
<1>6. QED
  BY <1>1, <1>2, <1>3, <1>4, <1>5

\* The bytes of a record go where the record says.
LEMMA Stored ==
  ASSUME NEW l \in Lines, extended \in Nat, Store(l), NEW a \in Addresses
  PROVE  /\ a \in Reach(l, extended) =>
              mask'[a] = 1 /\ image'[a] = l.bytes[a - extended - l.addr + 1]
         /\ a \notin Reach(l, extended) => mask'[a] = mask[a] /\ image'[a] = image[a]
<1>1. l.addr \in Nat /\ Len(l.bytes) \in Nat /\ DOMAIN l.bytes = 1..Len(l.bytes) /\ a \in Int
  <2>1. l.addr \in Nat /\ l.bytes \in Seq(0..Blank)
    BY LineFacts
  <2>2. a \in Int
    BY HexAssumption DEF Addresses
  <2>3. QED
    BY <2>1, <2>2, LenProperties
<1> DEFINE covered == {l.addr + extended + n - 1 : n \in DOMAIN l.bytes}
<1>2. a \in covered <=> a \in Reach(l, extended)
  <2>1. ASSUME a \in covered PROVE a \in Reach(l, extended)
    <3>1. PICK n \in 1..Len(l.bytes) : a = l.addr + extended + n - 1
      BY <1>1, <2>1
    <3>2. QED
      BY <1>1, <3>1 DEF Reach
  <2>2. ASSUME a \in Reach(l, extended) PROVE a \in covered
    <3>1. a - l.addr - extended + 1 \in 1..Len(l.bytes)
          /\ a = l.addr + extended + (a - l.addr - extended + 1) - 1
      BY <1>1, <2>2 DEF Reach
    <3>2. QED
      BY <1>1, <3>1
  <2>3. QED
    BY <2>1, <2>2
<1>3. /\ image'[a] = IF a \in covered THEN l.bytes[a - l.addr - extended + 1] ELSE image[a]
      /\ mask'[a] = IF a \in covered THEN 1 ELSE mask[a]
  BY DEF Store
<1>4. a - l.addr - extended + 1 = a - extended - l.addr + 1
  BY <1>1
<1> HIDE DEF covered
<1>5. QED
  BY <1>2, <1>3, <1>4

\* Reading a line keeps the image the file's.
LEMMA ReadStep ==
  ASSUME FileInv, NEW l \in Lines, ReadLine(l), phase' # "exit"
  PROVE  LinesInv' /\ ImageIsFile' /\ lines' \in Seq(Lines)
<1>0. PICK n : n = Len(lines) + 1
  OBVIOUS
<1>1. /\ phase = "read" /\ ~Refused(l) /\ lines' = Append(lines, l)
      /\ l.kind = "data" => Store(l) /\ extended' = extended /\ l.good
      /\ l.kind \in {"segment", "linear"} => Extend(l) /\ UNCHANGED <<image, mask>>
      /\ l.kind \notin {"data", "segment", "linear"} => UNCHANGED <<image, mask, extended>>
  BY LineRead
<1>2. lines \in Seq(Lines) /\ LinesInv /\ ImageIsFile
  BY <1>1 DEF FileInv
<1>3. /\ lines' \in Seq(Lines) /\ n \in Nat /\ n >= 1 /\ Len(lines') = n
      /\ DOMAIN lines = 1..(n - 1) /\ DOMAIN lines' = 1..n
      /\ \A j \in 1..(n - 1) : lines'[j] = lines[j]
      /\ lines'[n] = l
  BY <1>0, <1>1, <1>2, OneMore
<1>4. /\ \A k \in 1..n : Base(k)' = Base(k)
      /\ Base(n + 1)' = IF Extends(l) THEN BaseOf(l) ELSE Base(n)
  <2>1. lines \in Seq(Lines) /\ lines' = Append(lines, l) /\ n = Len(lines) + 1
    BY <1>0, <1>1, <1>2
  <2>2. QED
    BY <2>1, BaseAppended, Zenon
<1>5. extended = Base(n) /\ extended \in Nat
  BY <1>0, <1>2, <1>3, BaseType DEF LinesInv
<1>6. l.addr \in Nat /\ Len(l.bytes) \in Nat
  <2>1. l.addr \in Nat /\ l.bytes \in Seq(0..Blank)
    BY LineFacts
  <2>2. QED
    BY <2>1, LenProperties
<1>7. extended' = Base(n + 1)'
  <2>1. CASE l.kind \in {"segment", "linear"}
    BY <1>1, <1>4, <1>5, <2>1 DEF Extend, Extends, BaseOf
  <2>2. CASE l.kind \notin {"segment", "linear"}
    BY <1>1, <1>4, <1>5, <2>2 DEF Extends
  <2>3. QED
    BY <2>1, <2>2
<1>8. \A k \in DOMAIN lines' :
        /\ lines'[k].kind # "junk"
        /\ lines'[k].kind = "data" =>
             lines'[k].good /\ Base(k)' + lines'[k].addr + Len(lines'[k].bytes) < MaxMemory
  <2>1. TAKE k \in DOMAIN lines'
  <2>2. CASE k \in 1..(n - 1)
    <3>1. k \in 1..n /\ k \in DOMAIN lines
      BY <1>3, <2>2
    <3>2. lines'[k] = lines[k] /\ Base(k)' = Base(k)
      BY <1>3, <1>4, <2>2, <3>1
    <3>3. QED
      BY <1>2, <3>1, <3>2 DEF LinesInv
  <2>3. CASE k = n
    <3>0. l.kind # "junk"
      BY <1>1 DEF Refused
    <3>1. SUFFICES ASSUME l.kind = "data"
                   PROVE  l.good /\ Base(n) + l.addr + Len(l.bytes) < MaxMemory
      BY <1>3, <1>4, <2>3, <3>0
    <3>2. ~(l.addr + extended + Len(l.bytes) + 0 >= MaxMemory)
      BY <1>1, <3>1 DEF Refused
    <3>3. QED
      BY <1>1, <1>5, <1>6, <3>1, <3>2, HexAssumption
  <2>4. k \in 1..(n - 1) \/ k = n
    BY <1>3
  <2>5. QED
    BY <2>2, <2>3, <2>4
<1>9. ImageIsFile'
  <2>1. SUFFICES ASSUME NEW a \in Addresses
                 PROVE  /\ mask'[a] = (IF Covering(a)' = {} THEN 0 ELSE 1)
                        /\ image'[a] = FileByte(a)'
    BY DEF ImageIsFile
  <2>2. mask[a] = (IF Covering(a) = {} THEN 0 ELSE 1) /\ image[a] = FileByte(a)
    BY <1>1, <1>2 DEF ImageIsFile
  <2>3. CASE l.kind = "data" /\ l.good /\ a \in Reach(l, Base(n))
    <3>1. Covering(a)' = Covering(a) \cup {n}
      BY <1>0, <1>1, <1>2, <2>3, CoveringAppended
    <3>2. FileByte(a)' = l.bytes[a - Base(n) - l.addr + 1]
      BY <1>0, <1>1, <1>2, <2>3, ByteAppended
    <3>3. mask'[a] = 1 /\ image'[a] = l.bytes[a - extended - l.addr + 1]
      BY <1>1, <1>5, <2>3, Stored
    <3>4. QED
      BY <1>5, <3>1, <3>2, <3>3
  <2>4. CASE ~(l.kind = "data" /\ l.good /\ a \in Reach(l, Base(n)))
    <3>1. Covering(a)' = Covering(a)
      BY <1>0, <1>1, <1>2, <2>4, CoveringAppended
    <3>2. FileByte(a)' = FileByte(a)
      BY <1>0, <1>1, <1>2, <2>4, ByteAppended
    <3>3. mask'[a] = mask[a] /\ image'[a] = image[a]
      BY <1>1, <1>5, <2>4, Stored
    <3>4. QED
      BY <2>2, <3>1, <3>2, <3>3
  <2>5. QED
    BY <2>3, <2>4
<1>10. (\A k : k = Len(lines) + 1 => extended = Base(k))'
  <2>1. \A k : k = Len(lines') + 1 => k = n + 1
    BY <1>3
  <2>2. QED
    BY <1>7, <2>1
<1>11. QED
  BY <1>3, <1>8, <1>9, <1>10 DEF LinesInv

\* An empty file and a cleared image.
LEMMA Cleared ==
  ASSUME ClearImage
  PROVE  LinesInv' /\ ImageIsFile' /\ lines' \in Seq(Lines)
<1>1. DOMAIN lines' = {} /\ lines' \in Seq(Lines)
  <2>1. lines' = <<>>
    BY DEF ClearImage
  <2> HIDE DEF Lines
  <2>2. QED
    BY <2>1
<1>2. \A k : Base(k)' = 0
  BY <1>1 DEF Base, ExtendedBefore
<1>3. \A a : Covering(a)' = {}
  BY <1>1 DEF Covering
<1>4. \A a : FileByte(a)' = Blank
  BY <1>3 DEF FileByte
<1>5. extended' = 0 /\ \A a \in Addresses : mask'[a] = 0 /\ image'[a] = Blank
  BY DEF ClearImage
<1>6. LinesInv'
  BY <1>1, <1>2, <1>5 DEF LinesInv
<1>7. ImageIsFile'
  BY <1>3, <1>4, <1>5 DEF ImageIsFile
<1>8. QED
  BY <1>1, <1>6, <1>7

\* The image stays the file's while neither changes.
LEMMA ImageKept ==
  ASSUME FileInv, UNCHANGED imageVars,
         phase' \in {"read", "open", "program"} => phase \in {"read", "open", "program"}
  PROVE  FileInv'
<1>1. UNCHANGED <<image, mask, extended, lines>>
  BY DEF imageVars
<1>2. /\ \A a : Covering(a)' = Covering(a) /\ FileByte(a)' = FileByte(a)
      /\ \A k : Base(k)' = Base(k)
  BY <1>1, SameLines
<1>3. LinesInv => LinesInv'
  BY <1>1, <1>2 DEF LinesInv
<1>4. ASSUME ImageIsFile, phase \in {"read", "open", "program"}
      PROVE  ImageIsFile'
  <2>1. ASSUME NEW a \in Addresses
        PROVE  /\ mask'[a] = (IF Covering(a)' = {} THEN 0 ELSE 1)
               /\ image'[a] = FileByte(a)'
    BY <1>1, <1>2, <1>4 DEF ImageIsFile
  <2>2. QED
    BY <2>1 DEF ImageIsFile
<1>5. QED
  BY <1>1, <1>3, <1>4 DEF FileInv

LEMMA FileStep == FileInv /\ [HexNext]_hexVars => FileInv'
<1> SUFFICES ASSUME FileInv, [HexNext]_hexVars PROVE FileInv'
  OBVIOUS
<1>1. ASSUME NEW l \in Lines, ReadLine(l) PROVE FileInv'
  <2>1. CASE phase' # "exit"
    BY <1>1, <2>1, ReadStep DEF FileInv
  <2>2. CASE phase' = "exit"
    <3>1. lines' = Append(lines, l)
      BY <1>1, Zenon DEF ReadLine
    <3>2. lines \in Seq(Lines)
      BY DEF FileInv
    <3>3. lines' \in Seq(Lines)
      BY <3>1, <3>2, OneMore
    <3>4. QED
      BY <2>2, <3>3 DEF FileInv
  <2>3. QED
    BY <2>1, <2>2
<1>2. CASE FileEnds
  BY <1>2, ImageKept DEF FileEnds
<1>3. CASE NoFile
  BY <1>3, ImageKept DEF NoFile, Die
<1>4. CASE Found
  <2>1. CASE waited
    BY <1>4, <2>1, Cleared DEF Found, Reread, FileInv
  <2>2. CASE ~waited
    BY <1>4, <2>2, ImageKept DEF Found
  <2>3. QED
    BY <2>1, <2>2
<1>5. CASE NotFound
  BY <1>5, ImageKept DEF NotFound
<1>6. CASE SkipBlock
  BY <1>6, ImageKept DEF SkipBlock
<1>7. CASE WriteBlock
  BY <1>7, ImageKept DEF WriteBlock
<1>8. CASE WriteFails
  BY <1>8, ImageKept DEF WriteFails, Die
<1>9. CASE Programmed
  BY <1>9, ImageKept DEF Programmed
<1>10. CASE UNCHANGED hexVars
  BY <1>10, ImageKept DEF hexVars, imageVars
<1>11. QED
  BY <1>1, <1>2, <1>3, <1>4, <1>5, <1>6, <1>7, <1>8, <1>9, <1>10 DEF HexNext

LEMMA FileStart == HexInit => FileInv
<1> SUFFICES ASSUME HexInit PROVE FileInv
  OBVIOUS
<1>1. DOMAIN lines = {} /\ lines \in Seq(Lines) /\ lines = <<>>
  <2>1. lines = <<>>
    BY DEF HexInit
  <2> HIDE DEF Lines
  <2>2. QED
    BY <2>1
<1>2. (\A a : Covering(a) = {} /\ FileByte(a) = Blank) /\ \A k : Base(k) = 0
  BY <1>1, NoLines
<1>3. LinesInv
  BY <1>1, <1>2 DEF LinesInv, HexInit
<1>4. ImageIsFile
  BY <1>2 DEF ImageIsFile, HexInit
<1>5. QED
  BY <1>1, <1>3, <1>4 DEF FileInv

\* In every reading, of whatever file and after whatever was read before,
\* the image that parse_hex_line has built is what the accepted lines say.
THEOREM ImageIsFileThm == HexSpec => []ImageIsFile
<1>1. FileInv => ImageIsFile
  BY DEF FileInv, ImageIsFile
<1>2. QED
  BY FileStart, FileStep, <1>1, PTL DEF HexSpec

----------------------------------------------------------------------------
(* Programming *)

\* Blocks have gone out in order from address 0, none before the last reading
\* is over.
Marching ==
  /\ part \in Parts
  /\ \E q \in Nat : addr = q * part.block
  /\ \E S : sent \in Seq(S)
  /\ phase \in {"read", "open"} => sent = <<>> /\ addr = 0

\* What was sent at block b is what the file has there.
Faithful(i) ==
  /\ \A k \in DOMAIN lines : ~Broken(k)
  /\ Held(BlockOf(sent[i][1])) =>
       sent[i][2] = [n \in 1..part.block |-> FileByte(BlockOf(sent[i][1]) + n - 1)]

\* Every byte of the file below b is in a block that was sent.
Swept(b) ==
  \A a \in 0..b - 1 :
    Covering(a) # {} => \E i \in DOMAIN sent : a - BlockOf(sent[i][1]) \in 0..part.block - 1

BlockInv ==
  /\ Marching
  /\ \A i \in DOMAIN sent : Faithful(i)
  /\ phase = "program" => Swept(addr)
  /\ phase = "exit" /\ status = 0 => Swept(part.code)

\* What is needed of a part.
LEMMA PartFacts ==
  ASSUME part \in Parts
  PROVE  /\ part.code \in Nat \ {0} /\ part.block \in Nat \ {0} /\ MaxMemory \in Nat \ {0}
         /\ part.code % part.block = 0 /\ MaxMemory % part.block = 0
BY HexAssumption

\* The two bytes in front of a block name its address.
LEMMA PageNamesBlock ==
  ASSUME Marching
  PROVE  BlockOf(PageAddress) = addr /\ addr \in Nat
<1>1. PICK q \in Nat : addr = q * part.block
  BY DEF Marching
<1>2. part.block \in Nat \ {0}
  BY PartFacts DEF Marching
<1>3. PICK b \in Nat \ {0} : b = part.block
  BY <1>2
<1>4. (q * b) \div b = q /\ q * b \in Nat
  BY ExactDivision
<1>5. addr \div part.block = q /\ addr \in Nat
  BY <1>1, <1>3, <1>4
<1>6. QED
  BY <1>1, <1>5 DEF BlockOf, PageAddress

\* Below a multiple of the block size there is room for the whole block.
LEMMA RoomForBlock ==
  ASSUME part \in Parts, NEW q \in Nat, addr = q * part.block,
         NEW n \in Nat, n % part.block = 0, addr < n
  PROVE  addr + part.block <= n
<1>1. PICK b \in Nat \ {0} : b = part.block
  BY PartFacts
<1>2. PICK m \in Nat : n = m * b
  BY <1>1, NoRemainder
<1>3. q * b < m * b
  BY <1>1, <1>2
<1>4. q * b + b <= m * b
  BY <1>3, NextMultiple
<1>5. QED
  BY <1>1, <1>2, <1>4

\* A record that was accepted covers only the memory.
LEMMA CoveredFits ==
  ASSUME FileInv, phase \in {"read", "open", "program"}, NEW a, Covering(a) # {}
  PROVE  a \in Addresses
<1>1. PICK k \in DOMAIN lines :
        /\ lines[k].kind = "data"
        /\ a \in Base(k) + lines[k].addr..Base(k) + lines[k].addr + Len(lines[k].bytes) - 1
  BY DEF Covering
<1>2. Base(k) + lines[k].addr + Len(lines[k].bytes) < MaxMemory
  BY <1>1 DEF FileInv, LinesInv
<1>3. lines \in Seq(Lines)
  BY DEF FileInv
<1>4. k \in 1..Len(lines) /\ k \in Nat
  BY <1>3, LenProperties
<1>5. PICK l \in Lines : l = lines[k]
  BY <1>3, <1>4, ElementOfSeq
<1>6. l.addr \in Nat /\ Len(l.bytes) \in Nat
  <2>1. l.addr \in Nat /\ l.bytes \in Seq(0..Blank)
    BY LineFacts
  <2>2. QED
    BY <2>1, LenProperties
<1>7. Base(k) \in Nat
  BY <1>3, <1>4, BaseType
<1>8. PICK x \in Nat : x = Base(k)
  BY <1>7
<1>9. a \in x + l.addr..x + l.addr + Len(l.bytes) - 1 /\ x + l.addr + Len(l.bytes) < MaxMemory
  BY <1>1, <1>2, <1>5, <1>8
<1>10. QED
  BY <1>6, <1>9, HexAssumption DEF Addresses

\* ihex_get_data gives the bytes of the file.
LEMMA DataIsFile ==
  ASSUME FileInv, Marching, phase = "program", Held(addr)
  PROVE  GetData(addr, part.block) = [n \in 1..part.block |-> FileByte(addr + n - 1)]
<1>1. addr \in Nat /\ part.block \in Nat \ {0} /\ MaxMemory \in Nat
  BY PageNamesBlock, PartFacts DEF Marching
<1>2. addr + part.block < MaxMemory
  BY DEF Held
<1>3. ImageIsFile
  BY DEF FileInv
<1>4. ASSUME NEW n \in 1..part.block
      PROVE  (IF addr + part.block < MaxMemory /\ mask[addr + n - 1] = 1
              THEN image[addr + n - 1] ELSE Blank) = FileByte(addr + n - 1)
  <2>1. PICK a \in Addresses : a = addr + n - 1
    BY <1>1, <1>2 DEF Addresses
  <2>2. mask[a] = (IF Covering(a) = {} THEN 0 ELSE 1) /\ image[a] = FileByte(a)
    BY <1>3 DEF ImageIsFile
  <2>3. Covering(a) = {} => FileByte(a) = Blank
    BY DEF FileByte
  <2>4. (IF mask[a] = 1 THEN image[a] ELSE Blank) = FileByte(a)
    BY <2>2, <2>3
  <2>5. QED
    BY <1>2, <2>1, <2>4
<1>5. QED
  BY <1>4 DEF GetData

\* A block that is skipped has no byte of the file.
LEMMA SkippedIsBlank ==
  ASSUME FileInv, Marching, phase = "program", Skipped,
         NEW a \in addr..addr + part.block - 1
  PROVE  Covering(a) = {}
<1>1. SUFFICES ASSUME Covering(a) # {} PROVE FALSE
  OBVIOUS
<1>2. a \in Addresses
  BY <1>1, CoveredFits
<1>3. mask[a] = 1
  BY <1>1, <1>2 DEF FileInv, ImageIsFile
<1>4. part \in Parts /\ part.block \in Nat \ {0} /\ MaxMemory \in Nat /\ addr \in Nat
      /\ MaxMemory % part.block = 0
  BY PageNamesBlock, PartFacts DEF Marching
<1>5. addr < MaxMemory
  BY <1>2, <1>4 DEF Addresses
<1>6. addr + part.block <= MaxMemory
  <2>1. PICK q \in Nat : addr = q * part.block
    BY DEF Marching
  <2>2. QED
    BY <1>4, <1>5, <2>1, RoomForBlock
<1>7. {addr, addr + part.block - 1} \subseteq Addresses
  BY <1>4, <1>6 DEF Addresses
<1>8. QED
  BY <1>3, <1>7 DEF Skipped, WithinRange

\* The sequence of blocks with one more.
LEMMA OneMoreSent ==
  ASSUME Marching, NEW e, sent' = Append(sent, e)
  PROVE  /\ \E T : sent' \in Seq(T)
         /\ \E m \in Nat : /\ DOMAIN sent = 1..m /\ DOMAIN sent' = 1..(m + 1)
                           /\ sent'[m + 1] = e
         /\ \A i \in DOMAIN sent : sent'[i] = sent[i]
<1>1. PICK S : sent \in Seq(S)
  BY DEF Marching
<1>2. PICK T : T = S \cup {e}
  OBVIOUS
<1>3. sent \in Seq(T) /\ e \in T
  BY <1>1, <1>2, SeqMonotonic
<1>4. /\ Append(sent, e) \in Seq(T) /\ Len(Append(sent, e)) = Len(sent) + 1
      /\ \A i \in 1..Len(sent) : Append(sent, e)[i] = sent[i]
      /\ Append(sent, e)[Len(sent) + 1] = e
  BY <1>3, AppendProperties
<1>5. Len(sent) \in Nat /\ DOMAIN sent = 1..Len(sent) /\ DOMAIN sent' = 1..(Len(sent) + 1)
  BY <1>3, <1>4, LenProperties
<1>6. QED
  BY <1>4, <1>5

\* While the file and the blocks stay, so does what was said of them.
LEMMA BlocksKept ==
  ASSUME UNCHANGED <<part, lines>>
  PROVE  /\ \A p : BlockOf(p)' = BlockOf(p)
         /\ \A i \in DOMAIN sent : sent'[i] = sent[i] => (Faithful(i) => Faithful(i)')
         /\ UNCHANGED sent => \A b : Swept(b) => Swept(b)'
<1>1. \A a : Covering(a)' = Covering(a) /\ FileByte(a)' = FileByte(a)
  BY SameLines
<1>2. \A p : BlockOf(p)' = BlockOf(p)
  BY DEF BlockOf
<1>3. /\ \A b : Held(b)' = Held(b)
      /\ \A k \in DOMAIN lines : Broken(k)' <=> Broken(k)
  <2>1. \A k : Base(k)' = Base(k)
    BY SameLines
  <2>2. QED
    BY <2>1 DEF Held, Broken
<1>4. ASSUME NEW i \in DOMAIN sent, sent'[i] = sent[i], Faithful(i)
      PROVE  Faithful(i)'
  <2>1. BlockOf(sent[i][1])' = BlockOf(sent[i][1])
    BY <1>2, <1>4 DEF BlockOf
  <2>2. PICK b : b = BlockOf(sent[i][1])
    OBVIOUS
  <2>3. [n \in 1..part.block |-> FileByte(b + n - 1)]'
          = [n \in 1..part.block |-> FileByte(b + n - 1)]
    BY <1>1
  <2>4. Held(b) => sent[i][2] = [n \in 1..part.block |-> FileByte(b + n - 1)]
    BY <1>4, <2>2 DEF Faithful
  <2>5. Held(b)' => sent'[i][2] = [n \in 1..part.block |-> FileByte(b + n - 1)]'
    BY <1>3, <1>4, <2>3, <2>4
  <2>6. \A k \in DOMAIN lines' : ~Broken(k)'
    BY <1>3, <1>4 DEF Faithful
  <2>7. QED
    BY <1>4, <2>1, <2>2, <2>5, <2>6 DEF Faithful
<1>5. ASSUME UNCHANGED sent, NEW b, Swept(b) PROVE Swept(b)'
  <2>1. \A i \in DOMAIN sent : BlockOf(sent[i][1])' = BlockOf(sent[i][1])
    BY <1>5 DEF BlockOf
  <2>2. QED
    BY <1>1, <1>5, <2>1 DEF Swept
<1>6. QED
  BY <1>2, <1>4, <1>5

\* A step that sends nothing and does not move on.
LEMMA Waits ==
  ASSUME BlockInv, UNCHANGED <<part, lines, addr, sent>>,
         phase' \in {"read", "open"} => phase \in {"read", "open"},
         phase' = "program" => Swept(addr),
         phase' = "exit" /\ status' = 0 => Swept(part.code)
  PROVE  BlockInv'
<1>1. Marching'
  BY DEF BlockInv, Marching
<1>2. \A i \in DOMAIN sent' : Faithful(i)'
  BY BlocksKept DEF BlockInv
<1>3. phase' = "program" => Swept(addr)'
  <2>1. Swept(addr) => Swept(addr)'
    BY BlocksKept
  <2>2. QED
    BY <2>1
<1>4. phase' = "exit" /\ status' = 0 => Swept(part.code)'
  <2>1. Swept(part.code) => Swept(part.code)'
    BY BlocksKept
  <2>2. QED
    BY <2>1
<1>5. QED
  BY <1>1, <1>2, <1>3, <1>4 DEF BlockInv

\* Before anything is sent.
LEMMA NothingSent ==
  ASSUME Marching', sent' = <<>>, addr' = 0, phase' = "exit" => status' # 0
  PROVE  BlockInv'
<1>1. DOMAIN sent' = {}
  OBVIOUS
<1>2. Swept(addr)'
  BY DEF Swept
<1>3. QED
  BY <1>1, <1>2 DEF BlockInv

\* A step of the reading.
LEMMA Reads ==
  ASSUME BlockInv, phase \in {"read", "open"}, UNCHANGED <<part, addr, sent>>,
         phase' = "exit" => status' # 0
  PROVE  BlockInv'
<1>1. sent = <<>> /\ addr = 0
  BY DEF BlockInv, Marching
<1>2. Marching'
  BY <1>1 DEF BlockInv, Marching
<1>3. QED
  BY <1>1, <1>2, NothingSent

\* The next block is a multiple of the block size too.
LEMMA NextBlock ==
  ASSUME Marching, addr' = addr + part.block, UNCHANGED part
  PROVE  /\ \E q \in Nat : addr' = q * part'.block
         /\ \A a \in 0..addr' - 1 : a \in 0..addr - 1 \/ a \in addr..addr + part.block - 1
<1>1. PICK q \in Nat : addr = q * part.block
  BY DEF Marching
<1>2. part.block \in Nat \ {0} /\ addr \in Nat
  BY PartFacts, PageNamesBlock DEF Marching
<1>3. PICK b \in Nat \ {0} : b = part.block
  BY <1>2
<1>4. q * b + b = (q + 1) * b /\ q + 1 \in Nat
  OBVIOUS
<1>5. addr' = (q + 1) * part'.block
  BY <1>1, <1>3, <1>4
<1>6. QED
  BY <1>2, <1>4, <1>5

LEMMA SkipStep ==
  ASSUME FileInv, BlockInv, SkipBlock
  PROVE  BlockInv'
<1>1. /\ phase = "program" /\ Skipped /\ addr' = addr + part.block
      /\ UNCHANGED <<part, phase, status, lines, sent>>
  BY DEF SkipBlock, imageVars
<1>2. Marching /\ Swept(addr)
  BY <1>1 DEF BlockInv
<1>3. Marching'
  BY <1>1, <1>2, NextBlock DEF Marching
<1>4. \A i \in DOMAIN sent' : Faithful(i)'
  BY <1>1, BlocksKept DEF BlockInv
<1>5. Swept(addr')
  <2>1. SUFFICES ASSUME NEW a \in 0..addr' - 1, Covering(a) # {}
                 PROVE  \E i \in DOMAIN sent : a - BlockOf(sent[i][1]) \in 0..part.block - 1
    BY DEF Swept
  <2>2. a \notin addr..addr + part.block - 1
    BY <1>1, <1>2, <2>1, SkippedIsBlank
  <2>3. a \in 0..addr - 1
    BY <1>1, <1>2, <2>2, NextBlock
  <2>4. QED
    BY <1>2, <2>1, <2>3 DEF Swept
<1>6. Swept(addr)'
  <2>1. PICK b : b = addr'
    OBVIOUS
  <2>2. Swept(b)'
    BY <1>1, <1>5, <2>1, BlocksKept
  <2>3. QED
    BY <2>1, <2>2 DEF Swept
<1>7. QED
  BY <1>1, <1>3, <1>4, <1>6 DEF BlockInv

LEMMA WriteStep ==
  ASSUME FileInv, BlockInv, WriteBlock
  PROVE  BlockInv'
<1>1. /\ phase = "program" /\ addr' = addr + part.block
      /\ sent' = Append(sent, <<PageAddress, GetData(addr, part.block)>>)
      /\ UNCHANGED <<part, phase, status, lines>>
  BY DEF WriteBlock, imageVars
<1>2. Marching /\ Swept(addr)
  BY <1>1 DEF BlockInv
<1>3. PICK e : e = <<PageAddress, GetData(addr, part.block)>>
  OBVIOUS
<1>4. /\ \E T : sent' \in Seq(T)
      /\ \E m \in Nat : /\ DOMAIN sent = 1..m /\ DOMAIN sent' = 1..(m + 1)
                        /\ sent'[m + 1] = e
      /\ \A i \in DOMAIN sent : sent'[i] = sent[i]
  BY <1>1, <1>2, <1>3, OneMoreSent
<1>5. PICK m \in Nat : DOMAIN sent = 1..m /\ DOMAIN sent' = 1..(m + 1) /\ sent'[m + 1] = e
  BY <1>4
<1>6. Marching'
  BY <1>1, <1>2, <1>4, NextBlock DEF Marching
<1>7. BlockOf(e[1]) = addr /\ addr \in Nat
  BY <1>2, <1>3, PageNamesBlock
<1>8. BlockOf(sent[m + 1][1])' = addr
  BY <1>1, <1>5, <1>7 DEF BlockOf
<1>9. \A a : Covering(a)' = Covering(a) /\ FileByte(a)' = FileByte(a)
  BY <1>1, SameLines
<1>10. Faithful(m + 1)'
  <2>1. \A k \in DOMAIN lines' : ~Broken(k)'
    <3>1. \A k : Base(k)' = Base(k)
      BY <1>1, SameLines
    <3>2. \A k \in DOMAIN lines : ~Broken(k)
      BY <1>1 DEF FileInv, LinesInv, Broken
    <3>3. QED
      BY <1>1, <3>1, <3>2 DEF Broken
  <2>2. Held(addr) => e[2] = [n \in 1..part.block |-> FileByte(addr + n - 1)]
    BY <1>1, <1>2, <1>3, DataIsFile
  <2>3. PICK b : b = addr
    OBVIOUS
  <2>4. [n \in 1..part.block |-> FileByte(b + n - 1)]'
          = [n \in 1..part.block |-> FileByte(b + n - 1)]
    BY <1>1, <1>9
  <2>5. Held(b)' = Held(b)
    BY <1>1 DEF Held
  <2>6. Held(b)' => sent'[m + 1][2] = [n \in 1..part.block |-> FileByte(b + n - 1)]'
    BY <1>5, <2>2, <2>3, <2>4, <2>5
  <2>7. BlockOf(sent[m + 1][1])' = b
    BY <1>8, <2>3
  <2>8. QED
    BY <2>1, <2>6, <2>7 DEF Faithful
<1>11. \A i \in DOMAIN sent' : Faithful(i)'
  <2>1. \A i \in DOMAIN sent : Faithful(i)'
    BY <1>1, <1>4, BlocksKept DEF BlockInv
  <2>2. \A i \in DOMAIN sent' : i \in DOMAIN sent \/ i = m + 1
    BY <1>5
  <2>3. QED
    BY <1>10, <2>1, <2>2
<1>12. Swept(addr)'
  <2>1. SUFFICES ASSUME NEW a \in 0..addr' - 1, Covering(a)' # {}
                 PROVE  \E i \in DOMAIN sent' :
                          a - BlockOf(sent[i][1])' \in 0..part'.block - 1
    BY DEF Swept
  <2>2. CASE a \in 0..addr - 1
    <3>1. PICK i \in DOMAIN sent : a - BlockOf(sent[i][1]) \in 0..part.block - 1
      BY <1>2, <1>9, <2>1, <2>2 DEF Swept
    <3>2. BlockOf(sent[i][1])' = BlockOf(sent[i][1])
      BY <1>1, <1>4 DEF BlockOf
    <3>3. i \in DOMAIN sent'
      BY <1>5
    <3>4. QED
      BY <1>1, <3>1, <3>2, <3>3
  <2>3. CASE a \in addr..addr + part.block - 1
    <3>1. m + 1 \in DOMAIN sent'
      BY <1>5
    <3>2. part.block \in Nat
      BY <1>2, PartFacts DEF Marching
    <3>3. a - addr \in 0..part.block - 1
      BY <1>7, <2>3, <3>2
    <3>4. QED
      BY <1>1, <1>8, <3>1, <3>3
  <2>4. QED
    BY <1>1, <1>2, <2>2, <2>3, NextBlock
<1>13. QED
  BY <1>1, <1>6, <1>11, <1>12 DEF BlockInv

LEMMA BlockStep == FileInv /\ BlockInv /\ [HexNext]_hexVars => BlockInv'
<1> SUFFICES ASSUME FileInv, BlockInv, [HexNext]_hexVars PROVE BlockInv'
  OBVIOUS
<1>1. ASSUME NEW l \in Lines, ReadLine(l) PROVE BlockInv'
  <2>1. phase = "read" /\ UNCHANGED <<part, addr, sent>>
    BY <1>1, Zenon DEF ReadLine
  <2>2. l.kind \in {"data", "segment", "linear", "eof", "other", "junk"}
    BY LineFacts
  <2>3. phase' = "exit" => status' # 0
    <3>1. CASE Refused(l)
      BY <1>1, <3>1 DEF ReadLine, Die
    <3>2. CASE ~Refused(l) /\ l.kind = "data"
      <4>1. IF l.good THEN UNCHANGED <<phase, status>> ELSE Die
        BY <1>1, <3>2, Zenon DEF ReadLine
      <4>2. QED
        BY <2>1, <4>1 DEF Die
    <3>3. CASE ~Refused(l) /\ l.kind \in {"segment", "linear"}
      <4>1. UNCHANGED phase
        BY <1>1, <3>3, Zenon DEF ReadLine
      <4>2. QED
        BY <2>1, <4>1
    <3>4. CASE ~Refused(l) /\ l.kind = "eof"
      <4>1. AfterReading
        BY <1>1, <3>4, Zenon DEF ReadLine
      <4>2. QED
        BY <4>1 DEF AfterReading
    <3>5. CASE ~Refused(l) /\ l.kind \notin {"data", "segment", "linear", "eof"}
      <4>1. UNCHANGED phase
        BY <1>1, <3>5, Zenon DEF ReadLine
      <4>2. QED
        BY <2>1, <4>1
    <3>6. QED
      BY <2>2, <3>1, <3>2, <3>3, <3>4, <3>5
  <2>4. QED
    BY <2>1, <2>3, Reads
<1>2. CASE FileEnds
  BY <1>2, Reads DEF FileEnds, AfterReading
<1>3. CASE NoFile
  BY <1>3, Reads DEF NoFile, Die
<1>4. CASE Found
  BY <1>4, Reads DEF Found
<1>5. CASE NotFound
  BY <1>5, Reads DEF NotFound
<1>6. CASE SkipBlock
  BY <1>6, SkipStep
<1>7. CASE WriteBlock
  BY <1>7, WriteStep
<1>8. CASE WriteFails
  BY <1>8, Waits DEF WriteFails, Die, imageVars
<1>9. CASE Programmed
  <2>1. Swept(addr) /\ addr \in Nat /\ part.code \in Nat /\ addr >= part.code
    BY <1>9, PageNamesBlock, PartFacts DEF Programmed, BlockInv, Marching
  <2>2. \A a \in 0..part.code - 1 : a \in 0..addr - 1
    BY <2>1
  <2>3. Swept(part.code)
    BY <2>1, <2>2 DEF Swept
  <2>4. QED
    BY <1>9, <2>3, Waits DEF Programmed, imageVars
<1>10. CASE UNCHANGED hexVars
  BY <1>10, Waits DEF hexVars, BlockInv
<1>11. QED
  BY <1>1, <1>2, <1>3, <1>4, <1>5, <1>6, <1>7, <1>8, <1>9, <1>10 DEF HexNext

LEMMA BlockStart == HexInit => BlockInv
<1> SUFFICES ASSUME HexInit PROVE BlockInv
  OBVIOUS
<1>1. part \in Parts /\ sent = <<>> /\ addr = 0 /\ phase = "read"
  BY DEF HexInit
<1>2. DOMAIN sent = {} /\ \E S : sent \in Seq(S)
  BY <1>1
<1>3. \E q \in Nat : addr = q * part.block
  <2>1. addr = 0 * part.block
    BY <1>1, PartFacts
  <2>2. QED
    BY <2>1
<1>4. QED
  BY <1>1, <1>2, <1>3 DEF BlockInv, Marching

\* Nothing is sent of a file with a line that is no record, or with a data
\* record that has a wrong checksum or goes beyond the memory (a wrong
\* checksum of an extended address is another matter: see ProgramsFile); each
\* block that fits in the loader's memory holds the bytes the file has there,
\* and a loader that reports success has sent every block with a byte of the
\* file (parse_hex_line, main).
THEOREM ProgramsFileThm == HexSpec => []ProgramsFile
<1>1. BlockInv => ProgramsFile
  BY DEF BlockInv, ProgramsFile, Faithful, Swept
<1>2. QED
  BY FileStart, FileStep, BlockStart, BlockStep, <1>1, PTL DEF HexSpec
=============================================================================
