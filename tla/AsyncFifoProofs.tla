-------------------------- MODULE AsyncFifoProofs --------------------------
(***************************************************************************)
(* Proofs about AsyncFifo, for every depth and every code that can be      *)
(* sampled while it changes: types, that no word is read before it is in   *)
(* the memory, and that an obedient producer and the display see a queue.  *)
(*                                                                         *)
(* All pointers and their late copies are measured from the copy of the    *)
(* read pointer that the write side compares with (Since): they lie within *)
(* Depth - 1 steps behind it, in one order, although they wrap.            *)
(***************************************************************************)
EXTENDS AsyncFifo, SequenceTheorems, TLAPS

----------------------------------------------------------------------------
(* The invariant *)

\* A register that holds the code of a pointer.
IsCode(c) == Binary(c) \in Pointers /\ Gray(Binary(c)) = c

\* The stages of the two synchronisers, as pointers.
ReadSeen    == Binary(write_read_ptr)
ReadSeen1   == Binary(write_read_ptr1)
WriteSeen   == Binary(read_write_ptr)
WriteSeen1  == Binary(read_write_ptr1)

FifoCodes ==
  /\ write_bin \in Pointers /\ write_ptr = Gray(write_bin)
  /\ read_bin \in Pointers /\ read_ptr = Gray(read_bin)
  /\ IsCode(write_read_ptr) /\ IsCode(write_read_ptr1)
  /\ IsCode(read_write_ptr) /\ IsCode(read_write_ptr1)
  /\ write_read_bin \in Pointers

FifoData ==
  /\ I_write_data \in Word
  /\ mem \in [Slots -> Word \cup {Junk}]
  /\ O_read_data \in Word \cup {Junk}
  /\ raster \in {"top", "sync", "porch", "draw"}

FifoFlags ==
  /\ write_full \in BOOLEAN /\ O_write_full \in BOOLEAN
  /\ O_read_empty \in BOOLEAN /\ O_read \in BOOLEAN

\* Steps from the write side's copy of the read pointer to p.
Since(p) == Distance(p, ReadSeen)

\* Each copy is older than what it copies, and no more than Depth - 1 words are
\* between the oldest copy and the write pointer.
Chain ==
  /\ Since(ReadSeen1) <= Since(read_bin)
  /\ Since(read_bin) <= Since(WriteSeen)
  /\ Since(WriteSeen) <= Since(WriteSeen1)
  /\ Since(WriteSeen1) <= Since(write_bin)
  /\ Since(write_bin) <= Depth - 1

\* write_full is never needed; O_write_full leaves room for one more word,
\* though it is made of an older copy still, or of one from before the reset.
Margin ==
  /\ ~write_full
  /\ ~O_write_full => Since(write_bin) <= Depth - 2
  /\ \/ Since(write_bin) = 0
     \/ /\ Distance(ReadSeen, write_read_bin) + Since(write_bin)
             = Distance(write_bin, write_read_bin)
        /\ Distance(write_bin, write_read_bin) <= Depth - 1

\* In a picture line a FIFO that is not empty has a word, and only then a word
\* is asked for.
Reader ==
  /\ raster = "draw" /\ ~O_read_empty => Since(read_bin) < Since(WriteSeen)
  /\ O_read => raster = "draw" /\ ~O_read_empty

FrameInv == raster # "top" => Chain /\ Margin /\ Reader

----------------------------------------------------------------------------
(* Pointers that wrap *)

\* Depth and the length of a lap are numbers that admit a step.
LEMMA Lap == Depth \in Nat /\ Depth >= 2
BY DepthAssumption

\* Steps from one pointer to another: a lap has 2 * Depth of them.
LEMMA DistanceRange ==
  ASSUME NEW p \in Pointers, NEW q \in Pointers
  PROVE  /\ Distance(p, q) \in Nat /\ Distance(p, q) < 2 * Depth
         /\ Distance(p, q) = 0 <=> p = q
BY Lap DEF Pointers, Distance

\* A step forward is one step further from everything not a lap behind.
LEMMA DistanceSucc ==
  ASSUME NEW p \in Pointers, NEW q \in Pointers
  PROVE  /\ Succ(p) \in Pointers
         /\ Distance(p, q) < 2 * Depth - 1 => Distance(Succ(p), q) = Distance(p, q) + 1
BY Lap DEF Pointers, Distance, Succ

\* A step towards a pointer is one step nearer.
LEMMA Nearer ==
  ASSUME NEW p \in Pointers, NEW q \in Pointers, Distance(p, q) >= 1
  PROVE  Distance(p, Succ(q)) = Distance(p, q) - 1
BY Lap DEF Pointers, Distance, Succ

\* Distances may be measured from a later point.
LEMMA DistanceRebase ==
  ASSUME NEW p \in Pointers, NEW q \in Pointers, NEW b \in Pointers,
         Distance(q, b) <= Distance(p, b)
  PROVE  Distance(p, q) = Distance(p, b) - Distance(q, b)
BY Lap DEF Pointers, Distance

\* Pointers less than Depth apart use different words of the memory.
LEMMA SlotsDiffer ==
  ASSUME NEW p \in Pointers, NEW q \in Pointers,
         Distance(p, q) \in 1..(Depth - 1)
  PROVE  Slot(p) # Slot(q)
BY Lap DEF Pointers, Distance, Slot

\* A pointer's slot is one of the memory.
LEMMA SlotRange == \A p \in Pointers : Slot(p) \in Slots
BY Lap DEF Pointers, Slots, Slot

\* Opposite pointers are Depth apart.
LEMMA OppositeDistance ==
  ASSUME NEW q \in Pointers
  PROVE  Opposite(q) \in Pointers /\ Distance(Opposite(q), q) = Depth
BY Lap DEF Pointers, Distance, Opposite

\* A pointer, its code and back.
LEMMA CodeOf ==
  ASSUME NEW p \in Pointers
  PROVE  Gray(p) \in Codes /\ Binary(Gray(p)) = p /\ IsCode(Gray(p))
BY GrayAssumption DEF IsCode

\* The code of the reset value.
LEMMA ZeroIsCode ==
  0 \in Pointers /\ Gray(0) = ZeroCode /\ Binary(ZeroCode) = 0 /\ IsCode(ZeroCode)
<1>1. 0 \in Pointers
  BY Lap DEF Pointers
<1>2. QED
  BY <1>1, CodeOf, GrayAssumption

\* Equal codes are of equal pointers.
LEMMA CodesDiffer ==
  ASSUME NEW c, IsCode(c), NEW p \in Pointers
  PROVE  Gray(p) = c <=> p = Binary(c)
BY CodeOf DEF IsCode

\* A synchroniser that samples a pointer in the moment of a step catches the
\* pointer before or after it: no code in between exists.
LEMMA Sampled ==
  ASSUME NEW p \in Pointers, NEW n \in {p, Succ(p)},
         NEW g \in Sample(Gray(p), Gray(n))
  PROVE  IsCode(g) /\ Binary(g) \in {p, n}
<1>1. CASE n = Succ(p)
  <2>1. g \in {Gray(p), Gray(n)}
    BY <1>1, GrayAssumption
  <2>2. QED
    BY <2>1, <1>1, CodeOf, DistanceSucc
<1>2. CASE n = p
  <2>1. g \in Codes /\ \A i \in Bits : g[i] = Gray(p)[i]
    BY <1>2 DEF Sample
  <2>2. g = Gray(p)
    BY <2>1, CodeOf DEF Codes
  <2>3. QED
    BY <2>2, <1>2, CodeOf
<1>3. QED
  BY <1>1, <1>2

\* The chain of copies, and its moves in an edge of either clock or of both:
\* b and a are the write side's copies of the read pointer r, s and t the read
\* side's copies of the write pointer w.
Ordered(b, a, r, s, t, w) ==
  /\ Distance(a, b) <= Distance(r, b) /\ Distance(r, b) <= Distance(s, b)
  /\ Distance(s, b) <= Distance(t, b) /\ Distance(t, b) <= Distance(w, b)
  /\ Distance(w, b) <= Depth - 1

Moved(b, a, r, s, t, w, bb, aa, rr, ss, tt, ww) ==
  /\ ww = w \/ (ww = Succ(w) /\ Distance(w, b) <= Depth - 2)
  /\ rr = r \/ (rr = Succ(r) /\ Distance(r, b) < Distance(s, b))
  /\ (bb = b /\ aa = a) \/ (bb = a /\ aa \in {r, rr})
  /\ (ss = s /\ tt = t) \/ (ss = t /\ tt \in {w, ww})

Kept(b, s, bb, aa, rr, ss, tt, ww) ==
  /\ Ordered(bb, aa, rr, ss, tt, ww)
  /\ rr # s => Distance(rr, b) < Distance(s, b)
  /\ Distance(ww, b) <= Depth - 1 /\ Distance(s, b) <= Distance(ss, b)
  /\ \A x \in {rr, ss, ww} : Distance(x, bb) = Distance(x, b) - Distance(bb, b)

\* The chain survives every edge.
LEMMA ChainMoves ==
  ASSUME NEW b \in Pointers, NEW a \in Pointers, NEW r \in Pointers,
         NEW s \in Pointers, NEW t \in Pointers, NEW w \in Pointers,
         Ordered(b, a, r, s, t, w),
         NEW bb \in Pointers, NEW aa \in Pointers, NEW rr \in Pointers,
         NEW ss \in Pointers, NEW tt \in Pointers, NEW ww \in Pointers,
         Moved(b, a, r, s, t, w, bb, aa, rr, ss, tt, ww)
  PROVE  Kept(b, s, bb, aa, rr, ss, tt, ww)
<1> USE DEF Ordered, Moved, Kept
<1> DEFINE d(x) == Distance(x, b)
<1>1. /\ d(ww) \in {d(w), d(w) + 1} /\ d(ww) <= Depth - 1
      /\ d(rr) \in {d(r), d(r) + 1} /\ d(rr) <= d(s)
  BY Lap, DistanceRange, DistanceSucc
<1>2. \A x \in Pointers : d(x) \in Nat /\ d(b) = 0
  BY DistanceRange
<1>3. d(bb) <= d(aa) /\ d(aa) <= d(rr) /\ d(rr) <= d(ss) /\ d(ss) <= d(tt) /\ d(tt) <= d(ww)
  BY <1>1, <1>2
<1>4. /\ Distance(aa, bb) = d(aa) - d(bb) /\ Distance(rr, bb) = d(rr) - d(bb)
      /\ Distance(ss, bb) = d(ss) - d(bb) /\ Distance(tt, bb) = d(tt) - d(bb)
      /\ Distance(ww, bb) = d(ww) - d(bb)
  <2>1. d(bb) <= d(rr) /\ d(bb) <= d(ss) /\ d(bb) <= d(tt) /\ d(bb) <= d(ww)
    BY <1>2, <1>3
  <2>2. QED
    BY <2>1, <1>3, DistanceRebase
<1>5. rr # s => d(rr) # d(s)
  <2>1. ASSUME d(rr) = d(s) PROVE rr = s
    <3>1. Distance(rr, s) = d(rr) - d(s)
      BY <2>1, <1>2, DistanceRebase
    <3>2. QED
      BY <3>1, <2>1, <1>2, DistanceRange
  <2>2. QED
    BY <2>1
<1> HIDE DEF d
<1>6. QED
  BY <1>1, <1>2, <1>3, <1>4, <1>5, Lap DEF d

----------------------------------------------------------------------------
(* What an edge of either clock does to the pointers and the flags *)

WriteSide ==
  /\ \/ write_bin' = write_bin
     \/ write_bin' = Succ(write_bin) /\ ~O_write_full
  /\ ReadSeen' = ReadSeen1 /\ ReadSeen1' \in {read_bin, read_bin'}
  /\ write_read_bin' = ReadSeen
  /\ write_full' => write_bin' = Opposite(ReadSeen)
  /\ ~O_write_full' => ~nearly_full

WriteRests ==
  UNCHANGED <<write_bin, write_full, O_write_full, write_read_bin,
              write_read_ptr, write_read_ptr1>>

ReadSide ==
  /\ \/ read_bin' = read_bin /\ ~(O_read /\ ~O_read_empty)
     \/ read_bin' = Succ(read_bin) /\ O_read /\ ~O_read_empty
  /\ WriteSeen' = WriteSeen1 /\ WriteSeen1' \in {write_bin, write_bin'}
  /\ O_read_empty' <=> read_bin' = WriteSeen
  /\ O_read' => raster = "draw" /\ ~O_read /\ ~O_read_empty
  /\ raster' = IF raster = "porch" THEN "draw" ELSE raster

ReadRests ==
  UNCHANGED <<read_bin, O_read_empty, read_write_ptr, read_write_ptr1,
              O_read, raster>>

\* The pointer a register holds is of the code it holds.
LEMMA WriteEdgeCodes ==
  ASSUME FifoCodes, NEW cmd, NEW word, NEW g, IsCode(g), WriteEdge(cmd, word, g)
  PROVE  /\ write_bin' \in {write_bin, Succ(write_bin)} /\ write_bin' \in Pointers
         /\ write_bin' = write_bin_next(cmd)
         /\ write_ptr' = Gray(write_bin')
         /\ IsCode(write_read_ptr)' /\ IsCode(write_read_ptr1)'
         /\ write_read_bin' = ReadSeen /\ write_read_bin' \in Pointers
         /\ ReadSeen' = ReadSeen1 /\ ReadSeen1' = Binary(g)
<1>1. write_bin' \in {write_bin, Succ(write_bin)} /\ write_bin' = write_bin_next(cmd)
  BY DEF WriteEdge, write_bin_next
<1>2. write_bin' \in Pointers
  BY <1>1, DistanceSucc DEF FifoCodes
<1>3. QED
  BY <1>1, <1>2 DEF WriteEdge, FifoCodes, IsCode, ReadSeen, ReadSeen1

\* The same on the read side.
LEMMA ReadEdgeCodes ==
  ASSUME FifoCodes, NEW data, NEW g, IsCode(g), ReadEdge(data, g)
  PROVE  /\ read_bin' \in {read_bin, Succ(read_bin)} /\ read_bin' \in Pointers
         /\ read_bin' = read_bin_next
         /\ read_ptr' = Gray(read_bin')
         /\ IsCode(read_write_ptr)' /\ IsCode(read_write_ptr1)'
         /\ WriteSeen' = WriteSeen1 /\ WriteSeen1' = Binary(g)
<1>1. read_bin' \in {read_bin, Succ(read_bin)} /\ read_bin' = read_bin_next
  BY DEF ReadEdge, read_bin_next
<1>2. read_bin' \in Pointers
  BY <1>1, DistanceSucc DEF FifoCodes
<1>3. QED
  BY <1>1, <1>2 DEF ReadEdge, FifoCodes, IsCode, WriteSeen, WriteSeen1

\* An edge of both clocks, with what the synchronisers catch of it.
LEMMA BothEdges ==
  ASSUME FifoCodes, BothClocks
  PROVE  \E cmd, word, data, r, w :
           /\ cmd \in MayWrite /\ word \in Word
           /\ WriteEdge(cmd, word, r) /\ ReadEdge(data, w) /\ DisplayEdge
           /\ IsCode(r) /\ Binary(r) \in {read_bin, read_bin_next}
           /\ IsCode(w) /\ Binary(w) \in {write_bin, write_bin_next(cmd)}
           /\ data = IF /\ cmd /\ ~write_full_val(write_bin_next(cmd))
                        /\ Slot(write_bin) = Slot(read_bin)
                       THEN Junk ELSE mem[Slot(read_bin)]
<1>1. PICK cmd \in MayWrite, word \in Word :
        LET next == write_bin_next(cmd)
            collision == cmd /\ ~write_full_val(next) /\ Slot(write_bin) = Slot(read_bin)
            data == IF collision THEN Junk ELSE mem[Slot(read_bin)]
        IN  /\ \E r \in Sample(read_ptr, Gray(read_bin_next)) : WriteEdge(cmd, word, r)
            /\ \E w \in Sample(write_ptr, Gray(next)) : ReadEdge(data, w)
  BY DEF BothClocks
<1> DEFINE data == IF /\ cmd /\ ~write_full_val(write_bin_next(cmd))
                      /\ Slot(write_bin) = Slot(read_bin)
                     THEN Junk ELSE mem[Slot(read_bin)]
<1>2. PICK r \in Sample(read_ptr, Gray(read_bin_next)) : WriteEdge(cmd, word, r)
  BY <1>1
<1>3. PICK w \in Sample(write_ptr, Gray(write_bin_next(cmd))) : ReadEdge(data, w)
  BY <1>1
<1>4. IsCode(r) /\ Binary(r) \in {read_bin, read_bin_next}
  <2>1. read_bin_next \in {read_bin, Succ(read_bin)}
    BY DEF read_bin_next
  <2>2. read_bin \in Pointers /\ r \in Sample(Gray(read_bin), Gray(read_bin_next))
    BY <1>2 DEF FifoCodes
  <2>3. QED
    BY <2>1, <2>2, Sampled
<1>5. IsCode(w) /\ Binary(w) \in {write_bin, write_bin_next(cmd)}
  <2>1. write_bin_next(cmd) \in {write_bin, Succ(write_bin)}
    BY DEF write_bin_next
  <2>2. write_bin \in Pointers /\ w \in Sample(Gray(write_bin), Gray(write_bin_next(cmd)))
    BY <1>3 DEF FifoCodes
  <2>3. QED
    BY <2>1, <2>2, Sampled
<1>6. DisplayEdge
  BY DEF BothClocks
<1>7. QED
  BY <1>2, <1>3, <1>4, <1>5, <1>6

\* The registers always hold codes of pointers, and the Gray pointers are the
\* codes of the binary ones.
LEMMA CodesStep == FifoCodes /\ [FifoNext]_fifoVars => FifoCodes'
<1>1. SUFFICES ASSUME FifoCodes, [FifoNext]_fifoVars PROVE FifoCodes'
  OBVIOUS
<1>2. CASE WriteClock
  <2>1. PICK cmd \in MayWrite, word \in Word : WriteEdge(cmd, word, read_ptr)
    BY <1>2 DEF WriteClock
  <2>2. IsCode(read_ptr)
    BY <1>1, CodeOf DEF FifoCodes
  <2>3. UNCHANGED <<read_bin, read_ptr, read_write_ptr, read_write_ptr1>>
    BY <1>2 DEF WriteClock, readPointers
  <2>4. QED
    BY <1>1, <2>1, <2>2, <2>3, WriteEdgeCodes DEF FifoCodes, IsCode
<1>3. CASE ReadClock
  <2>1. ReadEdge(mem[Slot(read_bin)], write_ptr) /\ IsCode(write_ptr)
    BY <1>1, <1>3, CodeOf DEF ReadClock, FifoCodes
  <2>2. UNCHANGED <<write_bin, write_ptr, write_read_ptr, write_read_ptr1, write_read_bin>>
    BY <1>3 DEF ReadClock, writeVars, writePointers
  <2>3. QED
    BY <1>1, <2>1, <2>2, ReadEdgeCodes DEF FifoCodes, IsCode
<1>4. CASE BothClocks
  <2>1. PICK cmd, word, data, r, w :
          /\ cmd \in MayWrite /\ word \in Word
          /\ WriteEdge(cmd, word, r) /\ ReadEdge(data, w) /\ IsCode(r) /\ IsCode(w)
    BY <1>1, <1>4, BothEdges
  <2>2. QED
    BY <1>1, <2>1, WriteEdgeCodes, ReadEdgeCodes DEF FifoCodes
<1>5. CASE ResetFifo
  BY <1>1, <1>5, ZeroIsCode DEF ResetFifo, FifoCodes, IsCode
<1>6. CASE LeaveSync \/ UNCHANGED fifoVars
  BY <1>1, <1>6 DEF LeaveSync, fifoVars, writeVars, writePointers, readPointers, FifoCodes, IsCode
<1>7. QED
  BY <1>1, <1>2, <1>3, <1>4, <1>5, <1>6 DEF FifoNext, EnterSync, SystemReset

\* Words stay words: the memory takes only what is offered, and the output
\* only what the memory holds.
LEMMA DataStep == FifoCodes /\ FifoData /\ [FifoNext]_fifoVars => FifoData'
<1>1. SUFFICES ASSUME FifoCodes, FifoData, [FifoNext]_fifoVars PROVE FifoData'
  OBVIOUS
<1>2. mem[Slot(read_bin)] \in Word \cup {Junk} /\ Slot(write_bin) \in Slots
  BY <1>1, SlotRange DEF FifoCodes, FifoData
<1>3. ASSUME NEW cmd, NEW word \in Word, NEW g, WriteEdge(cmd, word, g)
      PROVE  I_write_data' \in Word /\ mem' \in [Slots -> Word \cup {Junk}]
  <2>1. I_write_data' \in {word, I_write_data}
    BY <1>3 DEF WriteEdge
  <2>2. mem' \in {mem, [mem EXCEPT ![Slot(write_bin)] = word]}
    BY <1>3 DEF WriteEdge
  <2>3. QED
    BY <1>1, <2>1, <2>2 DEF FifoData
<1>4. ASSUME NEW data \in Word \cup {Junk}, NEW g, ReadEdge(data, g), DisplayEdge
      PROVE  O_read_data' \in Word \cup {Junk} /\ raster' \in {"top", "sync", "porch", "draw"}
  <2>1. O_read_data' \in {data, O_read_data}
    BY <1>4 DEF ReadEdge
  <2>2. raster' \in {"draw", raster}
    BY <1>4 DEF DisplayEdge
  <2>3. QED
    BY <1>1, <2>1, <2>2 DEF FifoData
<1>5. CASE WriteClock
  <2>1. \E cmd \in MayWrite, word \in Word : WriteEdge(cmd, word, read_ptr)
    BY <1>5 DEF WriteClock
  <2>2. UNCHANGED <<O_read_data, raster>>
    BY <1>5 DEF WriteClock, displayVars
  <2>3. QED
    BY <1>1, <1>3, <2>1, <2>2 DEF FifoData
<1>6. CASE ReadClock
  <2>1. ReadEdge(mem[Slot(read_bin)], write_ptr) /\ DisplayEdge /\ UNCHANGED <<mem, I_write_data>>
    BY <1>6 DEF ReadClock, writeVars
  <2>2. QED
    BY <1>1, <1>2, <1>4, <2>1 DEF FifoData
<1>7. CASE BothClocks
  <2>1. PICK cmd, word, data, r, w :
          /\ cmd \in MayWrite /\ word \in Word
          /\ WriteEdge(cmd, word, r) /\ ReadEdge(data, w) /\ DisplayEdge
          /\ data \in {Junk, mem[Slot(read_bin)]}
    BY <1>1, <1>7, BothEdges
  <2>2. data \in Word \cup {Junk}
    BY <1>2, <2>1
  <2>3. QED
    BY <1>3, <1>4, <2>1, <2>2 DEF FifoData
<1>8. CASE ResetFifo /\ raster' \in {"sync", "top"}
  BY <1>1, <1>8 DEF ResetFifo, FifoData
<1>9. CASE LeaveSync \/ UNCHANGED fifoVars
  BY <1>1, <1>9 DEF LeaveSync, fifoVars, writeVars, displayVars, FifoData
<1>10. QED
  BY <1>1, <1>5, <1>6, <1>7, <1>8, <1>9 DEF FifoNext, EnterSync, SystemReset

\* Flags stay flags.
LEMMA FlagsStep == FifoFlags /\ [FifoNext]_fifoVars => FifoFlags'
<1>1. SUFFICES ASSUME FifoFlags, [FifoNext]_fifoVars PROVE FifoFlags'
  OBVIOUS
<1>2. ASSUME NEW cmd, NEW word, NEW g, WriteEdge(cmd, word, g)
      PROVE  write_full' \in BOOLEAN /\ O_write_full' \in BOOLEAN
  <2>1. nearly_full \in BOOLEAN
    BY DEF nearly_full
  <2>2. write_full' \in BOOLEAN /\ O_write_full' = nearly_full
    BY <1>2, Zenon DEF WriteEdge, write_full_val
  <2>3. QED
    BY <2>1, <2>2, Zenon
<1>3. ASSUME NEW data, NEW g, ReadEdge(data, g), DisplayEdge
      PROVE  O_read_empty' \in BOOLEAN /\ O_read' \in BOOLEAN
  BY <1>3, Zenon DEF ReadEdge, read_empty_val, DisplayEdge
<1>4. CASE WriteClock
  <2>1. \E cmd \in MayWrite, word \in Word : WriteEdge(cmd, word, read_ptr)
    BY <1>4 DEF WriteClock
  <2>2. O_read_empty' = O_read_empty /\ O_read' = O_read
    BY <1>4, Zenon DEF WriteClock, readPointers, displayVars
  <2>3. QED
    BY <1>1, <1>2, <2>1, <2>2, Zenon DEF FifoFlags
<1>5. CASE ReadClock
  <2>1. write_full' = write_full /\ O_write_full' = O_write_full
    BY <1>5, Zenon DEF ReadClock, writeVars, writePointers
  <2>2. QED
    BY <1>1, <1>3, <1>5, <2>1, Zenon DEF ReadClock, FifoFlags
<1>6. CASE BothClocks
  <2>1. PICK cmd \in MayWrite, word \in Word :
          /\ \E r : WriteEdge(cmd, word, r)
          /\ \E data, w : ReadEdge(data, w)
    BY <1>6 DEF BothClocks
  <2>2. QED
    BY <1>2, <1>3, <1>6, <2>1, Zenon DEF BothClocks, FifoFlags
<1>7. CASE ResetFifo /\ O_read' = O_read
  BY <1>1, <1>7, Zenon DEF ResetFifo, FifoFlags
<1>8. CASE LeaveSync \/ UNCHANGED fifoVars
  <2>1. /\ write_full' = write_full /\ O_write_full' = O_write_full
        /\ O_read_empty' = O_read_empty /\ O_read' = O_read
    BY <1>8, Zenon DEF LeaveSync, fifoVars, writeVars, writePointers, readPointers, displayVars
  <2>2. QED
    BY <1>1, <2>1, Zenon DEF FifoFlags
<1>9. QED
  BY <1>1, <1>4, <1>5, <1>6, <1>7, <1>8 DEF FifoNext, EnterSync, SystemReset

\* What the registers hold at power-up.
LEMMA RegistersInit == FifoInit => FifoCodes /\ FifoData /\ FifoFlags
<1>1. SUFFICES ASSUME FifoInit PROVE FifoCodes /\ FifoData /\ FifoFlags
  OBVIOUS
<1>2. FifoCodes
  BY <1>1, ZeroIsCode DEF FifoInit, FifoCodes
<1>3. FifoData
  BY <1>1 DEF FifoInit, FifoData
<1>4. FifoFlags
  BY <1>1, Zenon DEF FifoInit, FifoFlags
<1>5. QED
  BY <1>2, <1>3, <1>4

\* Every register of the FIFO keeps its type, for every depth and every code
\* with the properties of a Gray code: no synchroniser ever holds anything but
\* the code of a pointer, so the conversion back always yields one.
THEOREM FifoTypeOKThm == FifoSpec => []FifoTypeOK
<1>1. FifoCodes /\ FifoData /\ FifoFlags => FifoTypeOK
  <2>1. SUFFICES ASSUME FifoCodes, FifoData, FifoFlags PROVE FifoTypeOK
    OBVIOUS
  <2>2. \A c : IsCode(c) => c \in Codes
    BY CodeOf DEF IsCode
  <2>3. /\ write_ptr \in Codes /\ read_ptr \in Codes
        /\ write_read_ptr \in Codes /\ write_read_ptr1 \in Codes
        /\ read_write_ptr \in Codes /\ read_write_ptr1 \in Codes
        /\ write_bin \in Pointers /\ read_bin \in Pointers /\ write_read_bin \in Pointers
    BY <2>1, <2>2, CodeOf DEF FifoCodes
  <2>4. QED
    BY <2>1, <2>3, Zenon DEF FifoData, FifoFlags, FifoTypeOK
<1>2. QED
  BY <1>1, RegistersInit, CodesStep, DataStep, FlagsStep, PTL DEF FifoSpec

----------------------------------------------------------------------------
(* A frame: the producer heeds O_write_full *)

\* What WriteEdge does, seen from the pointers.
LEMMA WriteEdgeSide ==
  ASSUME Obedient, FifoCodes, NEW cmd \in MayWrite, NEW word, NEW g, IsCode(g),
         Binary(g) \in {read_bin, read_bin'}, WriteEdge(cmd, word, g)
  PROVE  WriteSide
<1>1. /\ write_bin' = write_bin_next(cmd) /\ write_bin' \in Pointers
      /\ write_read_bin' = ReadSeen
      /\ ReadSeen' = ReadSeen1 /\ ReadSeen1' = Binary(g)
  BY WriteEdgeCodes
<1>2. cmd => ~O_write_full
  BY DEF MayWrite
<1>3. write_bin' = write_bin \/ (write_bin' = Succ(write_bin) /\ ~O_write_full)
  BY <1>1, <1>2 DEF write_bin_next
<1>4. write_full' => write_bin' = Opposite(ReadSeen)
  <2>1. ReadSeen \in Pointers /\ Gray(ReadSeen) = write_read_ptr
    BY DEF FifoCodes, IsCode, ReadSeen
  <2>2. InvertTop(write_read_ptr) = Gray(Opposite(ReadSeen)) /\ Opposite(ReadSeen) \in Pointers
    BY <2>1, GrayAssumption, OppositeDistance
  <2>3. write_full' => Gray(write_bin') = InvertTop(write_read_ptr)
    BY <1>1 DEF WriteEdge, write_full_val
  <2>4. QED
    BY <1>1, <2>2, <2>3, CodeOf
<1>5. ~O_write_full' => ~nearly_full
  BY DEF WriteEdge
<1>6. QED
  BY <1>1, <1>3, <1>4, <1>5 DEF WriteSide

\* What ReadEdge and the display do, seen from the pointers.
LEMMA ReadEdgeSide ==
  ASSUME FifoCodes, NEW data, NEW g, IsCode(g),
         Binary(g) \in {write_bin, write_bin'}, ReadEdge(data, g), DisplayEdge
  PROVE  ReadSide
<1>1. /\ read_bin' = read_bin_next /\ read_bin' \in Pointers
      /\ WriteSeen' = WriteSeen1 /\ WriteSeen1' = Binary(g)
  BY ReadEdgeCodes
<1>2. \/ read_bin' = read_bin /\ ~(O_read /\ ~O_read_empty)
      \/ read_bin' = Succ(read_bin) /\ O_read /\ ~O_read_empty
  BY <1>1 DEF read_bin_next
<1>3. O_read_empty' <=> read_bin' = WriteSeen
  <2>1. O_read_empty' <=> Gray(read_bin') = read_write_ptr
    BY <1>1 DEF ReadEdge, read_empty_val
  <2>2. QED
    BY <1>1, <2>1, CodesDiffer DEF FifoCodes, WriteSeen
<1>4. /\ O_read' => raster = "draw" /\ ~O_read /\ ~O_read_empty
      /\ raster' = IF raster = "porch" THEN "draw" ELSE raster
  BY DEF DisplayEdge
<1>5. QED
  BY <1>1, <1>2, <1>3, <1>4 DEF ReadSide

\* An edge of one clock leaves the other side's registers.
LEMMA ClockSides ==
  ASSUME Obedient, FifoCodes, WriteClock \/ ReadClock \/ BothClocks
  PROVE  (WriteSide \/ WriteRests) /\ (ReadSide \/ ReadRests) /\ raster # "sync"
<1>1. CASE WriteClock
  <2>1. PICK cmd \in MayWrite, word \in Word : WriteEdge(cmd, word, read_ptr)
    BY <1>1 DEF WriteClock
  <2>2. IsCode(read_ptr) /\ Binary(read_ptr) = read_bin
    BY CodeOf DEF FifoCodes
  <2>3. WriteSide
    BY <2>1, <2>2, WriteEdgeSide
  <2>4. ReadRests /\ raster # "sync"
    BY <1>1 DEF WriteClock, readPointers, displayVars, ReadRests
  <2>5. QED
    BY <2>3, <2>4
<1>2. CASE ReadClock
  <2>1. ReadEdge(mem[Slot(read_bin)], write_ptr) /\ DisplayEdge
    BY <1>2 DEF ReadClock
  <2>2. IsCode(write_ptr) /\ Binary(write_ptr) = write_bin
    BY CodeOf DEF FifoCodes
  <2>3. ReadSide
    BY <2>1, <2>2, ReadEdgeSide
  <2>4. WriteRests /\ raster # "sync"
    BY <1>2 DEF ReadClock, writeVars, writePointers, WriteRests
  <2>5. QED
    BY <2>3, <2>4
<1>3. CASE BothClocks
  <2>1. PICK cmd, word, data, r, w :
          /\ cmd \in MayWrite /\ word \in Word
          /\ WriteEdge(cmd, word, r) /\ ReadEdge(data, w) /\ DisplayEdge
          /\ IsCode(r) /\ Binary(r) \in {read_bin, read_bin_next}
          /\ IsCode(w) /\ Binary(w) \in {write_bin, write_bin_next(cmd)}
    BY <1>3, BothEdges
  <2>2. read_bin' = read_bin_next /\ write_bin' = write_bin_next(cmd)
    BY <2>1 DEF ReadEdge, WriteEdge
  <2>3. WriteSide
    BY <2>1, <2>2, WriteEdgeSide
  <2>4. ReadSide
    BY <2>1, <2>2, ReadEdgeSide
  <2>5. raster # "sync"
    BY <1>3 DEF BothClocks
  <2>6. QED
    BY <2>3, <2>4, <2>5
<1>4. QED
  BY <1>1, <1>2, <1>3

\* An edge keeps the order of the copies, the producer's margin and the
\* reader's word.
LEMMA FrameEdge ==
  ASSUME FifoCodes, FifoCodes', Chain, Margin, Reader,
         WriteSide \/ WriteRests, ReadSide \/ ReadRests
  PROVE  Chain' /\ Margin' /\ Reader'
<1> DEFINE b == ReadSeen   a == ReadSeen1   r == read_bin
           s == WriteSeen  t == WriteSeen1  w == write_bin
<1>1. /\ b \in Pointers /\ a \in Pointers /\ r \in Pointers
      /\ s \in Pointers /\ t \in Pointers /\ w \in Pointers
  BY DEF FifoCodes, IsCode, ReadSeen, ReadSeen1, WriteSeen, WriteSeen1
<1>2. /\ b' \in Pointers /\ a' \in Pointers /\ r' \in Pointers
      /\ s' \in Pointers /\ t' \in Pointers /\ w' \in Pointers
  BY DEF FifoCodes, IsCode, ReadSeen, ReadSeen1, WriteSeen, WriteSeen1
<1>3. /\ Distance(a, b) <= Distance(r, b) /\ Distance(r, b) <= Distance(s, b)
      /\ Distance(s, b) <= Distance(t, b) /\ Distance(t, b) <= Distance(w, b)
      /\ Distance(w, b) <= Depth - 1
  BY DEF Chain, Since
<1>4. w' = w \/ (w' = Succ(w) /\ Distance(w, b) <= Depth - 2)
  BY DEF WriteSide, WriteRests, Margin, Since
<1>5. r' = r \/ (r' = Succ(r) /\ Distance(r, b) < Distance(s, b))
  BY DEF ReadSide, ReadRests, Reader, Since
<1>6. (b' = b /\ a' = a) \/ (b' = a /\ a' \in {r, r'})
  BY DEF WriteSide, WriteRests, ReadSeen, ReadSeen1
<1>7. (s' = s /\ t' = t) \/ (s' = t /\ t' \in {w, w'})
  BY DEF ReadSide, ReadRests, WriteSeen, WriteSeen1
<1>8. /\ Ordered(b', a', r', s', t', w')
      /\ r' # s => Distance(r', b) < Distance(s, b)
      /\ Distance(w', b) <= Depth - 1 /\ Distance(s, b) <= Distance(s', b)
      /\ \A x \in {r', s', w'} : Distance(x, b') = Distance(x, b) - Distance(b', b)
  <2>1. Moved(b, a, r, s, t, w, b', a', r', s', t', w')
    BY <1>4, <1>5, <1>6, <1>7 DEF Moved
  <2>2. Ordered(b, a, r, s, t, w)
    BY <1>3 DEF Ordered
  <2>3. Kept(b, s, b', a', r', s', t', w')
    BY <1>1, <1>2, <2>1, <2>2, ChainMoves
  <2>4. QED
    BY <2>3 DEF Kept
<1>9. Chain'
  BY <1>8 DEF Chain, Since, Ordered
<1>10. Margin'
  <2>1. CASE WriteRests
    BY <2>1 DEF WriteRests, Margin, Since, ReadSeen
  <2>2. CASE WriteSide
    <3>1. ~write_full'
      BY <2>2, <1>1, <1>8, Lap, OppositeDistance DEF WriteSide
    <3>2. /\ Distance(w', b) \in Nat /\ Distance(b', b) \in Nat /\ Distance(w, b) \in Nat
          /\ Distance(w', b') \in Nat /\ Distance(w, write_read_bin) \in Nat
          /\ Distance(b, write_read_bin) \in Nat
      BY <1>1, <1>2, DistanceRange DEF FifoCodes
    <3>3. Distance(w', b') = Distance(w', b) - Distance(b', b)
      BY <1>8
    <3>4. Distance(w', b) <= Distance(w, b) + 1
      <4>1. CASE w' = w
        BY <4>1, <3>2
      <4>2. CASE w' = Succ(w) /\ Distance(w, b) <= Depth - 2
        BY <4>2, <1>1, <3>2, Lap, DistanceSucc
      <4>3. QED
        BY <4>1, <4>2, <1>4
    <3>5. ASSUME ~O_write_full' PROVE Distance(w', b') <= Depth - 2
      <4>1. ~(Slot(Distance(w, write_read_bin)) >= Depth - 2)
        BY <3>5, <2>2 DEF WriteSide, nearly_full, nb_data_val
      <4>2. CASE Distance(w, b) = 0
        <5>1. Slot(Distance(w, write_read_bin)) >= 0
          BY <1>1, Lap, DistanceRange DEF Slot, FifoCodes
        <5>2. Depth >= 3
          BY <4>1, <5>1, <3>2, Lap DEF Slot
        <5>3. QED
          BY <4>2, <5>2, <3>2, <3>3, <3>4, Lap
      <4>3. CASE /\ Distance(b, write_read_bin) + Distance(w, b) = Distance(w, write_read_bin)
                 /\ Distance(w, write_read_bin) <= Depth - 1
        <5>1. Distance(w, write_read_bin) < Depth - 2
          BY <4>1, <4>3, <3>2, Lap DEF Slot
        <5>2. QED
          BY <4>3, <5>1, <3>2, <3>3, <3>4, Lap
      <4>4. QED
        BY <4>2, <4>3 DEF Margin, Since
    <3>6. write_read_bin' = b
      BY <2>2 DEF WriteSide
    <3>7. Distance(b', b) + Distance(w', b') = Distance(w', b) /\ Distance(w', b) <= Depth - 1
      BY <3>2, <3>3, <1>8
    <3>8. QED
      BY <3>1, <3>5, <3>6, <3>7 DEF Margin, Since
  <2>3. QED
    BY <2>1, <2>2
<1>11. Reader'
  <2>1. /\ Distance(r', b) \in Nat /\ Distance(s, b) \in Nat /\ Distance(s', b) \in Nat
        /\ Distance(b', b) \in Nat
    BY <1>1, <1>2, DistanceRange
  <2>2. /\ Distance(r', b') = Distance(r', b) - Distance(b', b)
        /\ Distance(s', b') = Distance(s', b) - Distance(b', b)
    BY <1>8
  <2>3. CASE ReadRests
    <3>1. r' = r /\ s' = s /\ UNCHANGED <<O_read_empty, O_read, raster>>
      BY <2>3 DEF ReadRests, WriteSeen
    <3>2. raster = "draw" /\ ~O_read_empty => Distance(r', b') < Distance(s', b')
      BY <2>1, <2>2, <3>1 DEF Reader, Since
    <3>3. QED
      BY <3>1, <3>2 DEF Reader, Since
  <2>4. CASE ReadSide
    <3>1. ~O_read_empty' => Distance(r', b') < Distance(s', b')
      <4>1. ASSUME ~O_read_empty' PROVE r' # s
        BY <2>4, <4>1 DEF ReadSide
      <4>2. QED
        BY <4>1, <2>1, <2>2, <1>8
    <3>2. ASSUME O_read' PROVE raster' = "draw" /\ ~O_read_empty'
      <4>1. raster = "draw" /\ ~O_read /\ ~O_read_empty /\ raster' = "draw"
        BY <2>4, <3>2 DEF ReadSide
      <4>2. r' = r /\ Distance(r, b) < Distance(s, b)
        BY <2>4, <4>1 DEF ReadSide, Reader, Since
      <4>3. r' # s
        BY <4>2, <2>1
      <4>4. QED
        BY <4>1, <4>3, <2>4 DEF ReadSide
    <3>3. QED
      BY <3>1, <3>2 DEF Reader, Since
  <2>5. QED
    BY <2>3, <2>4
<1>12. QED
  BY <1>9, <1>10, <1>11

FifoInv == FifoCodes /\ FifoData /\ FrameInv

\* The order of the copies is set up by the reset at the top of a frame and
\* kept by every edge until the next one.
LEMMA FrameStep ==
  ASSUME Obedient, FifoCodes, FifoCodes', FrameInv, [FifoNext]_fifoVars
  PROVE  FrameInv'
<1>1. CASE WriteClock \/ ReadClock \/ BothClocks
  <2>1. (WriteSide \/ WriteRests) /\ (ReadSide \/ ReadRests)
    BY <1>1, ClockSides
  <2>2. CASE raster = "top"
    BY <2>1, <2>2 DEF ReadSide, ReadRests, FrameInv
  <2>3. CASE raster # "top"
    <3>1. Chain /\ Margin /\ Reader
      BY <2>3 DEF FrameInv
    <3>2. QED
      BY <2>1, <3>1, FrameEdge DEF FrameInv
  <2>4. QED
    BY <2>2, <2>3
<1>2. CASE EnterSync
  <2>1. /\ write_bin' = 0 /\ read_bin' = 0 /\ ~write_full' /\ ~O_write_full'
        /\ write_read_ptr' = ZeroCode /\ write_read_ptr1' = ZeroCode
        /\ read_write_ptr' = ZeroCode /\ read_write_ptr1' = ZeroCode
        /\ raster' = "sync" /\ ~O_read'
    BY <1>2 DEF EnterSync, ResetFifo
  <2>2. ReadSeen' = 0 /\ ReadSeen1' = 0 /\ WriteSeen' = 0 /\ WriteSeen1' = 0
    BY <2>1, ZeroIsCode DEF ReadSeen, ReadSeen1, WriteSeen, WriteSeen1
  <2>3. Distance(0, 0) = 0
    BY ZeroIsCode, DistanceRange
  <2>4. Chain' /\ Margin'
    BY <2>1, <2>2, <2>3, Lap DEF Chain, Margin, Since
  <2>5. QED
    BY <2>1, <2>4 DEF FrameInv, Reader
<1>3. CASE LeaveSync
  <2>1. raster = "sync" /\ Chain /\ Margin /\ Reader
    BY <1>3 DEF LeaveSync, FrameInv
  <2>2. WriteRests /\ raster' = "porch"
        /\ UNCHANGED <<read_bin, read_write_ptr, read_write_ptr1, O_read>>
    BY <1>3 DEF LeaveSync, writeVars, writePointers, readPointers, WriteRests
  <2>3. Chain'
    BY <2>1, <2>2 DEF WriteRests, Chain, Since, ReadSeen, ReadSeen1, WriteSeen, WriteSeen1
  <2>4. Margin'
    BY <2>1, <2>2 DEF WriteRests, Margin, Since, ReadSeen
  <2>5. Reader'
    BY <2>1, <2>2 DEF Reader
  <2>6. QED
    BY <2>3, <2>4, <2>5 DEF FrameInv
<1>4. CASE SystemReset
  BY <1>4 DEF SystemReset, FrameInv
<1>5. CASE UNCHANGED fifoVars
  <2>1. WriteRests /\ ReadRests
    BY <1>5 DEF fifoVars, writeVars, writePointers, readPointers, displayVars,
                WriteRests, ReadRests
  <2>2. QED
    BY <2>1, FrameEdge DEF FrameInv, ReadRests
<1>6. QED
  BY <1>1, <1>2, <1>3, <1>4, <1>5 DEF FifoNext

\* The invariant holds at all times.
LEMMA FifoInvAlways == ASSUME Obedient PROVE FifoSpec => []FifoInv
<1>1. FifoInit => FifoInv
  <2>1. FifoInit => FrameInv
    BY DEF FifoInit, FrameInv
  <2>2. QED
    BY <2>1, RegistersInit DEF FifoInv
<1>2. FifoInv /\ [FifoNext]_fifoVars => FifoInv'
  BY CodesStep, DataStep, FrameStep DEF FifoInv
<1>3. QED
  BY <1>1, <1>2, PTL DEF FifoSpec

\* What the chain says of the occupancy: the words held are fewer than Depth,
\* fewer still when the producer may write, and some when one is asked for.
LEMMA OccupancyBounds ==
  ASSUME FifoInv, raster # "top"
  PROVE  /\ Occupancy \in 0..(Depth - 1)
         /\ ~O_write_full => Occupancy <= Depth - 2
         /\ O_read => raster = "draw" /\ ~O_read_empty /\ Occupancy \in 1..(Depth - 1)
<1>1. FifoCodes /\ Chain /\ Margin /\ Reader
  BY DEF FifoInv, FrameInv
<1>2. /\ ReadSeen \in Pointers /\ WriteSeen \in Pointers /\ WriteSeen1 \in Pointers
      /\ read_bin \in Pointers /\ write_bin \in Pointers
  BY <1>1 DEF FifoCodes, IsCode, ReadSeen, WriteSeen, WriteSeen1
<1>3. /\ Since(read_bin) \in Nat /\ Since(write_bin) \in Nat
      /\ Since(WriteSeen) \in Nat /\ Since(WriteSeen1) \in Nat
  BY <1>2, DistanceRange DEF Since
<1>4. Since(read_bin) <= Since(WriteSeen) /\ Since(WriteSeen) <= Since(write_bin)
      /\ Since(write_bin) <= Depth - 1
  BY <1>1, <1>3 DEF Chain
<1>5. Occupancy = Since(write_bin) - Since(read_bin)
  <2>1. Distance(read_bin, ReadSeen) <= Distance(write_bin, ReadSeen)
    BY <1>3, <1>4 DEF Since
  <2>2. QED
    BY <2>1, <1>2, DistanceRebase DEF Occupancy, Since
<1>6. Occupancy \in 0..(Depth - 1)
  BY <1>3, <1>4, <1>5, Lap
<1>7. ~O_write_full => Occupancy <= Depth - 2
  BY <1>1, <1>3, <1>5, Lap DEF Margin
<1>8. ASSUME O_read PROVE raster = "draw" /\ ~O_read_empty /\ Occupancy \in 1..(Depth - 1)
  <2>1. raster = "draw" /\ ~O_read_empty /\ Since(read_bin) < Since(WriteSeen)
    BY <1>1, <1>8 DEF Reader
  <2>2. QED
    BY <2>1, <1>3, <1>4, <1>5, Lap
<1>9. QED
  BY <1>6, <1>7, <1>8

\* The display never reads a slot without a word nor one being written in the
\* same edge, for every depth: the flag it acted on a clock earlier is still
\* true, whatever the two clocks do.
THEOREM ReadsSettledWordThm == ASSUME Obedient PROVE FifoSpec => []ReadsSettledWord
<1>1. FifoInv => ReadsSettledWord
  BY OccupancyBounds DEF ReadsSettledWord
<1>2. QED
  BY <1>1, FifoInvAlways, PTL

----------------------------------------------------------------------------
(* The words held *)

\* What a word of the memory can be.
Cell == Word \cup {Junk}

\* A number of steps ahead of a pointer.
LEMMA AheadOf ==
  ASSUME NEW p \in Pointers, NEW n \in Nat, n < 2 * Depth
  PROVE  /\ Ahead(p, n) \in Pointers /\ Distance(Ahead(p, n), p) = n
         /\ n + 1 < 2 * Depth => Ahead(Succ(p), n) = Ahead(p, n + 1)
         /\ \A q \in Pointers : Distance(q, p) = n => Ahead(p, n) = q
BY Lap DEF Pointers, Ahead, Distance, Succ

\* The window is a sequence of words.
LEMMA WindowSeq ==
  ASSUME NEW m \in [Slots -> Cell], NEW r \in Pointers, NEW n \in 0..(Depth - 1)
  PROVE  /\ Window(m, r, n) \in Seq(Cell) /\ Len(Window(m, r, n)) = n
         /\ \A i \in 1..n : Window(m, r, n)[i] = m[Slot(Ahead(r, i - 1))]
<1>1. \A i \in 1..n : m[Slot(Ahead(r, i - 1))] \in Cell
  <2>1. TAKE i \in 1..n
  <2>2. i - 1 \in Nat /\ i - 1 < 2 * Depth
    BY Lap
  <2>3. Slot(Ahead(r, i - 1)) \in Slots
    BY <2>2, AheadOf, SlotRange
  <2>4. QED
    BY <2>3
<1>2. n \in Nat
  BY Lap
<1>3. QED
  BY <1>1, <1>2 DEF Window

\* The memory after a write.
Stored(m, slot, word) == [m EXCEPT ![slot] = word]

\* A word written behind the window becomes its last: it is in no slot of it.
LEMMA WindowPut ==
  \A m \in [Slots -> Cell], r \in Pointers, w \in Pointers, word \in Cell, n \in 0..(Depth - 2) :
    Distance(w, r) = n =>
      /\ Distance(Succ(w), r) = n + 1
      /\ Window(Stored(m, Slot(w), word), r, n + 1) = Append(Window(m, r, n), word)
<1> SUFFICES ASSUME NEW m \in [Slots -> Cell], NEW r \in Pointers, NEW w \in Pointers,
                    NEW word \in Cell, NEW n \in 0..(Depth - 2), Distance(w, r) = n
             PROVE  /\ Distance(Succ(w), r) = n + 1
                    /\ Window(Stored(m, Slot(w), word), r, n + 1)
                         = Append(Window(m, r, n), word)
  OBVIOUS
<1> DEFINE mm == Stored(m, Slot(w), word)
           old == Window(m, r, n)
           new == Window(mm, r, n + 1)
<1>1. n \in 0..(Depth - 1) /\ n + 1 \in 0..(Depth - 1) /\ n \in Nat /\ n < 2 * Depth
  BY Lap
<1>2. Distance(Succ(w), r) = n + 1
  BY <1>1, Lap, DistanceSucc
<1>3. /\ Slot(w) \in Slots /\ mm \in [Slots -> Cell] /\ mm[Slot(w)] = word
      /\ \A s \in Slots : s # Slot(w) => mm[s] = m[s]
  BY SlotRange DEF Stored
<1>4. /\ old \in Seq(Cell) /\ Len(old) = n
      /\ \A i \in 1..n : old[i] = m[Slot(Ahead(r, i - 1))]
  <2> HIDE DEF mm
  <2>1. n \in 0..(Depth - 1)
    BY <1>1
  <2>2. QED
    BY <2>1, WindowSeq, Zenon
<1>5. /\ new \in Seq(Cell) /\ Len(new) = n + 1
      /\ \A i \in 1..n + 1 : new[i] = mm[Slot(Ahead(r, i - 1))]
  <2> HIDE DEF mm
  <2>1. n + 1 \in 0..(Depth - 1) /\ mm \in [Slots -> Cell]
    BY <1>1, <1>3
  <2>2. QED
    BY <2>1, WindowSeq, Zenon
<1>6. new[n + 1] = word
  <2> HIDE DEF mm
  <2>1. Ahead(r, n) = w /\ (n + 1) - 1 = n /\ n + 1 \in 1..n + 1
    BY <1>1, AheadOf
  <2>2. QED
    BY <2>1, <1>3, <1>5
<1>7. \A i \in 1..n : new[i] = old[i]
  <2> HIDE DEF mm
  <2>1. TAKE i \in 1..n
  <2>2. i - 1 \in Nat /\ i - 1 < 2 * Depth /\ i \in 1..n + 1 /\ n - (i - 1) \in 1..(Depth - 1)
        /\ i - 1 <= n
    BY <1>1, Lap
  <2>3. Ahead(r, i - 1) \in Pointers /\ Distance(Ahead(r, i - 1), r) = i - 1
    BY <2>2, AheadOf
  <2>4. Distance(w, Ahead(r, i - 1)) = n - (i - 1)
    BY <2>2, <2>3, DistanceRebase
  <2>5. Slot(w) # Slot(Ahead(r, i - 1)) /\ Slot(Ahead(r, i - 1)) \in Slots
    BY <2>2, <2>3, <2>4, SlotsDiffer, SlotRange
  <2>6. QED
    BY <2>2, <2>5, <1>3, <1>4, <1>5
<1>8. new = Append(old, word)
  <2> HIDE DEF old, new
  <2>1. /\ Append(old, word) \in Seq(Cell) /\ Len(Append(old, word)) = Len(old) + 1
        /\ \A i \in 1..Len(old) : Append(old, word)[i] = old[i]
        /\ Append(old, word)[Len(old) + 1] = word
    BY <1>4, AppendProperties
  <2>2. \A i \in 1..Len(new) : new[i] = Append(old, word)[i]
    BY <2>1, <1>1, <1>4, <1>5, <1>6, <1>7
  <2>3. QED
    BY <2>1, <2>2, <1>4, <1>5, SeqEqual
<1>9. QED
  BY <1>2, <1>8

\* A step of the read pointer drops the window's first word.
LEMMA WindowGet ==
  ASSUME NEW m \in [Slots -> Cell], NEW r \in Pointers, NEW n \in 1..(Depth - 1)
  PROVE  /\ Window(m, r, n) # <<>> /\ Head(Window(m, r, n)) = m[Slot(r)]
         /\ Window(m, Succ(r), n - 1) = Tail(Window(m, r, n))
<1> DEFINE old == Window(m, r, n)
           new == Window(m, Succ(r), n - 1)
<1>1. n \in 0..(Depth - 1) /\ n - 1 \in 0..(Depth - 1) /\ Succ(r) \in Pointers
  BY Lap, DistanceSucc
<1>2. /\ old \in Seq(Cell) /\ Len(old) = n
      /\ \A i \in 1..n : old[i] = m[Slot(Ahead(r, i - 1))]
  BY <1>1, WindowSeq
<1>3. /\ new \in Seq(Cell) /\ Len(new) = n - 1
      /\ \A i \in 1..n - 1 : new[i] = m[Slot(Ahead(Succ(r), i - 1))]
  BY <1>1, WindowSeq
<1>4. old[1] = m[Slot(r)]
  <2>1. Ahead(r, 0) = r /\ 1 \in 1..n /\ 1 - 1 = 0
    BY Lap DEF Ahead, Pointers
  <2>2. QED
    BY <2>1, <1>2
<1>5. \A i \in 1..n - 1 : new[i] = old[i + 1]
  <2>1. TAKE i \in 1..n - 1
  <2>2. i - 1 \in Nat /\ (i - 1) + 1 < 2 * Depth /\ i - 1 < 2 * Depth
        /\ (i - 1) + 1 = i /\ (i + 1) - 1 = i /\ i + 1 \in 1..n
    BY Lap
  <2>3. Ahead(Succ(r), i - 1) = Ahead(r, (i - 1) + 1)
    BY <2>2, AheadOf
  <2> HIDE DEF old, new
  <2>4. new[i] = m[Slot(Ahead(r, i))]
    BY <2>2, <2>3, <1>3
  <2>5. old[i + 1] = m[Slot(Ahead(r, i))]
    BY <2>2, <1>2
  <2>6. QED
    BY <2>4, <2>5
<1> HIDE DEF old, new
<1>6. old # <<>> /\ Head(old) = old[1]
  BY <1>1, <1>2
<1>7. /\ Tail(old) \in Seq(Cell) /\ Len(Tail(old)) = Len(old) - 1
      /\ \A i \in 1..Len(Tail(old)) : Tail(old)[i] = old[i + 1]
  BY <1>2, <1>6, HeadTailProperties
<1>8. new = Tail(old)
  <2>1. Len(new) = Len(Tail(old)) /\ \A i \in 1..Len(new) : new[i] = Tail(old)[i]
    BY <1>2, <1>3, <1>5, <1>7
  <2>2. QED
    BY <2>1, <1>3, <1>7, SeqEqual
<1>9. QED
  BY <1>4, <1>6, <1>8 DEF old, new

----------------------------------------------------------------------------
(* The queue that producer and display see *)

WroteWord ==
  /\ write_bin' = Succ(write_bin) /\ ~O_write_full
  /\ I_write_data' \in Word
  /\ mem' = Stored(mem, Slot(write_bin), I_write_data')

TookWord ==
  read_bin' = Succ(read_bin) /\ O_read /\ O_read_data' = mem[Slot(read_bin)]

\* In a frame every word offered is stored: write_full is not set, neither
\* before the edge nor by it.
LEMMA WriteEffect ==
  ASSUME Obedient, Margin, Margin', NEW cmd \in MayWrite, NEW word \in Word, NEW g,
         WriteEdge(cmd, word, g)
  PROVE  WroteWord \/ UNCHANGED <<write_bin, mem, I_write_data>>
<1>1. cmd \in BOOLEAN /\ (cmd => ~O_write_full)
  BY DEF MayWrite
<1>2. ~write_full /\ ~write_full'
  BY DEF Margin
<1>3. ~write_full_val(write_bin_next(cmd))
  BY <1>2 DEF WriteEdge
<1>4. CASE cmd
  BY <1>1, <1>2, <1>3, <1>4 DEF WriteEdge, write_bin_next, WroteWord, Stored
<1>5. CASE ~cmd
  BY <1>5 DEF WriteEdge, write_bin_next
<1>6. QED
  BY <1>4, <1>5

\* The display gets the word of its slot.
LEMMA ReadEffect ==
  ASSUME Reader, NEW data, NEW g, ReadEdge(data, g), O_read => data = mem[Slot(read_bin)]
  PROVE  TookWord \/ UNCHANGED <<read_bin, O_read_data>>
BY DEF Reader, ReadEdge, read_bin_next, TookWord

\* What the abstract queue sees in a frame.
LEMMA HeldWindow ==
  ASSUME FifoInv, raster # "top"
  PROVE  /\ Held = Window(mem, read_bin, Occupancy)
         /\ mem \in [Slots -> Word \cup {Junk}]
         /\ read_bin \in Pointers /\ write_bin \in Pointers
         /\ Occupancy = Distance(write_bin, read_bin)
         /\ Occupancy \in 0..(Depth - 1)
         /\ Len(Held) = Occupancy
<1>1. /\ Held = Window(mem, read_bin, Occupancy)
      /\ mem \in [Slots -> Word \cup {Junk}]
      /\ read_bin \in Pointers /\ write_bin \in Pointers
      /\ Occupancy = Distance(write_bin, read_bin)
  BY DEF Held, FifoInv, FifoData, FifoCodes, Occupancy
<1>2. Occupancy \in 0..(Depth - 1)
  BY OccupancyBounds
<1>3. mem \in [Slots -> Cell]
  BY <1>1 DEF Cell
<1>4. Len(Window(mem, read_bin, Occupancy)) = Occupancy
  BY <1>1, <1>2, <1>3, WindowSeq, Zenon
<1>5. QED
  BY <1>1, <1>2, <1>4

\* A word stored is a Put.
LEMMA PutStep ==
  ASSUME FifoInv, raster # "top", raster' # "top", WroteWord,
         UNCHANGED <<read_bin, O_read_data>>
  PROVE  Words!Put
<1>1. /\ Held = Window(mem, read_bin, Occupancy)
      /\ mem \in [Slots -> Word \cup {Junk}]
      /\ read_bin \in Pointers /\ write_bin \in Pointers
      /\ Occupancy = Distance(write_bin, read_bin)
      /\ Occupancy \in 0..(Depth - 1)
      /\ Len(Held) = Occupancy
  BY HeldWindow
<1>2. Occupancy \in 0..(Depth - 2)
  BY <1>1, OccupancyBounds, Lap DEF WroteWord
<1>3. mem \in [Slots -> Cell] /\ I_write_data' \in Cell
  BY <1>1 DEF Cell, WroteWord
<1>4. /\ Distance(Succ(write_bin), read_bin) = Occupancy + 1
      /\ Window(Stored(mem, Slot(write_bin), I_write_data'), read_bin, Occupancy + 1)
           = Append(Window(mem, read_bin, Occupancy), I_write_data')
  <2>1. Distance(write_bin, read_bin) = Occupancy
    BY <1>1
  <2>2. /\ mem \in [Slots -> Cell] /\ I_write_data' \in Cell /\ read_bin \in Pointers
        /\ write_bin \in Pointers /\ Occupancy \in 0..(Depth - 2)
    BY <1>1, <1>2, <1>3
  <2>3. QED
    BY <2>1, <2>2, WindowPut, Zenon
<1>5. Occupancy' = Occupancy + 1
  BY <1>4 DEF Occupancy, WroteWord
<1>6. Held' = Append(Held, I_write_data')
  BY <1>1, <1>4, <1>5 DEF Held, WroteWord
<1>7. Len(Held) < Depth - 1
  BY <1>1, <1>2, Lap
<1>8. QED
  BY <1>6, <1>7 DEF Words!Put, WroteWord

\* A word taken is a Get.
LEMMA GetStep ==
  ASSUME FifoInv, raster # "top", raster' # "top", TookWord,
         UNCHANGED <<write_bin, mem, I_write_data>>
  PROVE  Words!Get
<1>1. /\ Held = Window(mem, read_bin, Occupancy)
      /\ mem \in [Slots -> Word \cup {Junk}]
      /\ read_bin \in Pointers /\ write_bin \in Pointers
      /\ Occupancy = Distance(write_bin, read_bin)
      /\ Len(Held) = Occupancy
  BY HeldWindow
<1>2. Occupancy \in 1..(Depth - 1)
  BY OccupancyBounds DEF TookWord
<1>3. mem \in [Slots -> Cell]
  BY <1>1 DEF Cell
<1>4. /\ Held # <<>> /\ Head(Held) = mem[Slot(read_bin)]
      /\ Window(mem, Succ(read_bin), Occupancy - 1) = Tail(Held)
  BY <1>1, <1>2, <1>3, WindowGet, Zenon
<1>5. Occupancy' = Occupancy - 1
  <2>1. Distance(write_bin, Succ(read_bin)) = Occupancy - 1
    BY <1>1, <1>2, Nearer
  <2>2. QED
    BY <2>1 DEF Occupancy, TookWord
<1>6. Held' = Tail(Held)
  BY <1>4, <1>5 DEF Held, TookWord
<1>7. QED
  BY <1>4, <1>6 DEF Words!Get, TookWord

\* Both at once: the word taken is not the one stored.
LEMMA PutAndGetStep ==
  ASSUME FifoInv, raster # "top", raster' # "top", WroteWord, TookWord
  PROVE  Words!PutAndGet
<1>1. /\ Held = Window(mem, read_bin, Occupancy)
      /\ mem \in [Slots -> Word \cup {Junk}]
      /\ read_bin \in Pointers /\ write_bin \in Pointers
      /\ Occupancy = Distance(write_bin, read_bin)
      /\ Len(Held) = Occupancy
  BY HeldWindow
<1>2. /\ Occupancy \in 1..(Depth - 1) /\ Occupancy - 1 \in 0..(Depth - 2)
      /\ (Occupancy - 1) + 1 = Occupancy /\ Succ(read_bin) \in Pointers
  BY <1>1, OccupancyBounds, Lap, DistanceSucc DEF TookWord
<1>3. mem \in [Slots -> Cell] /\ I_write_data' \in Cell
  BY <1>1 DEF Cell, WroteWord
<1>4. /\ Held # <<>> /\ Head(Held) = mem[Slot(read_bin)]
      /\ Window(mem, Succ(read_bin), Occupancy - 1) = Tail(Held)
  BY <1>1, <1>2, <1>3, WindowGet, Zenon
<1>5. Distance(write_bin, Succ(read_bin)) = Occupancy - 1
  BY <1>1, <1>2, Nearer
<1>6. /\ Distance(Succ(write_bin), Succ(read_bin)) = (Occupancy - 1) + 1
      /\ Window(Stored(mem, Slot(write_bin), I_write_data'), Succ(read_bin), (Occupancy - 1) + 1)
           = Append(Window(mem, Succ(read_bin), Occupancy - 1), I_write_data')
  <2>1. /\ mem \in [Slots -> Cell] /\ I_write_data' \in Cell /\ Succ(read_bin) \in Pointers
        /\ write_bin \in Pointers /\ Occupancy - 1 \in 0..(Depth - 2)
    BY <1>1, <1>2, <1>3
  <2>2. QED
    BY <1>5, <2>1, WindowPut, Zenon
<1>7. Occupancy' = (Occupancy - 1) + 1
  BY <1>6 DEF Occupancy, WroteWord, TookWord
<1>8. Held' = Append(Tail(Held), I_write_data')
  BY <1>4, <1>6, <1>7 DEF Held, WroteWord, TookWord
<1>9. QED
  BY <1>4, <1>8 DEF Words!PutAndGet, WroteWord, TookWord

\* The effects of a clock edge in a frame.
LEMMA EdgeEffects ==
  ASSUME Obedient, FifoInv, FifoInv', raster # "top", raster' # "top",
         WriteClock \/ ReadClock \/ BothClocks
  PROVE  /\ WroteWord \/ UNCHANGED <<write_bin, mem, I_write_data>>
         /\ TookWord \/ UNCHANGED <<read_bin, O_read_data>>
<1>1. FifoCodes /\ Margin /\ Reader /\ Margin'
  BY DEF FifoInv, FrameInv
<1>2. CASE WriteClock
  <2>1. PICK cmd \in MayWrite, word \in Word : WriteEdge(cmd, word, read_ptr)
    BY <1>2 DEF WriteClock
  <2>2. UNCHANGED <<read_bin, O_read_data>>
    BY <1>2 DEF WriteClock, readPointers
  <2>3. QED
    BY <1>1, <2>1, <2>2, WriteEffect
<1>3. CASE ReadClock
  <2>1. ReadEdge(mem[Slot(read_bin)], write_ptr) /\ UNCHANGED <<write_bin, mem, I_write_data>>
    BY <1>3 DEF ReadClock, writeVars, writePointers
  <2>2. QED
    BY <1>1, <2>1, ReadEffect
<1>4. CASE BothClocks
  <2>1. PICK cmd, word, data, r, w :
          /\ cmd \in MayWrite /\ word \in Word
          /\ WriteEdge(cmd, word, r) /\ ReadEdge(data, w)
          /\ data = IF /\ cmd /\ ~write_full_val(write_bin_next(cmd))
                       /\ Slot(write_bin) = Slot(read_bin)
                      THEN Junk ELSE mem[Slot(read_bin)]
    BY <1>1, <1>4, BothEdges
  <2>2. O_read => Slot(write_bin) # Slot(read_bin)
    <3>1. O_read => Distance(write_bin, read_bin) \in 1..(Depth - 1)
      BY OccupancyBounds DEF Occupancy
    <3>2. QED
      BY <1>1, <3>1, SlotsDiffer DEF FifoCodes
  <2>3. O_read => data = mem[Slot(read_bin)]
    BY <2>1, <2>2
  <2>4. QED
    BY <1>1, <2>1, <2>3, WriteEffect, ReadEffect
<1>5. QED
  BY <1>2, <1>3, <1>4

\* A reset, and every step before the first frame, empties the queue.
LEMMA ClearStep ==
  ASSUME FifoInv', Held' = <<>>
  PROVE  Words!Clear
<1>1. I_write_data' \in Word /\ O_read_data' \in Word \cup {Junk}
  BY DEF FifoInv, FifoData
<1>2. QED
  BY <1>1 DEF Words!Clear

\* Every step of the FIFO is a step of the queue or none.
LEMMA WordsStep ==
  ASSUME Obedient, FifoInv, FifoInv', [FifoNext]_fifoVars
  PROVE  [Words!Put \/ Words!Get \/ Words!PutAndGet \/ Words!Clear]_(Words!queueVars)
<1>1. CASE raster' = "top"
  <2>1. Held' = <<>>
    BY <1>1 DEF Held
  <2>2. QED
    BY <2>1, ClearStep
<1>2. CASE raster' # "top" /\ (WriteClock \/ ReadClock \/ BothClocks)
  <2>1. raster # "top"
    BY <1>2, ClockSides DEF FifoInv, ReadSide, ReadRests
  <2>2. /\ WroteWord \/ UNCHANGED <<write_bin, mem, I_write_data>>
        /\ TookWord \/ UNCHANGED <<read_bin, O_read_data>>
    BY <1>2, <2>1, EdgeEffects
  <2>3. CASE UNCHANGED <<write_bin, mem, I_write_data>> /\ UNCHANGED <<read_bin, O_read_data>>
    BY <1>2, <2>1, <2>3 DEF Words!queueVars, Held, Occupancy
  <2>4. QED
    BY <1>2, <2>1, <2>2, <2>3, PutStep, GetStep, PutAndGetStep
<1>3. CASE EnterSync
  <2>1. Occupancy' = 0 /\ raster' = "sync"
    BY <1>3, ZeroIsCode, DistanceRange DEF EnterSync, ResetFifo, Occupancy
  <2>2. Held' = <<>>
    BY <2>1 DEF Held, Window
  <2>3. QED
    BY <2>2, ClearStep
<1>4. CASE LeaveSync \/ UNCHANGED fifoVars
  <2>1. UNCHANGED <<I_write_data, mem, write_bin, read_bin, O_read_data>>
        /\ (raster = "top" <=> raster' = "top")
    BY <1>4 DEF LeaveSync, fifoVars, writeVars, writePointers, readPointers, displayVars
  <2>2. QED
    BY <2>1 DEF Words!queueVars, Held, Occupancy
<1>5. CASE SystemReset
  BY <1>1, <1>5 DEF SystemReset
<1>6. QED
  BY <1>1, <1>2, <1>3, <1>4, <1>5 DEF FifoNext

\* A producer that heeds O_write_full and the display see a queue of Depth - 1
\* words, for every depth: no word is lost, repeated, invented or overtaken,
\* whatever the two clocks do and whatever a synchroniser catches.
THEOREM KeepsWordsThm == ASSUME Obedient PROVE FifoSpec => KeepsWords
<1>1. FifoInit => Words!QueueInit
  BY DEF FifoInit, Words!QueueInit, Held
<1>2. FifoInv /\ FifoInv' /\ [FifoNext]_fifoVars
        => [Words!Put \/ Words!Get \/ Words!PutAndGet \/ Words!Clear]_(Words!queueVars)
  BY WordsStep
<1>3. QED
  BY <1>1, <1>2, FifoInvAlways, PTL DEF FifoSpec, KeepsWords, Words!QueueSpec
=============================================================================
