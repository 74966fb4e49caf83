------------------------------- MODULE HexFile -------------------------------
(***************************************************************************)
(* How hid_bootloader_cli.c turns an Intel HEX file into the blocks it     *)
(* writes: read_intel_hex and parse_hex_line fill firmware_image and       *)
(* firmware_mask, main reads the file again after it has waited for the    *)
(* bootloader, and ihex_bytes_within_range and ihex_get_data cut the image *)
(* into blocks.  What the bootloader does with a block is in Bootloader.   *)
(*                                                                         *)
(* The file is chosen line by line, so that it may be another file at the  *)
(* second reading.  Addresses are scaled down; sums of addresses that wrap *)
(* around 2^32 are not modelled.                                           *)
(***************************************************************************)
EXTENDS Integers, Sequences, FiniteSetsExt

CONSTANTS
  MaxMemory,    \* MAX_MEMORY_SIZE
  Paragraph,    \* bytes per unit of an extended segment address (1 << 4)
  Parts,        \* [code, block]: code_size and block_size of -mmcu
  DataRecords,  \* [addr, bytes]
  Bases,        \* operands of extended address records
  MaxLines      \* lines of a file

Blank == 255

\* Blocks divide the code of a part and the memory of the loader.
ASSUME HexAssumption ==
  /\ {MaxMemory, Paragraph, MaxLines} \subseteq Nat \ {0}
  /\ \A p \in Parts : /\ {p.code, p.block} \subseteq Nat \ {0}
                       /\ p.code % p.block = 0 /\ MaxMemory % p.block = 0
  /\ \A d \in DataRecords : d.addr \in Nat /\ d.bytes \in Seq(0..Blank)
  /\ Bases \subseteq Nat

Addresses == 0..MaxMemory - 1

\* Lines of a file.  good: the checksum is right.
DataLines(d) ==
  [kind: {"data"}, good: BOOLEAN, addr: {d.addr}, bytes: {d.bytes}, base: {0}]
BaseLines ==
  [kind: {"segment", "linear"}, good: BOOLEAN, addr: {0}, bytes: {<<>>}, base: Bases]
OtherLines ==
  [kind: {"eof", "other", "junk"}, good: {TRUE}, addr: {0}, bytes: {<<>>}, base: {0}]
Lines == (UNION {DataLines(d) : d \in DataRecords}) \cup BaseLines \cup OtherLines

VARIABLES
  part,         \* code_size and block_size
  phase,        \* of main: read, open, program, exit
  status,       \* exit status
  waited,
  image, mask,  \* firmware_image, firmware_mask
  extended,     \* extended_addr
  lines,        \* the lines of this reading (history)
  addr,         \* main's addr
  sent          \* blocks the bootloader has acknowledged: <<page, bytes>> (history)

hexVars == <<part, phase, status, waited, image, mask, extended, lines, addr, sent>>
imageVars == <<image, mask, extended, lines>>

\* read_intel_hex, before the file is opened.
ClearImage ==
  /\ image' = [a \in Addresses |-> Blank]
  /\ mask' = [a \in Addresses |-> 0]
  /\ extended' = 0
  /\ lines' = <<>>

HexInit ==
  /\ part \in Parts
  /\ phase = "read" /\ status = 0 /\ waited = FALSE
  /\ image = [a \in Addresses |-> Blank] /\ mask = [a \in Addresses |-> 0]
  /\ extended = 0 /\ lines = <<>>
  /\ addr = 0 /\ sent = <<>>

Die == phase' = "exit" /\ status' = 1

\* parse_hex_line returns 0 before it looks at the record's type.
Refused(l) ==
  \/ l.kind = "junk"
  \/ l.addr + extended + Len(l.bytes) + (IF l.kind \in {"segment", "linear"} THEN 2 ELSE 0)
       >= MaxMemory

\* A data record is stored before its checksum is known.
Store(l) ==
  LET covered == {l.addr + extended + n - 1 : n \in DOMAIN l.bytes}
  IN  /\ image' = [a \in Addresses |->
                     IF a \in covered THEN l.bytes[a - l.addr - extended + 1] ELSE image[a]]
      /\ mask' = [a \in Addresses |-> IF a \in covered THEN 1 ELSE mask[a]]

\* An extended address with a wrong checksum is skipped, not refused.
Extend(l) ==
  extended' = IF l.good THEN l.base * (IF l.kind = "segment" THEN Paragraph ELSE MaxMemory)
              ELSE extended

\* The reading is over and has not failed.
AfterReading == phase' = (IF waited THEN "program" ELSE "open") /\ UNCHANGED status

\* One turn of read_intel_hex's loop with parse_hex_line.
ReadLine(l) ==
  /\ phase = "read" /\ Len(lines) < MaxLines
  /\ lines' = Append(lines, l)
  /\ IF Refused(l) THEN Die /\ UNCHANGED <<image, mask, extended>>
     ELSE CASE l.kind = "data" ->
                 /\ Store(l)
                 /\ extended' = extended
                 /\ IF l.good THEN UNCHANGED <<phase, status>> ELSE Die
            [] l.kind \in {"segment", "linear"} ->
                 Extend(l) /\ UNCHANGED <<image, mask, phase, status>>
            [] l.kind = "eof" -> AfterReading /\ UNCHANGED <<image, mask, extended>>
            [] OTHER -> UNCHANGED <<image, mask, extended, phase, status>>
  /\ UNCHANGED <<part, waited, addr, sent>>

\* feof: the file need not have an end record.
FileEnds ==
  /\ phase = "read"
  /\ AfterReading
  /\ UNCHANGED <<part, waited, imageVars, addr, sent>>

\* fopen fails; at the second reading the file may be gone.
NoFile ==
  /\ phase = "read" /\ lines = <<>>
  /\ Die
  /\ UNCHANGED <<part, waited, imageVars, addr, sent>>

RereadKeepsImage ==  \* mutant: a second reading without the resets
  UNCHANGED <<image, mask, extended>> /\ lines' = <<>>
Reread == ClearImage

\* teensy_open finds the bootloader; after a wait the file is read again.
Found ==
  /\ phase = "open"
  /\ IF waited THEN phase' = "read" /\ Reread ELSE phase' = "program" /\ UNCHANGED imageVars
  /\ UNCHANGED <<part, status, waited, addr, sent>>

NotFound ==
  /\ phase = "open"
  /\ waited' = TRUE
  /\ UNCHANGED <<part, phase, status, imageVars, addr, sent>>

\* ihex_bytes_within_range(begin, end)
WithinRange(begin, end) ==
  /\ {begin, end} \subseteq Addresses
  /\ \E a \in begin..end : mask[a] = 1

LastByteLost(a, len) ==  \* mutant: the last byte of a block is not copied
  [i \in 1..len |-> IF i < len /\ a + len < MaxMemory /\ mask[a + i - 1] = 1
                    THEN image[a + i - 1] ELSE Blank]
\* ihex_get_data
GetData(a, len) ==
  [i \in 1..len |-> IF a + len < MaxMemory /\ mask[a + i - 1] = 1
                    THEN image[a + i - 1] ELSE Blank]

Skipped == addr > 0 /\ ~WithinRange(addr, addr + part.block - 1)

SkipBlock ==
  /\ phase = "program" /\ addr < part.code /\ Skipped
  /\ addr' = addr + part.block
  /\ UNCHANGED <<part, phase, status, waited, imageVars, sent>>

\* The two bytes in front of a block; parts of 64K and more count in blocks
\* of 256 bytes, which is their block_size.
PageAddress == IF part.code < MaxMemory THEN addr ELSE addr \div part.block

WriteBlock ==
  /\ phase = "program" /\ addr < part.code /\ ~Skipped
  /\ sent' = Append(sent, <<PageAddress, GetData(addr, part.block)>>)
  /\ addr' = addr + part.block
  /\ UNCHANGED <<part, phase, status, waited, imageVars>>

WriteFails ==
  /\ phase = "program" /\ addr < part.code /\ ~Skipped
  /\ Die
  /\ UNCHANGED <<part, waited, imageVars, addr, sent>>

Programmed ==
  /\ phase = "program" /\ addr >= part.code
  /\ phase' = "exit" /\ status' = 0
  /\ UNCHANGED <<part, waited, imageVars, addr, sent>>

HexNext ==
  \/ \E l \in Lines : ReadLine(l)
  \/ FileEnds \/ NoFile \/ Found \/ NotFound
  \/ SkipBlock \/ WriteBlock \/ WriteFails \/ Programmed

HexSpec == HexInit /\ [][HexNext]_hexVars

-----------------------------------------------------------------------------
(* What the file says: each byte from the last good record that covers it, *)
(* at the base of the last good extended address record before that.       *)

Extends(l) == l.kind \in {"segment", "linear"} /\ l.good
BaseOf(l) == l.base * (IF l.kind = "segment" THEN Paragraph ELSE MaxMemory)
ExtendedBefore(k) == {j \in DOMAIN lines : j < k /\ Extends(lines[j])}
Base(k) ==
  IF ExtendedBefore(k) = {} THEN 0 ELSE BaseOf(lines[Max(ExtendedBefore(k))])

Covering(a) == {k \in DOMAIN lines :
  lines[k].kind = "data" /\ lines[k].good
    /\ a \in Base(k) + lines[k].addr..Base(k) + lines[k].addr + Len(lines[k].bytes) - 1}

FileByte(a) ==
  IF Covering(a) = {} THEN Blank
  ELSE LET k == Max(Covering(a)) IN lines[k].bytes[a - Base(k) - lines[k].addr + 1]

\* While the file is read, and until the loader ends, the image in memory
\* is the one of the file last read, whatever was read before it
\* (read_intel_hex, parse_hex_line).
ImageIsFile ==
  phase \in {"read", "open", "program"} =>
    \A a \in Addresses :
      /\ mask[a] = (IF Covering(a) = {} THEN 0 ELSE 1)
      /\ image[a] = FileByte(a)

\* Not a record, or a data record with a wrong checksum or beyond the memory.
Broken(k) ==
  LET l == lines[k]
  IN  \/ l.kind = "junk"
      \/ l.kind = "data" /\ ~(l.good /\ Base(k) + l.addr + Len(l.bytes) < MaxMemory)

\* Blocks that reach the bootloader come from a file all of whose lines are
\* records and all of whose data records fit and have the right checksum; and
\* each block is what that file has there, at the bases its good extended
\* addresses set.  At success every block with a byte of the file was sent.
\* An extended address with a wrong checksum is not refused: it is skipped,
\* the file is sent, and what follows it goes to the base before it, although
\* the comment on parse_hex_line promises 0 for a line with an error.  The
\* last block of the 64K the loader can hold is left out: ihex_get_data
\* blanks it (main, parse_hex_line, ihex_get_data).
Held(b) == b + part.block < MaxMemory
BlockOf(page) == IF part.code < MaxMemory THEN page ELSE page * part.block
ProgramsFile ==
  /\ \A i \in DOMAIN sent :
       /\ \A k \in DOMAIN lines : ~Broken(k)
       /\ Held(BlockOf(sent[i][1])) =>
            sent[i][2] = [n \in 1..part.block |-> FileByte(BlockOf(sent[i][1]) + n - 1)]
  /\ phase = "exit" /\ status = 0 =>
       \A a \in 0..part.code - 1 :
         Covering(a) # {} => \E i \in DOMAIN sent : a - BlockOf(sent[i][1]) \in 0..part.block - 1
=============================================================================
