--------------------------- MODULE MifareClassic ---------------------------
(***************************************************************************)
(* pn7160_mifare_classic.cpp: what each operation on a MIFARE Classic tag  *)
(* sends to it, as a plan of exchanges, and what the tag answers.          *)
(*                                                                         *)
(* A plan is a sequence of exchanges in the order the code makes them.     *)
(* "fail" says what the code does when one does not succeed:               *)
(*   abort     return STATUS_FAILED                                        *)
(*   remember  go on, and return STATUS_FAILED at the end                  *)
(*   skip      go on with the next sector, as if nothing had happened      *)
(*                                                                         *)
(* A message is known by its length in bytes; BYTE is the number of values *)
(* of a byte, scaled down for TLC.                                         *)
(***************************************************************************)
EXTENDS Naturals, SequencesExt

CONSTANTS
  Sectors,   \* sectors, of four blocks each; the loops end at block 4 * Sectors (64)
  BYTE       \* 256

\* From sector 32 on, which no loop over the sectors reaches, a sector has 16
\* blocks.
ASSUME ClassicAssumption == Sectors \in 2..32 /\ BYTE \in Nat \ {0, 1}

MIFARE_CLASSIC_BLOCK_SIZE == 16

\* What a block or a page can hold.  Chunk(m, i) is the i-th piece of the
\* message m between its TLV header and terminator; the trailers are named
\* for the keys they set.
Content(kind) == <<kind, 0, 0>>
Blank   == Content("blank")
EmptyNdef == Content("empty")     \* an NDEF message without a payload
Mad(i)  == <<"mad", 0, i>>        \* application directory, blocks 1 and 2
Trailer(keys) == Content(keys)    \* "factory", "mad", "ndef" or "foreign"
Chunk(m, i) == <<"chunk", m, i>>

\* Round up to whole blocks or pages, with the short or long TLV header and
\* the terminator (get_mifare_classic_buffer_size() and its sibling).
IsLong(m) == m >= BYTE - 1
CellsFor(m, size) == (m + (IF IsLong(m) THEN 5 ELSE 3) + size - 1) \div size

-----------------------------------------------------------------------------
(* Blocks *)

LastBlock == 4 * Sectors - 1

\* sect_to_auth_() for the blocks before sector 32; all that a tag of up to 32
\* sectors has are among them, and Accepts() refuses any other.
sect_to_auth(block) == block \div 4
TrailerOf(block) == 4 * sect_to_auth(block) + 3
IsFirstBlock(block) == block % 4 = 0

\* The block of the i-th piece of a message: block 4 and on, past trailers
DataBlock(i) == 3 + i + (i - 1) \div 3

Auth(block, key, fail) == [do |-> "auth", cell |-> block, data |-> Content(key), fail |-> fail]
Write(block, data, fail) == [do |-> "write", cell |-> block, data |-> data, fail |-> fail]
Read(block) == [do |-> "read", cell |-> block, data |-> Blank, fail |-> "abort"]

\* Every trailer this driver writes keeps the default key B.
HasKey(trailer, key) ==
  CASE key = "default B" -> trailer \in {Trailer("factory"), Trailer("mad"), Trailer("ndef")}
    [] key = "NDEF A" -> trailer = Trailer("ndef")

\* auth_mifare_classic_block_(): the tag knows the key of the sector, if it
\* has the sector.
Accepts(mem, e) ==
  /\ e.cell \in DOMAIN mem
  /\ e.do = "auth" => HasKey(mem[TrailerOf(e.cell)], e.data[1])

-----------------------------------------------------------------------------
(* The operations *)

BadCleanSector(s) ==
  <<Auth(4 * s + 3, "default B", "skip")>>
    \o (IF s = 0 THEN <<>> ELSE <<Write(4 * s, Blank, "remember")>>)
    \o [i \in 1..3 |-> Write(4 * s + i, Blank, "remember")]

\* format_mifare_classic_mifare_(): a sector that refuses the key is passed
\* over; block 0 belongs to the manufacturer.
CleanSector(s) ==
  <<Auth(4 * s + 3, "default B", "skip")>>
    \o (IF s = 0 THEN <<>> ELSE <<Write(4 * s, Blank, "remember")>>)
    \o <<Write(4 * s + 1, Blank, "remember"), Write(4 * s + 2, Blank, "remember"),
         Write(4 * s + 3, Trailer("factory"), "remember")>>

CleanPlan == FlattenSeq([s \in 1..Sectors |-> CleanSector(s - 1)])

\* format_mifare_classic_ndef_()
FormatSector0 ==
  <<Auth(0, "default B", "abort"), Write(1, Mad(1), "abort"),
    Write(2, Mad(2), "abort"), Write(3, Trailer("mad"), "abort")>>

FormatSector(s) ==
  <<Auth(4 * s + 3, "default B", "abort"),
    Write(4 * s, IF s = 1 THEN EmptyNdef ELSE Blank, "remember"),
    Write(4 * s + 1, Blank, "remember"), Write(4 * s + 2, Blank, "remember"),
    Write(4 * s + 3, Trailer("ndef"), "remember")>>

FormatPlan ==
  FormatSector0 \o FlattenSeq([s \in 1..Sectors - 1 |-> FormatSector(s)])

\* The loop of write_mifare_classic_tag_() and read_mifare_classic_tag_(),
\* which authenticates at the first block of each sector
DataLoop(n, Exchange(_)) ==
  LET At(i) == IF IsFirstBlock(DataBlock(i))
               THEN <<Auth(DataBlock(i), "NDEF A", "abort"), Exchange(i)>>
               ELSE <<Exchange(i)>>
  IN  FlattenSeq([i \in 1..n |-> At(i)])

BadWritePlan(m) ==
  DataLoop(CellsFor(m, MIFARE_CLASSIC_BLOCK_SIZE) - 1,
           LAMBDA i : Write(DataBlock(i), Chunk(m, i), "abort"))

\* write_mifare_classic_tag_(): the capacity is not looked at.
WritePlan(m) ==
  DataLoop(CellsFor(m, MIFARE_CLASSIC_BLOCK_SIZE),
           LAMBDA i : Write(DataBlock(i), Chunk(m, i), "abort"))

\* What the header in block 4 announces: the number of blocks, or 0 when
\* decode_mifare_classic_tlv() finds no message.
Announced(mem) ==
  LET header == mem[DataBlock(1)]
  IN  CASE header = EmptyNdef -> 1
        [] header[1] = "chunk" /\ header[3] = 1 ->
             CellsFor(header[2], MIFARE_CLASSIC_BLOCK_SIZE)
        [] OTHER -> 0

\* read_mifare_classic_tag_(): the first block is read for its header, then
\* again with the others.
ReadPlan(mem) ==
  <<Auth(4, "NDEF A", "abort"), Read(4)>>
    \o DataLoop(Announced(mem), LAMBDA i : Read(DataBlock(i)))

\* The pieces a read delivers
Pieces(mem) == [i \in 1..Announced(mem) |-> mem[DataBlock(i)]]

-----------------------------------------------------------------------------
(* Reference: what the tag holds once an operation has done all its work *)

Cleaned(mem) ==
  [b \in DOMAIN mem |-> IF b = 0 THEN mem[0]
                        ELSE IF b = TrailerOf(b) THEN Trailer("factory") ELSE Blank]

Formatted(mem) ==
  [b \in DOMAIN mem |->
     CASE b = 0 -> mem[0]
       [] b \in 1..2 -> Mad(b)
       [] b = 3 -> Trailer("mad")
       [] b = 4 -> EmptyNdef
       [] b > 4 -> IF b = TrailerOf(b) THEN Trailer("ndef") ELSE Blank]
=============================================================================
