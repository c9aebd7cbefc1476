------------------------- MODULE MifareUltralight -------------------------
(***************************************************************************)
(* pn7160_mifare_ultralight.cpp: the plans of exchanges of the operations  *)
(* on a MIFARE Ultralight or NTAG tag, in the form of MifareClassic.  One  *)
(* more reaction to a failure appears here:                                *)
(*   end       stop, and return STATUS_OK                                  *)
(*                                                                         *)
(* Pages 0 to 3 hold the UID, the lock bytes and the capacity; a message   *)
(* starts at page 4.                                                       *)
(***************************************************************************)
EXTENDS MifareClassic, Integers

MIFARE_ULTRALIGHT_PAGE_SIZE == 4
MIFARE_ULTRALIGHT_READ_SIZE == 4
MIFARE_ULTRALIGHT_DATA_START_PAGE == 4

DataPage(i) == MIFARE_ULTRALIGHT_DATA_START_PAGE + i - 1

ReadAt(page, fail) == [do |-> "read", cell |-> page, data |-> Blank, fail |-> fail]
WriteAt(page, data, fail) == [do |-> "write", cell |-> page, data |-> data, fail |-> fail]

\* A tag answers for the pages it has.
UlAccepts(mem, e) == e.cell \in DOMAIN mem

\* read_mifare_ultralight_capacity_(): page 3 holds the capacity for data in
\* bytes; the code takes 0 when it cannot be read.
CapabilityContainer(bytes) == <<"capacity", 0, bytes>>
Capacity(mem) == mem[3][3]
ReadCapacity(fail) == ReadAt(3, fail)

\* clean_mifare_ultralight_(): the last page is kept in a byte.
EndOfData(mem) ==
  Capacity(mem) \div MIFARE_ULTRALIGHT_PAGE_SIZE + MIFARE_ULTRALIGHT_DATA_START_PAGE

UlCleanPlan(mem) ==
  LET pages == EndOfData(mem) % BYTE
  IN  <<ReadCapacity("end")>>
        \o [i \in 1..(pages - MIFARE_ULTRALIGHT_DATA_START_PAGE) |->
              WriteAt(DataPage(i), Blank, "abort")]

\* write_mifare_ultralight_tag_().  A message that does not fit is refused,
\* and so is every message of a tag whose capacity could not be read.
Fits(mem, m) ==
  CellsFor(m, MIFARE_ULTRALIGHT_PAGE_SIZE) * MIFARE_ULTRALIGHT_PAGE_SIZE <= Capacity(mem)

UlWritePlan(m) ==
  <<ReadCapacity("abort")>>
    \o [i \in 1..CellsFor(m, MIFARE_ULTRALIGHT_PAGE_SIZE) |->
          WriteAt(DataPage(i), Chunk(m, i), "abort")]

\* find_mifare_ultralight_ndef_(): the length byte is never taken for the
\* mark of a long message, whose length follows in two more bytes.
AnnouncedBytes(mem) ==
  LET header == mem[DataPage(1)]
  IN  IF header[1] = "chunk" /\ header[3] = 1
      THEN IF IsLong(header[2]) THEN BYTE - 1 ELSE header[2]
      ELSE 0

\* read_mifare_ultralight_tag_(): pages 3 to 6 in one read, and as many reads
\* of four pages as the announced length needs beyond them.
UlReadPlan(mem) ==
  LET beyond == IF AnnouncedBytes(mem) + 2 > 12 THEN AnnouncedBytes(mem) + 2 - 12 ELSE 0
      increment == MIFARE_ULTRALIGHT_READ_SIZE * MIFARE_ULTRALIGHT_PAGE_SIZE
  IN  <<ReadAt(3, "abort")>>
        \o [i \in 1..((beyond + increment - 1) \div increment) |->
              ReadAt(7 + MIFARE_ULTRALIGHT_READ_SIZE * (i - 1), "abort")]

\* What a read delivers: the pieces of the message, or, for a long message,
\* its length and the first of its bytes.
UlPieces(mem) ==
  LET m == mem[DataPage(1)][2]
  IN  IF IsLong(m) THEN <<Content("cut")>>
      ELSE [i \in 1..CellsFor(m, MIFARE_ULTRALIGHT_PAGE_SIZE) |-> mem[DataPage(i)]]

-----------------------------------------------------------------------------
(* Reference *)

UlCleaned(mem) ==
  [p \in DOMAIN mem |-> IF p < MIFARE_ULTRALIGHT_DATA_START_PAGE THEN mem[p] ELSE Blank]
=============================================================================
