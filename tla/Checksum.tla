------------------------------ MODULE Checksum ------------------------------
(***************************************************************************)
(* The checksum of a written file (src/io/crc32.rs, src/io/crc32c.rs and   *)
(* GoosefsFileWriter::write): each write appends its bytes to a running    *)
(* CRC, and completing the file sends type and value to the master.        *)
(*                                                                         *)
(* A byte and a 32-bit word are the sets of their bits: bit 0 is the       *)
(* lowest, exclusive or is the symmetric difference.                       *)
(***************************************************************************)
EXTENDS Naturals, Sequences, SequencesExt

CONSTANTS Data,      \* the bytes a caller writes, as sets of bits
          MaxLength  \* bound: bytes of the file

VARIABLES writer_checksum_type,
          checksum,  \* the running value, a word
          written,   \* the bytes accepted so far
          crc        \* the checksum CompleteFile carries, or Unsent

Unsent == [type |-> "none", value |-> {}]

Xor(a, b) == (a \ b) \cup (b \ a)
Not(w) == (0 .. 31) \ w
Shift(w, n) == {k - n : k \in {j \in w : j >= n}}
Low8(w) == {k \in w : k < 8}

(* The reflected polynomials: 0xedb88320 for CRC32, 0x82f63b78 for CRC32C. *)
POLY(type) ==
    IF type = "CRC32"
    THEN {5, 8, 9, 15, 19, 20, 21, 23, 24, 26, 27, 29, 30, 31}
    ELSE {3, 4, 5, 6, 8, 9, 11, 12, 13, 17, 18, 20, 21, 22, 23, 25, 31}

(* An entry of the table: eight rounds of one bit each. *)
make_table(type) ==
    LET round(word, bit) == IF 0 \in word THEN Xor(Shift(word, 1), POLY(type))
                                          ELSE Shift(word, 1)
    IN  [i \in SUBSET (0 .. 7) |-> FoldLeft(round, i, [bit \in 1 .. 8 |-> bit])]

CRC32_TABLE == make_table("CRC32")
CRC32C_TABLE == make_table("CRC32C")

crc32_append(previous, data) ==
    LET next(word, b) == Xor(CRC32_TABLE[Xor(Low8(word), b)], Shift(word, 8))
    IN  Not(FoldLeft(next, Not(previous), data))

crc32c_append(previous, data) ==
    LET next(word, b) == Xor(CRC32C_TABLE[Xor(Low8(word), b)], Shift(word, 8))
    IN  Not(FoldLeft(next, Not(previous), data))

Init ==
    /\ writer_checksum_type \in {"CRC32C", "CRC32", "NULL"}
    /\ checksum = {} /\ written = <<>> /\ crc = Unsent

(* The end of a write that both streams accepted. *)
write(data) ==
    /\ crc = Unsent /\ Len(written) + Len(data) <= MaxLength
    /\ written' = written \o data
    /\ checksum' = CASE writer_checksum_type = "CRC32C" -> crc32c_append(checksum, data)
                     [] writer_checksum_type = "CRC32" -> crc32_append(checksum, data)
                     [] writer_checksum_type = "NULL" -> checksum
    /\ UNCHANGED <<writer_checksum_type, crc>>

complete_file_crc ==
    /\ crc = Unsent
    /\ crc' = [type |-> writer_checksum_type, value |-> checksum]
    /\ UNCHANGED <<writer_checksum_type, checksum, written>>

Next ==
    \/ \E a \in Data : write(<<a>>)
    \/ \E a, b \in Data : write(<<a, b>>)
    \/ complete_file_crc
    \/ crc # Unsent /\ UNCHANGED <<writer_checksum_type, checksum, written, crc>>

Spec == Init /\ [][Next]_<<writer_checksum_type, checksum, written, crc>>

----------------------------------------------------------------------------
(* The reference: the file as a polynomial over the integers modulo 2, a    *)
(* set of exponents, lowest bit of the first byte first, with the first 32  *)
(* coefficients complemented; divided by the generator of degree 32; and    *)
(* the remainder complemented and read from its highest coefficient.        *)
Generator(type) == {32} \cup {31 - k : k \in POLY(type)}

Dividend(bytes) ==
    LET n == 8 * Len(bytes)
    IN  Xor({n + 32 - 8 * i + 7 - k : <<i, k>> \in
                {p \in (1 .. Len(bytes)) \X (0 .. 7) : p[2] \in bytes[p[1]]}},
            n .. n + 31)

Remainder(bytes, divisor) ==
    LET reduce(rest, e) == IF e \in rest THEN Xor(rest, {d + e - 32 : d \in divisor}) ELSE rest
        degrees == [j \in 1 .. 8 * Len(bytes) |-> 8 * Len(bytes) + 32 - j]
    IN  FoldLeft(reduce, Dividend(bytes), degrees)

Reference(type, bytes) == Not({31 - e : e \in Remainder(bytes, Generator(type))})

TypeOK ==
    /\ checksum \subseteq 0 .. 31 /\ written \in Seq(Data)
    /\ crc.value \subseteq 0 .. 31

\* The checksum a completed file carries is the CRC of its bytes in order,
\* whatever writes they came in; without a checksum type it is zero
\* (crc32_append, crc32c_append, complete_file_crc).
ChecksumOfFile ==
    LET whole == IF writer_checksum_type = "NULL" THEN {}
                 ELSE Reference(writer_checksum_type, written)
    IN  checksum = whole /\ (crc # Unsent => crc.value = whole)
=============================================================================
