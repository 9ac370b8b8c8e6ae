--------------------------------- MODULE Crc16 ---------------------------------
(***************************************************************************)
(* The checksum of the serial frames: the two tables of modbus.c (and, the *)
(* same, of crc16.cpp) and the loop over the bytes, against the polynomial *)
(* x^16 + x^15 + x^2 + 1 they stand for, one bit at a time.                *)
(***************************************************************************)
LOCAL INSTANCE Integers
LOCAL INSTANCE Sequences
LOCAL INSTANCE SequencesExt
LOCAL INSTANCE Bitwise

table_crc_hi ==
   << 0, 193, 129, 64, 1, 192, 128, 65, 1, 192, 128, 65, 0, 193, 129, 64, 1, 192, 128, 65,
      0, 193, 129, 64, 0, 193, 129, 64, 1, 192, 128, 65, 1, 192, 128, 65, 0, 193, 129, 64,
      0, 193, 129, 64, 1, 192, 128, 65, 0, 193, 129, 64, 1, 192, 128, 65, 1, 192, 128, 65,
      0, 193, 129, 64, 1, 192, 128, 65, 0, 193, 129, 64, 0, 193, 129, 64, 1, 192, 128, 65,
      0, 193, 129, 64, 1, 192, 128, 65, 1, 192, 128, 65, 0, 193, 129, 64, 0, 193, 129, 64,
      1, 192, 128, 65, 1, 192, 128, 65, 0, 193, 129, 64, 1, 192, 128, 65, 0, 193, 129, 64,
      0, 193, 129, 64, 1, 192, 128, 65, 1, 192, 128, 65, 0, 193, 129, 64, 0, 193, 129, 64,
      1, 192, 128, 65, 0, 193, 129, 64, 1, 192, 128, 65, 1, 192, 128, 65, 0, 193, 129, 64,
      0, 193, 129, 64, 1, 192, 128, 65, 1, 192, 128, 65, 0, 193, 129, 64, 1, 192, 128, 65,
      0, 193, 129, 64, 0, 193, 129, 64, 1, 192, 128, 65, 0, 193, 129, 64, 1, 192, 128, 65,
      1, 192, 128, 65, 0, 193, 129, 64, 1, 192, 128, 65, 0, 193, 129, 64, 0, 193, 129, 64,
      1, 192, 128, 65, 1, 192, 128, 65, 0, 193, 129, 64, 0, 193, 129, 64, 1, 192, 128, 65,
      0, 193, 129, 64, 1, 192, 128, 65, 1, 192, 128, 65, 0, 193, 129, 64 >>

table_crc_lo ==
   << 0, 192, 193, 1, 195, 3, 2, 194, 198, 6, 7, 199, 5, 197, 196, 4, 204, 12, 13, 205,
      15, 207, 206, 14, 10, 202, 203, 11, 201, 9, 8, 200, 216, 24, 25, 217, 27, 219, 218, 26,
      30, 222, 223, 31, 221, 29, 28, 220, 20, 212, 213, 21, 215, 23, 22, 214, 210, 18, 19, 211,
      17, 209, 208, 16, 240, 48, 49, 241, 51, 243, 242, 50, 54, 246, 247, 55, 245, 53, 52, 244,
      60, 252, 253, 61, 255, 63, 62, 254, 250, 58, 59, 251, 57, 249, 248, 56, 40, 232, 233, 41,
      235, 43, 42, 234, 238, 46, 47, 239, 45, 237, 236, 44, 228, 36, 37, 229, 39, 231, 230, 38,
      34, 226, 227, 35, 225, 33, 32, 224, 160, 96, 97, 161, 99, 163, 162, 98, 102, 166, 167, 103,
      165, 101, 100, 164, 108, 172, 173, 109, 175, 111, 110, 174, 170, 106, 107, 171, 105, 169, 168, 104,
      120, 184, 185, 121, 187, 123, 122, 186, 190, 126, 127, 191, 125, 189, 188, 124, 180, 116, 117, 181,
      119, 183, 182, 118, 114, 178, 179, 115, 177, 113, 112, 176, 80, 144, 145, 81, 147, 83, 82, 146,
      150, 86, 87, 151, 85, 149, 148, 84, 156, 92, 93, 157, 95, 159, 158, 94, 90, 154, 155, 91,
      153, 89, 88, 152, 136, 72, 73, 137, 75, 139, 138, 74, 78, 142, 143, 79, 141, 77, 76, 140,
      68, 132, 133, 69, 135, 71, 70, 134, 130, 66, 67, 131, 65, 129, 128, 64 >>

(* One byte of the message: the tables are indexed from 0.                  *)
CrcStep(crc, byte) ==
    LET index == (crc.hi ^^ byte) + 1
    IN [hi |-> crc.lo ^^ table_crc_hi[index], lo |-> table_crc_lo[index]]

crc16(buffer) ==
    LET crc == FoldLeft(CrcStep, [hi |-> 255, lo |-> 255], buffer)
    IN 256 * crc.hi + crc.lo

-----------------------------------------------------------------------------
(* The reference: a register of 16 bits, lowest bit first.  The code keeps   *)
(* its low byte in crc_hi, and sends it first.                               *)
Shifted(register) == IF register % 2 = 1 THEN (register \div 2) ^^ 40961 ELSE register \div 2
Divided(register, byte) == FoldLeft(LAMBDA r, n : Shifted(r), register ^^ byte, <<1, 2, 3, 4, 5, 6, 7, 8>>)
Reference(buffer) ==
    LET register == FoldLeft(Divided, 65535, buffer)
    IN 256 * (register % 256) + register \div 256

(* A read of two registers by device 1, and every message with one or two    *)
(* bits of it, its checksum included, turned.                                *)
Sample == <<1, 3, 4, 1, 2, 0, 3>>
Sent == Sample \o <<crc16(Sample) \div 256, crc16(Sample) % 256>>
Turned(message, bit) == [message EXCEPT ![1 + bit \div 8] = @ ^^ (2 ^ (bit % 8))]
Accepted(message) ==
    LET n == Len(message)
    IN crc16(SubSeq(message, 1, n - 2)) = 256 * message[n - 1] + message[n]

(* The tables are those of the polynomial.                                   *)
ASSUME TablesArePolynomial ==
    \A byte \in 0 .. 255 : 256 * table_crc_lo[byte + 1] + table_crc_hi[byte + 1] = Divided(0, byte)

(* The loop over the tables divides a message as the polynomial does.        *)
ASSUME LoopIsDivision ==
    \A a, b \in {0, 1, 127, 128, 255} : crc16(<<a, b, a>>) = Reference(<<a, b, a>>)

(* No error of one or two bits passes.                                       *)
ASSUME TwoBitsDetected ==
    /\ Accepted(Sent)
    /\ \A m, n \in 0 .. 8 * Len(Sent) - 1 : m < n => ~Accepted(Turned(Turned(Sent, m), n))
    /\ \A m \in 0 .. 8 * Len(Sent) - 1 : ~Accepted(Turned(Sent, m))
=============================================================================
