------------------------------- MODULE Signals -------------------------------
(***************************************************************************)
(* The signal table of shared/setting.h and the two halves of the bit      *)
(* codec built on it: COMService::insert_helper of the desktop server      *)
(* packs a signal into the SBUFLEN-byte buffer, COMService::read of the    *)
(* desktop client unpacks it.  A buffer is a function from byte index to   *)
(* byte.  Shifts and masks are written as products, quotients and          *)
(* remainders by powers of two: on the two's complement integers of the    *)
(* code, x & (2^n - 1) is x % 2^n and x >> n is x \div 2^n.                *)
(***************************************************************************)
EXTENDS Integers

SBUFLEN == 3

\* The powers of two up to the width of the buffer.
Pow2(n) == << 1, 2, 4, 8, 16, 32, 64, 128, 256, 512, 1024, 2048, 4096, 8192,
              16384, 32768, 65536, 131072, 262144, 524288, 1048576, 2097152,
              4194304, 8388608, 16777216 >>[n + 1]

Byte == 0 .. 255

Buffer == [0 .. SBUFLEN - 1 -> Byte]

Slider == {"speed", "temperature", "battery_level"}

Light == {"left_light", "right_light"}

Signal == Slider \cup Light

\* The SIGNALS table: bit length, first bit, and the range of the value.
Info(s) ==
  CASE s = "speed"         -> [length |-> 8, start |-> 0,  min |-> 0,   max |-> 240]
    [] s = "temperature"   -> [length |-> 7, start |-> 8,  min |-> -60, max |-> 60]
    [] s = "battery_level" -> [length |-> 7, start |-> 15, min |-> 0,   max |-> 100]
    [] s = "left_light"    -> [length |-> 1, start |-> 22, min |-> 0,   max |-> 1]
    [] s = "right_light"   -> [length |-> 1, start |-> 23, min |-> 0,   max |-> 1]

ValueRange(s) == Info(s).min .. Info(s).max

-----------------------------------------------------------------------------
(* The server's half. *)

\* temp_buf, assembled from the bytes of the buffer, the first one lowest.
Word(buf) == buf[0] + buf[1] * Pow2(8) + buf[2] * Pow2(16)

\* BytesOf broken on purpose: the & 0xFF is missing.
BytesOfUnmasked(word) == [i \in 0 .. SBUFLEN - 1 |-> word \div Pow2(8 * i)]

\* The write-back of temp_buf into the bytes.
BytesOf(word) == [i \in 0 .. SBUFLEN - 1 |-> (word \div Pow2(8 * i)) % 256]

\* InsertWord broken on purpose: the mask that the value goes through is one
\* bit short.
InsertWordTruncated(word, s, val) ==
  LET lower == Pow2(Info(s).start)
      upper == Pow2(Info(s).start + Info(s).length)
  IN  (word \div upper) * upper
        + (val % Pow2(Info(s).length - 1)) * lower
        + (word % lower)

\* Clear the bits of s in a word and put the low bits of val in their place.
InsertWord(word, s, val) ==
  LET lower == Pow2(Info(s).start)
      upper == Pow2(Info(s).start + Info(s).length)
  IN  (word \div upper) * upper
        + (val % Pow2(Info(s).length)) * lower
        + (word % lower)

Insert(buf, s, val) == BytesOf(InsertWord(Word(buf), s, val))

-----------------------------------------------------------------------------
(* The client's half. *)

\* extract64: the bytes from byte_off to the end of the buffer.
Extract64(buf, byte_off) ==
  LET At(i) == IF i < SBUFLEN THEN buf[i] ELSE 0
  IN  At(byte_off) + At(byte_off + 1) * Pow2(8) + At(byte_off + 2) * Pow2(16)

\* SignExtend broken on purpose: the temperature is read as unsigned.
SignExtendNothing(bits, len) == bits

\* The sign extension of read<int8_t>.
SignExtend(bits, len) ==
  IF bits >= Pow2(len - 1) THEN bits - Pow2(len) ELSE bits

\* read<T>(start, length); only the temperature is read into a signed type.
Read(buf, s) ==
  LET bits == (Extract64(buf, Info(s).start \div 8) \div Pow2(Info(s).start % 8))
                % Pow2(Info(s).length)
  IN  IF s = "temperature" THEN SignExtend(bits, Info(s).length) ELSE bits

\* The buffer as both COMService constructors leave it.
ZeroBuffer == [i \in 0 .. SBUFLEN - 1 |-> 0]

=============================================================================
