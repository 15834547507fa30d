----------------------------- MODULE PanelProofs -----------------------------
(***************************************************************************)
(* The codec of Signals and the panel that uses it.                        *)
(*                                                                         *)
(* The codec theorem: after Insert(buf, s, val), reading s gives val back  *)
(* and reading any other signal gives what it gave before, for every       *)
(* buffer, every signal and every value of its range.  The argument goes   *)
(* through the 24-bit word both halves of the codec assemble: a field is a *)
(* quotient and a remainder of that word, and the linear facts about them  *)
(* are stated over plain integers with literal powers of two.              *)
(*                                                                         *)
(* Panel proved for every choice of SliderValues: types, the exclusion of  *)
(* the left and right boxes, that the buffer decodes to what the window    *)
(* shows, that a warning is never shown by accident, and that the buffer   *)
(* implements SignalStore.  The inductive invariant adds three things to   *)
(* what the runs check: which sliders the constructor has pushed so far,   *)
(* how far setLightSignals has got, and that before it started the buffer  *)
(* showed the boxes as they were one click ago.                            *)
(***************************************************************************)
EXTENDS Panel, TLAPS

IsWord(w) == w \in Int /\ 0 <= w /\ w <= 16777215

\* The bits of s in a word.
Field(w, s) == (w \div Pow2(Info(s).start)) % Pow2(Info(s).length)

\* What the client makes of the bits of s.
Decode(bits, s) ==
  IF s = "temperature" THEN SignExtend(bits, Info(s).length) ELSE bits

-----------------------------------------------------------------------------
(* The constants, as literals. *)

\* The powers of two the codec uses.
LEMMA Pow2Values ==
  /\ Pow2(0) = 1          /\ Pow2(1) = 2          /\ Pow2(6) = 64
  /\ Pow2(7) = 128        /\ Pow2(8) = 256        /\ Pow2(15) = 32768
  /\ Pow2(16) = 65536     /\ Pow2(22) = 4194304   /\ Pow2(23) = 8388608
  /\ Pow2(24) = 16777216
  BY SMT DEF Pow2

\* The rows of the signal table.
LEMMA InfoValues ==
  /\ Info("speed") = [length |-> 8, start |-> 0, min |-> 0, max |-> 240]
  /\ Info("temperature") = [length |-> 7, start |-> 8, min |-> -60, max |-> 60]
  /\ Info("battery_level") = [length |-> 7, start |-> 15, min |-> 0, max |-> 100]
  /\ Info("left_light") = [length |-> 1, start |-> 22, min |-> 0, max |-> 1]
  /\ Info("right_light") = [length |-> 1, start |-> 23, min |-> 0, max |-> 1]
  BY Zenon DEF Info

\* Where each signal sits in a word.
LEMMA InfoBits ==
  /\ Info("speed").start = 0          /\ Info("speed").length = 8
  /\ Info("temperature").start = 8    /\ Info("temperature").length = 7
  /\ Info("battery_level").start = 15 /\ Info("battery_level").length = 7
  /\ Info("left_light").start = 22    /\ Info("left_light").length = 1
  /\ Info("right_light").start = 23   /\ Info("right_light").length = 1
  BY InfoValues, SMT

-----------------------------------------------------------------------------
(* Words and buffers. *)

\* The bytes of a buffer make a word, and reading from a byte offset drops
\* the lower bytes of it.
LEMMA WordOfBuffer ==
  ASSUME NEW b \in Buffer
  PROVE  /\ IsWord(Word(b))
         /\ Extract64(b, 0) = Word(b)
         /\ Extract64(b, 1) = Word(b) \div 256
         /\ Extract64(b, 2) = Word(b) \div 65536
<1>1. /\ b[0] \in Int /\ 0 <= b[0] /\ b[0] <= 255
      /\ b[1] \in Int /\ 0 <= b[1] /\ b[1] <= 255
      /\ b[2] \in Int /\ 0 <= b[2] /\ b[2] <= 255
  BY SMT DEF Buffer, Byte, SBUFLEN
<1>2. Word(b) = b[0] + b[1] * 256 + b[2] * 65536
  BY Pow2Values, SMT DEF Word
<1>3. /\ Extract64(b, 0) = b[0] + b[1] * 256 + b[2] * 65536
      /\ Extract64(b, 1) = b[1] + b[2] * 256
      /\ Extract64(b, 2) = b[2]
  BY <1>1, Pow2Values, SMT DEF Extract64, SBUFLEN
<1>4. IsWord(Word(b))
  BY <1>1, <1>2, SMT DEF IsWord
<1>5. /\ b[1] + b[2] * 256 = Word(b) \div 256
      /\ b[2] = Word(b) \div 65536
  <2>. DEFINE b0 == b[0]  b1 == b[1]  b2 == b[2]
  <2>1. /\ b0 \in Int /\ 0 <= b0 /\ b0 <= 255
        /\ b1 \in Int /\ 0 <= b1 /\ b1 <= 255
        /\ b2 \in Int /\ 0 <= b2 /\ b2 <= 255
    BY <1>1
  <2>. HIDE DEF b0, b1, b2
  <2>2. /\ b1 + b2 * 256 = (b0 + b1 * 256 + b2 * 65536) \div 256
        /\ b2 = (b0 + b1 * 256 + b2 * 65536) \div 65536
    BY <2>1, SMT
  <2>3. QED
    BY <1>2, <2>2, SMT DEF b0, b1, b2
<1>6. QED
  BY <1>2, <1>3, <1>4, <1>5, SMT

\* Writing a word back into the bytes loses nothing.
LEMMA BytesInverse ==
  ASSUME NEW w, IsWord(w)
  PROVE  /\ BytesOf(w) \in Buffer
         /\ Word(BytesOf(w)) = w
<1>1. /\ BytesOf(w)[0] = (w \div 1) % 256
      /\ BytesOf(w)[1] = (w \div 256) % 256
      /\ BytesOf(w)[2] = (w \div 65536) % 256
  BY Pow2Values, SMT DEF BytesOf, SBUFLEN
<1>2. BytesOf(w) \in Buffer
  <2>1. \A i \in 0 .. 2 : Pow2(8 * i) \in {1, 256, 65536}
    BY Pow2Values, SMT
  <2>2. \A i \in 0 .. 2 : (w \div Pow2(8 * i)) % 256 \in 0 .. 255
    BY <2>1, SMT DEF IsWord
  <2>3. QED
    BY <2>2, SMT DEF BytesOf, Buffer, Byte, SBUFLEN
<1>3. Word(BytesOf(w)) =
        ((w \div 1) % 256) + ((w \div 256) % 256) * 256
          + ((w \div 65536) % 256) * 65536
  BY <1>1, Pow2Values, SMT DEF Word
<1>4. w = ((w \div 1) % 256) + ((w \div 256) % 256) * 256
            + ((w \div 65536) % 256) * 65536
  BY SMT DEF IsWord
<1>5. QED
  BY <1>2, <1>3, <1>4, SMT

-----------------------------------------------------------------------------
(* Inserting a field. *)

\* InsertWord puts the low bits of val in the field of s and leaves every
\* other field as it was; the cases differ only in their powers of two.
LEMMA InsertFields ==
  ASSUME NEW w, IsWord(w), NEW s \in Signal, NEW val \in Int
  PROVE  /\ IsWord(InsertWord(w, s, val))
         /\ Field(InsertWord(w, s, val), s) = val % Pow2(Info(s).length)
         /\ \A t \in Signal \ {s} : Field(InsertWord(w, s, val), t) = Field(w, t)
<1>. DEFINE x == InsertWord(w, s, val)
<1>0. w \in Int /\ 0 <= w /\ w <= 16777215
  BY DEF IsWord
<1>a. /\ Field(w, "speed") = (w \div 1) % 256
      /\ Field(w, "temperature") = (w \div 256) % 128
      /\ Field(w, "battery_level") = (w \div 32768) % 128
      /\ Field(w, "left_light") = (w \div 4194304) % 2
      /\ Field(w, "right_light") = (w \div 8388608) % 2
  BY <1>0, InfoBits, Pow2Values, SMT DEF Field
<1>1. CASE s = "speed"
  <2>. DEFINE v == val % 256
  <2>1. x = (w \div 256) * 256 + v * 1 + (w % 1)
    BY <1>1, InfoBits, Pow2Values, SMT DEF InsertWord
  <2>2. v \in Int /\ 0 <= v /\ v <= 255
    BY SMT
  <2>. HIDE DEF x, v
  <2>3. /\ x \in Int /\ 0 <= x /\ x <= 16777215
        /\ (x \div 1) % 256 = v
        /\ (x \div 256) % 128 = (w \div 256) % 128
        /\ (x \div 32768) % 128 = (w \div 32768) % 128
        /\ (x \div 4194304) % 2 = (w \div 4194304) % 2
        /\ (x \div 8388608) % 2 = (w \div 8388608) % 2
    BY <1>0, <2>1, <2>2, SMT
  <2>a. /\ Field(x, "speed") = (x \div 1) % 256
        /\ Field(x, "temperature") = (x \div 256) % 128
        /\ Field(x, "battery_level") = (x \div 32768) % 128
        /\ Field(x, "left_light") = (x \div 4194304) % 2
        /\ Field(x, "right_light") = (x \div 8388608) % 2
    BY <2>3, InfoBits, Pow2Values, SMT DEF Field
  <2>4. Field(x, "speed") = v
    BY <2>3, <2>a, SMT
  <2>5. Field(x, "temperature") = Field(w, "temperature")
    BY <1>a, <2>3, <2>a, SMT
  <2>6. Field(x, "battery_level") = Field(w, "battery_level")
    BY <1>a, <2>3, <2>a, SMT
  <2>7. Field(x, "left_light") = Field(w, "left_light")
    BY <1>a, <2>3, <2>a, SMT
  <2>8. Field(x, "right_light") = Field(w, "right_light")
    BY <1>a, <2>3, <2>a, SMT
  <2>9. IsWord(x)
    BY <2>3 DEF IsWord
  <2>10. v = val % Pow2(Info(s).length)
    BY <1>1, InfoBits, Pow2Values, SMT DEF v
  <2>11. \A t \in Signal \ {s} : Field(x, t) = Field(w, t)
    BY <1>1, <2>5, <2>6, <2>7, <2>8, Zenon DEF Signal, Slider, Light
  <2>12. QED
    BY <1>1, <2>4, <2>9, <2>10, <2>11, Zenon DEF x
<1>2. CASE s = "temperature"
  <2>. DEFINE v == val % 128
  <2>1. x = (w \div 32768) * 32768 + v * 256 + (w % 256)
    BY <1>2, InfoBits, Pow2Values, SMT DEF InsertWord
  <2>2. v \in Int /\ 0 <= v /\ v <= 127
    BY SMT
  <2>. HIDE DEF x, v
  <2>3. /\ x \in Int /\ 0 <= x /\ x <= 16777215
        /\ (x \div 256) % 128 = v
        /\ (x \div 1) % 256 = (w \div 1) % 256
        /\ (x \div 32768) % 128 = (w \div 32768) % 128
        /\ (x \div 4194304) % 2 = (w \div 4194304) % 2
        /\ (x \div 8388608) % 2 = (w \div 8388608) % 2
    BY <1>0, <2>1, <2>2, SMT
  <2>a. /\ Field(x, "speed") = (x \div 1) % 256
        /\ Field(x, "temperature") = (x \div 256) % 128
        /\ Field(x, "battery_level") = (x \div 32768) % 128
        /\ Field(x, "left_light") = (x \div 4194304) % 2
        /\ Field(x, "right_light") = (x \div 8388608) % 2
    BY <2>3, InfoBits, Pow2Values, SMT DEF Field
  <2>4. Field(x, "temperature") = v
    BY <2>3, <2>a, SMT
  <2>5. Field(x, "speed") = Field(w, "speed")
    BY <1>a, <2>3, <2>a, SMT
  <2>6. Field(x, "battery_level") = Field(w, "battery_level")
    BY <1>a, <2>3, <2>a, SMT
  <2>7. Field(x, "left_light") = Field(w, "left_light")
    BY <1>a, <2>3, <2>a, SMT
  <2>8. Field(x, "right_light") = Field(w, "right_light")
    BY <1>a, <2>3, <2>a, SMT
  <2>9. IsWord(x)
    BY <2>3 DEF IsWord
  <2>10. v = val % Pow2(Info(s).length)
    BY <1>2, InfoBits, Pow2Values, SMT DEF v
  <2>11. \A t \in Signal \ {s} : Field(x, t) = Field(w, t)
    BY <1>2, <2>5, <2>6, <2>7, <2>8, Zenon DEF Signal, Slider, Light
  <2>12. QED
    BY <1>2, <2>4, <2>9, <2>10, <2>11, Zenon DEF x
<1>3. CASE s = "battery_level"
  <2>. DEFINE v == val % 128
  <2>1. x = (w \div 4194304) * 4194304 + v * 32768 + (w % 32768)
    BY <1>3, InfoBits, Pow2Values, SMT DEF InsertWord
  <2>2. v \in Int /\ 0 <= v /\ v <= 127
    BY SMT
  <2>. HIDE DEF x, v
  <2>3. /\ x \in Int /\ 0 <= x /\ x <= 16777215
        /\ (x \div 32768) % 128 = v
        /\ (x \div 1) % 256 = (w \div 1) % 256
        /\ (x \div 256) % 128 = (w \div 256) % 128
        /\ (x \div 4194304) % 2 = (w \div 4194304) % 2
        /\ (x \div 8388608) % 2 = (w \div 8388608) % 2
    BY <1>0, <2>1, <2>2, SMT
  <2>a. /\ Field(x, "speed") = (x \div 1) % 256
        /\ Field(x, "temperature") = (x \div 256) % 128
        /\ Field(x, "battery_level") = (x \div 32768) % 128
        /\ Field(x, "left_light") = (x \div 4194304) % 2
        /\ Field(x, "right_light") = (x \div 8388608) % 2
    BY <2>3, InfoBits, Pow2Values, SMT DEF Field
  <2>4. Field(x, "battery_level") = v
    BY <2>3, <2>a, SMT
  <2>5. Field(x, "speed") = Field(w, "speed")
    BY <1>a, <2>3, <2>a, SMT
  <2>6. Field(x, "temperature") = Field(w, "temperature")
    BY <1>a, <2>3, <2>a, SMT
  <2>7. Field(x, "left_light") = Field(w, "left_light")
    BY <1>a, <2>3, <2>a, SMT
  <2>8. Field(x, "right_light") = Field(w, "right_light")
    BY <1>a, <2>3, <2>a, SMT
  <2>9. IsWord(x)
    BY <2>3 DEF IsWord
  <2>10. v = val % Pow2(Info(s).length)
    BY <1>3, InfoBits, Pow2Values, SMT DEF v
  <2>11. \A t \in Signal \ {s} : Field(x, t) = Field(w, t)
    BY <1>3, <2>5, <2>6, <2>7, <2>8, Zenon DEF Signal, Slider, Light
  <2>12. QED
    BY <1>3, <2>4, <2>9, <2>10, <2>11, Zenon DEF x
<1>4. CASE s = "left_light"
  <2>. DEFINE v == val % 2
  <2>1. x = (w \div 8388608) * 8388608 + v * 4194304 + (w % 4194304)
    BY <1>4, InfoBits, Pow2Values, SMT DEF InsertWord
  <2>2. v \in Int /\ 0 <= v /\ v <= 1
    BY SMT
  <2>. HIDE DEF x, v
  <2>3. /\ x \in Int /\ 0 <= x /\ x <= 16777215
        /\ (x \div 4194304) % 2 = v
        /\ (x \div 1) % 256 = (w \div 1) % 256
        /\ (x \div 256) % 128 = (w \div 256) % 128
        /\ (x \div 32768) % 128 = (w \div 32768) % 128
        /\ (x \div 8388608) % 2 = (w \div 8388608) % 2
    BY <1>0, <2>1, <2>2, SMT
  <2>a. /\ Field(x, "speed") = (x \div 1) % 256
        /\ Field(x, "temperature") = (x \div 256) % 128
        /\ Field(x, "battery_level") = (x \div 32768) % 128
        /\ Field(x, "left_light") = (x \div 4194304) % 2
        /\ Field(x, "right_light") = (x \div 8388608) % 2
    BY <2>3, InfoBits, Pow2Values, SMT DEF Field
  <2>4. Field(x, "left_light") = v
    BY <2>3, <2>a, SMT
  <2>5. Field(x, "speed") = Field(w, "speed")
    BY <1>a, <2>3, <2>a, SMT
  <2>6. Field(x, "temperature") = Field(w, "temperature")
    BY <1>a, <2>3, <2>a, SMT
  <2>7. Field(x, "battery_level") = Field(w, "battery_level")
    BY <1>a, <2>3, <2>a, SMT
  <2>8. Field(x, "right_light") = Field(w, "right_light")
    BY <1>a, <2>3, <2>a, SMT
  <2>9. IsWord(x)
    BY <2>3 DEF IsWord
  <2>10. v = val % Pow2(Info(s).length)
    BY <1>4, InfoBits, Pow2Values, SMT DEF v
  <2>11. \A t \in Signal \ {s} : Field(x, t) = Field(w, t)
    BY <1>4, <2>5, <2>6, <2>7, <2>8, Zenon DEF Signal, Slider, Light
  <2>12. QED
    BY <1>4, <2>4, <2>9, <2>10, <2>11, Zenon DEF x
<1>5. CASE s = "right_light"
  <2>. DEFINE v == val % 2
  <2>1. x = (w \div 16777216) * 16777216 + v * 8388608 + (w % 8388608)
    BY <1>5, InfoBits, Pow2Values, SMT DEF InsertWord
  <2>2. v \in Int /\ 0 <= v /\ v <= 1
    BY SMT
  <2>. HIDE DEF x, v
  <2>3. /\ x \in Int /\ 0 <= x /\ x <= 16777215
        /\ (x \div 8388608) % 2 = v
        /\ (x \div 1) % 256 = (w \div 1) % 256
        /\ (x \div 256) % 128 = (w \div 256) % 128
        /\ (x \div 32768) % 128 = (w \div 32768) % 128
        /\ (x \div 4194304) % 2 = (w \div 4194304) % 2
    BY <1>0, <2>1, <2>2, SMT
  <2>a. /\ Field(x, "speed") = (x \div 1) % 256
        /\ Field(x, "temperature") = (x \div 256) % 128
        /\ Field(x, "battery_level") = (x \div 32768) % 128
        /\ Field(x, "left_light") = (x \div 4194304) % 2
        /\ Field(x, "right_light") = (x \div 8388608) % 2
    BY <2>3, InfoBits, Pow2Values, SMT DEF Field
  <2>4. Field(x, "right_light") = v
    BY <2>3, <2>a, SMT
  <2>5. Field(x, "speed") = Field(w, "speed")
    BY <1>a, <2>3, <2>a, SMT
  <2>6. Field(x, "temperature") = Field(w, "temperature")
    BY <1>a, <2>3, <2>a, SMT
  <2>7. Field(x, "battery_level") = Field(w, "battery_level")
    BY <1>a, <2>3, <2>a, SMT
  <2>8. Field(x, "left_light") = Field(w, "left_light")
    BY <1>a, <2>3, <2>a, SMT
  <2>9. IsWord(x)
    BY <2>3 DEF IsWord
  <2>10. v = val % Pow2(Info(s).length)
    BY <1>5, InfoBits, Pow2Values, SMT DEF v
  <2>11. \A t \in Signal \ {s} : Field(x, t) = Field(w, t)
    BY <1>5, <2>5, <2>6, <2>7, <2>8, Zenon DEF Signal, Slider, Light
  <2>12. QED
    BY <1>5, <2>4, <2>9, <2>10, <2>11, Zenon DEF x
<1>6. QED
  BY <1>1, <1>2, <1>3, <1>4, <1>5, Zenon DEF Signal, Slider, Light

-----------------------------------------------------------------------------
(* Reading a field. *)

\* What the client reads is the decoded field of the server's word.
LEMMA ReadIsField ==
  ASSUME NEW b \in Buffer, NEW s \in Signal
  PROVE  Read(b, s) = Decode(Field(Word(b), s), s)
<1>. DEFINE w == Word(b)
<1>1. /\ w \in Int /\ 0 <= w /\ w <= 16777215
      /\ Extract64(b, 0) = w
      /\ Extract64(b, 1) = w \div 256
      /\ Extract64(b, 2) = w \div 65536
  BY WordOfBuffer, SMT DEF IsWord
<1>. HIDE DEF w
<1>. DEFINE bits == (Extract64(b, Info(s).start \div 8) \div Pow2(Info(s).start % 8))
                      % Pow2(Info(s).length)
<1>. SUFFICES bits = Field(w, s)
  BY Zenon DEF Read, Decode, w
<1>. HIDE DEF bits
<1>2. CASE s = "speed"
  <2>1. bits = (w \div 1) % 256 /\ Field(w, s) = (w \div 1) % 256
    BY <1>1, <1>2, InfoBits, Pow2Values, SMT DEF Field, bits
  <2>2. QED
    BY <2>1, SMT
<1>3. CASE s = "temperature"
  <2>1. bits = ((w \div 256) \div 1) % 128 /\ Field(w, s) = (w \div 256) % 128
    BY <1>1, <1>3, InfoBits, Pow2Values, SMT DEF Field, bits
  <2>2. QED
    BY <1>1, <2>1, SMT
<1>4. CASE s = "battery_level"
  <2>1. bits = ((w \div 256) \div 128) % 128 /\ Field(w, s) = (w \div 32768) % 128
    BY <1>1, <1>4, InfoBits, Pow2Values, SMT DEF Field, bits
  <2>2. QED
    BY <1>1, <2>1, SMT
<1>5. CASE s = "left_light"
  <2>1. bits = ((w \div 65536) \div 64) % 2 /\ Field(w, s) = (w \div 4194304) % 2
    BY <1>1, <1>5, InfoBits, Pow2Values, SMT DEF Field, bits
  <2>2. QED
    BY <1>1, <2>1, SMT
<1>6. CASE s = "right_light"
  <2>1. bits = ((w \div 65536) \div 128) % 2 /\ Field(w, s) = (w \div 8388608) % 2
    BY <1>1, <1>6, InfoBits, Pow2Values, SMT DEF Field, bits
  <2>2. QED
    BY <1>1, <2>1, SMT
<1>7. QED
  BY <1>2, <1>3, <1>4, <1>5, <1>6, Zenon DEF Signal, Slider, Light

\* The width of each signal holds every value of its range: decoding the low
\* bits of a value gives the value, the sign of a temperature included.
LEMMA DecodeInverse ==
  ASSUME NEW s \in Signal, NEW val \in ValueRange(s)
  PROVE  val \in Int /\ Decode(val % Pow2(Info(s).length), s) = val
  BY InfoValues, Pow2Values, SMT
     DEF Decode, SignExtend, ValueRange, Signal, Slider, Light

\* The codec theorem (insert_helper and read, shared/setting.h's table).
THEOREM InsertRead ==
  ASSUME NEW buf \in Buffer, NEW s \in Signal, NEW val \in ValueRange(s)
  PROVE  /\ Insert(buf, s, val) \in Buffer
         /\ Read(Insert(buf, s, val), s) = val
         /\ \A t \in Signal \ {s} : Read(Insert(buf, s, val), t) = Read(buf, t)
<1>. DEFINE w == Word(buf)
            x == InsertWord(w, s, val)
<1>1. IsWord(w)
  BY WordOfBuffer
<1>2. val \in Int
  BY DecodeInverse
<1>3. /\ IsWord(x)
      /\ Field(x, s) = val % Pow2(Info(s).length)
      /\ \A t \in Signal \ {s} : Field(x, t) = Field(w, t)
  BY <1>1, <1>2, InsertFields
<1>4. Insert(buf, s, val) \in Buffer /\ Word(Insert(buf, s, val)) = x
  BY <1>3, BytesInverse DEF Insert
<1>5. Read(Insert(buf, s, val), s) = val
  BY <1>3, <1>4, ReadIsField, DecodeInverse
<1>6. ASSUME NEW t \in Signal \ {s}
      PROVE  Read(Insert(buf, s, val), t) = Read(buf, t)
  BY <1>3, <1>4, <1>6, ReadIsField
<1>7. QED
  BY <1>4, <1>5, <1>6

-----------------------------------------------------------------------------
(* The panel. *)

\* The sliders whose minimum the constructor has already pushed at g.
Pushed(g) ==
  CASE g = "initBattery"     -> {}
    [] g = "initTemperature" -> {"battery_level"}
    [] g = "initSpeed"       -> {"battery_level", "temperature"}
    [] OTHER                 -> Slider

SlidersInv ==
  /\ \A s \in Pushed(gui) : Read(m_buf, s) = slider[s]
  /\ Constructing => slider = [s \in Slider |-> Info(s).min]

BoxesInv ==
  /\ enabled["right"] = ~checked["left"]
  /\ enabled["left"] = ~checked["right"]
  /\ ~(checked["left"] /\ checked["right"])
  /\ Constructing => checked = [b \in Box |-> FALSE]

LeftLit == Read(m_buf, "left_light")
RightLit == Read(m_buf, "right_light")

\* One click before c, the buffer showed the boxes.
OneClickAgo(c) ==
  \E b \in Box, v \in BOOLEAN :
    LET old == [c EXCEPT ![b] = v]
    IN  << LeftLit, RightLit >> = LightsOf(old) /\ ~(old["left"] /\ old["right"])

LightsInv ==
  /\ Constructing => LeftLit = 0 /\ RightLit = 0
  /\ gui \in {"insertLeft", "insertRight"} => lights = LightsOf(checked)
  /\ gui = "insertLeft" => OneClickAgo(checked)
  /\ gui = "insertRight" => LeftLit = lights[1]
  /\ gui = "idle" => << LeftLit, RightLit >> = LightsOf(checked)

IInv == TypeOK /\ SlidersInv /\ BoxesInv /\ LightsInv

-----------------------------------------------------------------------------

\* What one critical section of insert_helper does to the decoded signals.
LEMMA InsertStep ==
  ASSUME m_buf \in Buffer, NEW s \in Signal, NEW val \in ValueRange(s),
         InsertHelper(s, val)
  PROVE  /\ m_buf' \in Buffer
         /\ Read(m_buf', s) = val
         /\ \A t \in Signal \ {s} : Read(m_buf', t) = Read(m_buf, t)
  BY InsertRead DEF InsertHelper

\* The ranges the panel pushes values from.
LEMMA Ranges ==
  /\ \A s \in Slider : Info(s).min \in ValueRange(s) /\ ValueRange(s) \subseteq Int
  /\ ValueRange("left_light") = {0, 1}
  /\ ValueRange("right_light") = {0, 1}
  /\ Slider \subseteq Signal /\ "left_light" \in Signal /\ "right_light" \in Signal
  /\ "left_light" \notin Slider /\ "right_light" \notin Slider
<1>1. \A s \in Slider : Info(s).min \in ValueRange(s) /\ ValueRange(s) \subseteq Int
  BY InfoValues, SMT DEF Slider, ValueRange
<1>2. ValueRange("left_light") = {0, 1} /\ ValueRange("right_light") = {0, 1}
  BY InfoValues, SMT DEF ValueRange
<1>3. QED
  BY <1>1, <1>2, Zenon DEF Signal, Slider, Light

\* The zero buffer reads as zero everywhere.
LEMMA ZeroReads ==
  /\ ZeroBuffer \in Buffer
  /\ Read(ZeroBuffer, "left_light") = 0
  /\ Read(ZeroBuffer, "right_light") = 0
<1>1. ZeroBuffer \in Buffer
  BY SMT DEF ZeroBuffer, Buffer, Byte, SBUFLEN
<1>2. Extract64(ZeroBuffer, 2) = 0
  BY Pow2Values, SMT DEF Extract64, ZeroBuffer, SBUFLEN
<1>3. QED
  BY <1>1, <1>2, InfoBits, Pow2Values, SMT DEF Read

LEMMA ZeroReadsAll == \A s \in Signal : Read(ZeroBuffer, s) = 0
<1>1. \A n \in {0, 1, 2} : Extract64(ZeroBuffer, n) = 0
  BY Pow2Values, SMT DEF Extract64, ZeroBuffer, SBUFLEN
<1>2. QED
  BY <1>1, InfoBits, Pow2Values, SMT DEF Read, SignExtend, Signal, Slider, Light

LEMMA LightsOfType ==
  ASSUME NEW c \in [Box -> BOOLEAN]
  PROVE  LightsOf(c) \in {0, 1} \X {0, 1}
  BY DEF LightsOf, Bit, Box

LEMMA InitIInv == Init => IInv
<1>. SUFFICES ASSUME Init PROVE IInv
  OBVIOUS
<1>1. TypeOK
  BY Ranges, ZeroReads, SMT DEF Init, TypeOK, GuiState
<1>2. SlidersInv
  BY Zenon DEF Init, SlidersInv, Pushed
<1>3. BoxesInv
  BY DEF Init, BoxesInv, Box
<1>4. LightsInv
  BY ZeroReads, Zenon DEF Init, LightsInv, LeftLit, RightLit
<1>5. QED
  BY <1>1, <1>2, <1>3, <1>4 DEF IInv

-----------------------------------------------------------------------------
(* The invariant is preserved. *)

LEMMA PushedValues ==
  /\ Pushed("initBattery") = {}
  /\ Pushed("initTemperature") = {"battery_level"}
  /\ Pushed("initSpeed") = {"battery_level", "temperature"}
  /\ \A g \in GuiState \ {"initBattery", "initTemperature", "initSpeed"} :
       Pushed(g) = Slider
  /\ \A g : Pushed(g) \subseteq Slider
  BY Zenon DEF Pushed, GuiState, Slider

\* A step of the constructor that pushes the minimum of s.
LEMMA SetupSliderStep ==
  ASSUME IInv, NEW s \in Slider, NEW from \in GuiState, NEW to \in GuiState,
         from \in {"initBattery", "initTemperature", "initSpeed"},
         to \in {"initTemperature", "initSpeed", "initLights"},
         Pushed(to) = Pushed(from) \cup {s},
         SetupSlider(s, from, to)
  PROVE  IInv'
<1>1. /\ gui = from /\ gui' = to
      /\ UNCHANGED << slider, checked, enabled, lights >>
      /\ m_buf \in Buffer
      /\ InsertHelper(s, Info(s).min)
  BY DEF SetupSlider, IInv, TypeOK
<1>2. /\ m_buf' \in Buffer
      /\ Read(m_buf', s) = Info(s).min
      /\ \A t \in Signal \ {s} : Read(m_buf', t) = Read(m_buf, t)
  BY <1>1, InsertStep, Ranges
<1>3. Constructing /\ Constructing'
  BY <1>1 DEF Constructing
<1>4. TypeOK'
  BY <1>1, <1>2 DEF IInv, TypeOK
<1>5. SlidersInv'
  <2>1. slider = [t \in Slider |-> Info(t).min] /\ \A t \in Pushed(from) : Read(m_buf, t) = slider[t]
    BY <1>1, <1>3 DEF IInv, SlidersInv
  <2>2. \A t \in Pushed(to) : Read(m_buf', t) = slider[t]
    BY <1>2, <2>1, PushedValues, Ranges
  <2>3. QED
    BY <1>1, <2>1, <2>2 DEF SlidersInv
<1>6. BoxesInv'
  BY <1>1, <1>3 DEF IInv, BoxesInv
<1>7. LightsInv'
  BY <1>1, <1>2, <1>3, Ranges DEF IInv, LightsInv, LeftLit, RightLit
<1>8. QED
  BY <1>4, <1>5, <1>6, <1>7 DEF IInv

LEMMA ConstructorStep == ASSUME IInv, Constructor PROVE IInv'
<1>1. CASE SetupSlider("battery_level", "initBattery", "initTemperature")
  BY <1>1, PushedValues, SetupSliderStep DEF GuiState, Slider
<1>2. CASE SetupSlider("temperature", "initTemperature", "initSpeed")
  BY <1>2, PushedValues, SetupSliderStep DEF GuiState, Slider
<1>3. CASE SetupSlider("speed", "initSpeed", "initLights")
  <2>1. Pushed("initLights") = Pushed("initSpeed") \cup {"speed"}
    BY PushedValues DEF GuiState, Slider
  <2>2. QED
    BY <1>3, <2>1, SetupSliderStep DEF GuiState, Slider
<1>4. CASE InitLights
  <2>1. /\ gui = "initLights" /\ gui' = "insertLeft"
        /\ lights' = LightsOf(checked)
        /\ UNCHANGED << slider, checked, enabled, m_buf >>
    BY <1>4 DEF InitLights
  <2>2. TypeOK'
    BY <2>1, LightsOfType DEF IInv, TypeOK, GuiState
  <2>3. SlidersInv'
    <3>1. Pushed(gui) = Slider /\ Pushed(gui') = Slider
      BY <2>1, PushedValues DEF GuiState
    <3>2. ~Constructing'
      BY <2>1 DEF Constructing
    <3>3. QED
      BY <2>1, <3>1, <3>2 DEF IInv, SlidersInv
  <2>4. BoxesInv'
    BY <2>1 DEF IInv, BoxesInv, Constructing
  <2>5. checked = [b \in Box |-> FALSE] /\ LeftLit = 0 /\ RightLit = 0
    BY <2>1 DEF IInv, BoxesInv, LightsInv, Constructing
  <2>6. OneClickAgo(checked)
    BY <2>5, Zenon DEF OneClickAgo, LightsOf, Bit, Box
  <2>7. LightsInv'
    BY <2>1, <2>6 DEF LightsInv, OneClickAgo, LeftLit, RightLit, Constructing
  <2>8. QED
    BY <2>2, <2>3, <2>4, <2>7 DEF IInv
<1>5. QED
  BY <1>1, <1>2, <1>3, <1>4 DEF Constructor

LEMMA MoveSliderStep ==
  ASSUME IInv, NEW s \in Slider, NEW val \in ValueRange(s), MoveSlider(s, val)
  PROVE  IInv'
<1>1. /\ gui = "idle" /\ gui' = "idle"
      /\ slider' = [slider EXCEPT ![s] = val]
      /\ UNCHANGED << checked, enabled, lights >>
      /\ m_buf \in Buffer
      /\ InsertHelper(s, val)
  BY DEF MoveSlider, IInv, TypeOK
<1>2. /\ m_buf' \in Buffer
      /\ Read(m_buf', s) = val
      /\ \A t \in Signal \ {s} : Read(m_buf', t) = Read(m_buf, t)
  BY <1>1, InsertStep, Ranges
<1>3. TypeOK'
  BY <1>1, <1>2, Ranges DEF IInv, TypeOK
<1>4. SlidersInv'
  <2>1. Pushed(gui) = Slider /\ Pushed(gui') = Slider /\ ~Constructing'
    BY <1>1, PushedValues DEF GuiState, Constructing
  <2>2. \A t \in Slider : Read(m_buf', t) = slider'[t]
    BY <1>1, <1>2, <2>1, Ranges DEF IInv, SlidersInv, TypeOK
  <2>3. QED
    BY <2>1, <2>2 DEF SlidersInv
<1>5. BoxesInv'
  BY <1>1 DEF IInv, BoxesInv, Constructing
<1>6. LightsInv'
  BY <1>1, <1>2, Ranges DEF IInv, LightsInv, LeftLit, RightLit, Constructing
<1>7. QED
  BY <1>3, <1>4, <1>5, <1>6 DEF IInv

LEMMA ToggleBoxStep ==
  ASSUME IInv, NEW b \in Box, ToggleBox(b)
  PROVE  IInv'
<1>1. /\ gui = "idle" /\ gui' = "insertLeft"
      /\ enabled[b]
      /\ checked' = [checked EXCEPT ![b] = ~checked[b]]
      /\ enabled' = EnabledAfter(b, ~checked[b])
      /\ lights' = LightsOf(checked')
      /\ UNCHANGED << slider, m_buf >>
  BY DEF ToggleBox
<1>2. /\ checked \in [Box -> BOOLEAN] /\ enabled \in [Box -> BOOLEAN]
      /\ checked' \in [Box -> BOOLEAN]
  BY <1>1 DEF IInv, TypeOK
<1>3. /\ b = "left" => enabled' = [enabled EXCEPT !["right"] = checked["left"]]
      /\ b = "right" => enabled' = [enabled EXCEPT !["left"] = checked["right"]]
      /\ b = "warning" => enabled' = enabled
  BY <1>1, <1>2, Zenon DEF EnabledAfter, Box
<1>4. TypeOK'
  <2>1. enabled' \in [Box -> BOOLEAN]
    BY <1>2, <1>3 DEF Box
  <2>2. QED
    BY <1>1, <1>2, <2>1, LightsOfType DEF IInv, TypeOK, GuiState
<1>5. SlidersInv'
  <2>1. Pushed(gui) = Slider /\ Pushed(gui') = Slider /\ ~Constructing'
    BY <1>1, PushedValues DEF GuiState, Constructing
  <2>2. QED
    BY <1>1, <2>1 DEF IInv, SlidersInv
<1>6. BoxesInv'
  BY <1>1, <1>2, <1>3 DEF IInv, BoxesInv, Constructing, Box
<1>7. LightsInv'
  <2>1. << LeftLit, RightLit >> = LightsOf(checked) /\ ~(checked["left"] /\ checked["right"])
    BY <1>1 DEF IInv, LightsInv, BoxesInv
  <2>2. checked = [checked' EXCEPT ![b] = checked[b]]
    BY <1>1, <1>2
  <2>3. OneClickAgo(checked')
    BY <1>2, <2>1, <2>2 DEF OneClickAgo
  <2>4. QED
    BY <1>1, <2>3 DEF LightsInv, OneClickAgo, LeftLit, RightLit, Constructing
<1>8. QED
  BY <1>4, <1>5, <1>6, <1>7 DEF IInv

\* Either half of setLightSignals changes one light and nothing else.
LEMMA LightStep ==
  ASSUME IInv, NEW t \in Light, NEW v \in {0, 1}, InsertHelper(t, v)
  PROVE  /\ m_buf' \in Buffer
         /\ Read(m_buf', t) = v
         /\ \A u \in Signal \ {t} : Read(m_buf', u) = Read(m_buf, u)
<1>1. v \in ValueRange(t) /\ t \in Signal
  BY Ranges, Zenon DEF Light
<1>2. m_buf \in Buffer
  BY DEF IInv, TypeOK
<1>3. QED
  BY <1>1, <1>2, InsertStep

LEMMA SetLightStep ==
  ASSUME IInv, SetLeftLight \/ SetRightLight
  PROVE  /\ TypeOK' /\ SlidersInv' /\ BoxesInv'
         /\ SetLeftLight => /\ Read(m_buf', "left_light") = lights[1]
                            /\ Read(m_buf', "right_light") = RightLit
         /\ SetRightLight => /\ Read(m_buf', "right_light") = lights[2]
                             /\ Read(m_buf', "left_light") = LeftLit
<1>1. PICK t \in Light, v \in {0, 1} :
        /\ InsertHelper(t, v)
        /\ UNCHANGED << slider, checked, enabled, lights >>
        /\ gui \in {"insertLeft", "insertRight"}
        /\ gui' \in {"insertRight", "idle"}
        /\ SetLeftLight => t = "left_light" /\ v = lights[1]
        /\ SetRightLight => t = "right_light" /\ v = lights[2]
  <2>1. lights[1] \in {0, 1} /\ lights[2] \in {0, 1}
    BY DEF IInv, TypeOK
  <2>2. ~(SetLeftLight /\ SetRightLight)
    BY DEF SetLeftLight, SetRightLight
  <2>3. QED
    BY <2>1, <2>2 DEF SetLeftLight, SetRightLight, Light
<1>2. /\ m_buf' \in Buffer
      /\ Read(m_buf', t) = v
      /\ \A u \in Signal \ {t} : Read(m_buf', u) = Read(m_buf, u)
  BY <1>1, LightStep
<1>3. TypeOK'
  BY <1>1, <1>2 DEF IInv, TypeOK, GuiState
<1>4. SlidersInv'
  <2>1. Pushed(gui) = Slider /\ Pushed(gui') = Slider /\ ~Constructing'
    BY <1>1, PushedValues DEF GuiState, Constructing
  <2>2. QED
    BY <1>1, <1>2, <2>1, Ranges DEF IInv, SlidersInv, Light
<1>5. BoxesInv'
  BY <1>1 DEF IInv, BoxesInv, Constructing
<1>6. QED
  BY <1>1, <1>2, <1>3, <1>4, <1>5, Ranges DEF LeftLit, RightLit

LEMMA SetLeftLightStep == ASSUME IInv, SetLeftLight PROVE IInv'
<1>1. /\ gui = "insertLeft" /\ gui' = "insertRight"
      /\ UNCHANGED << checked, lights >>
      /\ Read(m_buf', "left_light") = lights[1]
  BY SetLightStep DEF SetLeftLight
<1>2. LightsInv'
  BY <1>1 DEF IInv, LightsInv, LeftLit, RightLit, Constructing
<1>3. QED
  BY <1>2, SetLightStep DEF IInv

LEMMA SetRightLightStep == ASSUME IInv, SetRightLight PROVE IInv'
<1>1. /\ gui = "insertRight" /\ gui' = "idle"
      /\ UNCHANGED << checked, lights >>
      /\ Read(m_buf', "right_light") = lights[2]
      /\ Read(m_buf', "left_light") = lights[1]
  BY SetLightStep DEF SetRightLight, IInv, LightsInv
<1>2. lights = LightsOf(checked) /\ lights = << lights[1], lights[2] >>
  BY <1>1 DEF IInv, LightsInv, TypeOK
<1>3. LightsInv'
  BY <1>1, <1>2 DEF LightsInv, LeftLit, RightLit, Constructing
<1>4. QED
  BY <1>3, SetLightStep DEF IInv

LEMMA NextIInv == IInv /\ [Next]_vars => IInv'
<1>. SUFFICES ASSUME IInv, [Next]_vars PROVE IInv'
  OBVIOUS
<1>1. CASE Constructor
  BY <1>1, ConstructorStep
<1>2. ASSUME NEW s \in Slider, NEW val \in SliderValues[s], MoveSlider(s, val)
      PROVE  IInv'
  BY <1>2, SliderAssumption, MoveSliderStep
<1>3. ASSUME NEW b \in Box, ToggleBox(b)
      PROVE  IInv'
  BY <1>3, ToggleBoxStep
<1>4. CASE SetLeftLight
  BY <1>4, SetLeftLightStep
<1>5. CASE SetRightLight
  BY <1>5, SetRightLightStep
<1>6. CASE UNCHANGED vars
  BY <1>6 DEF vars, IInv, TypeOK, SlidersInv, BoxesInv, LightsInv,
              LeftLit, RightLit, OneClickAgo, Constructing
<1>7. QED
  BY <1>1, <1>2, <1>3, <1>4, <1>5, <1>6 DEF Next

LEMMA SpecIInv == Spec => []IInv
  BY InitIInv, NextIInv, PTL DEF Spec

-----------------------------------------------------------------------------
(* The theorems. *)

\* Every variable keeps its type: no insert leaves a byte out of range.
THEOREM PanelTypeOK == Spec => []TypeOK
<1>1. IInv => TypeOK
  BY DEF IInv
<1>2. QED
  BY <1>1, SpecIInv, PTL

\* The two toggled handlers exclude left and right (window.cpp:119-123).
THEOREM PanelLightsExclusive == Spec => []LightsExclusive
<1>1. IInv => LightsExclusive
  BY DEF IInv, BoxesInv, LightsExclusive
<1>2. QED
  BY <1>1, SpecIInv, PTL

\* What the client decodes is what the window shows, whatever values the
\* sliders take.
THEOREM PanelBufferShowsPanel == Spec => []BufferShowsPanel
<1>1. IInv => BufferShowsPanel
  <2>. SUFFICES ASSUME IInv PROVE BufferShowsPanel
    OBVIOUS
  <2>1. ~Constructing => Pushed(gui) = Slider
    BY PushedValues DEF Constructing, IInv, TypeOK
  <2>2. QED
    BY <2>1 DEF IInv, SlidersInv, LightsInv, LeftLit, RightLit, BufferShowsPanel
<1>2. QED
  BY <1>1, SpecIInv, PTL

\* What a step of the panel does to the decoded signals: nothing, or one
\* insert of a value in range.
LEMMA OneInsert ==
  ASSUME IInv, [Next]_vars
  PROVE  \/ m_buf' = m_buf
         \/ \E s \in Signal : \E val \in ValueRange(s) :
              /\ InsertHelper(s, val)
              /\ s = "left_light" => SetLeftLight
              /\ s = "right_light" => SetRightLight
<1>1. ASSUME NEW s \in Slider, NEW val \in ValueRange(s), InsertHelper(s, val)
      PROVE  \E t \in Signal : \E v \in ValueRange(t) :
               /\ InsertHelper(t, v)
               /\ t = "left_light" => SetLeftLight
               /\ t = "right_light" => SetRightLight
  BY <1>1, Ranges
<1>2. CASE Constructor
  <2>1. (\E s \in Slider : InsertHelper(s, Info(s).min)) \/ m_buf' = m_buf
    BY <1>2 DEF Constructor, SetupSlider, InitLights, Slider
  <2>2. QED
    BY <1>1, <2>1, Ranges
<1>3. ASSUME NEW s \in Slider, NEW val \in SliderValues[s], MoveSlider(s, val)
      PROVE  \E t \in Signal : \E v \in ValueRange(t) :
               /\ InsertHelper(t, v)
               /\ t = "left_light" => SetLeftLight
               /\ t = "right_light" => SetRightLight
  BY <1>1, <1>3, SliderAssumption DEF MoveSlider
<1>4. CASE SetLeftLight
  <2>1. lights[1] \in ValueRange("left_light") /\ InsertHelper("left_light", lights[1])
    BY <1>4, Ranges DEF IInv, TypeOK, SetLeftLight
  <2>2. QED
    BY <1>4, <2>1, Ranges
<1>5. CASE SetRightLight
  <2>1. lights[2] \in ValueRange("right_light") /\ InsertHelper("right_light", lights[2])
    BY <1>5, Ranges DEF IInv, TypeOK, SetRightLight
  <2>2. QED
    BY <1>5, <2>1, Ranges
<1>6. QED
  BY <1>2, <1>3, <1>4, <1>5 DEF Next, vars, ToggleBox

\* Both arrows come on in the buffer only under the warning box, although
\* setLightSignals takes the mutex twice.
THEOREM PanelNoSpuriousWarning == Spec => NoSpuriousWarning
<1>1. ASSUME IInv, [Next]_vars, ~BothLights(m_buf), BothLights(m_buf')
      PROVE  checked["warning"]
  <2>0. /\ Read(m_buf', "left_light") = 1 /\ Read(m_buf', "right_light") = 1
        /\ ~(LeftLit = 1 /\ RightLit = 1)
        /\ ~(checked["left"] /\ checked["right"])
        /\ checked \in [Box -> BOOLEAN]
    BY <1>1 DEF BothLights, LeftLit, RightLit, IInv, BoxesInv, TypeOK
  <2>1. SetLeftLight \/ SetRightLight
    <3>1. m_buf' # m_buf
      BY <1>1
    <3>2. PICK s \in Signal : \E val \in ValueRange(s) :
            /\ InsertHelper(s, val)
            /\ s = "left_light" => SetLeftLight
            /\ s = "right_light" => SetRightLight
      BY <1>1, <3>1, OneInsert
    <3>3. \A t \in Signal \ {s} : Read(m_buf', t) = Read(m_buf, t)
      BY <1>1, <3>2, InsertStep DEF IInv, TypeOK
    <3>4. s = "left_light" \/ s = "right_light"
      BY <2>0, <3>3, Ranges DEF LeftLit, RightLit
    <3>5. QED
      BY <3>2, <3>4
  <2>2. CASE SetLeftLight
    <3>1. lights[1] = 1 /\ RightLit = 1 /\ LeftLit # 1
      BY <1>1, <2>0, <2>2, SetLightStep
    <3>2. lights = LightsOf(checked) /\ OneClickAgo(checked)
      BY <1>1, <2>2 DEF SetLeftLight, IInv, LightsInv
    <3>3. checked["left"] \/ checked["warning"]
      BY <3>1, <3>2 DEF LightsOf, Bit
    <3>4. PICK b \in Box, v \in BOOLEAN :
            LET old == [checked EXCEPT ![b] = v]
            IN  << LeftLit, RightLit >> = LightsOf(old)
      BY <3>2 DEF OneClickAgo
    <3>. DEFINE old == [checked EXCEPT ![b] = v]
    <3>5. ~old["left"] /\ ~old["warning"] /\ old["right"]
      BY <3>1, <3>4 DEF LightsOf, Bit
    <3>6. QED
      BY <2>0, <3>3, <3>5 DEF Box
  <2>3. CASE SetRightLight
    <3>1. lights[2] = 1 /\ LeftLit = 1
      BY <1>1, <2>0, <2>3, SetLightStep
    <3>2. lights = LightsOf(checked) /\ LeftLit = lights[1]
      BY <1>1, <2>3 DEF SetRightLight, IInv, LightsInv
    <3>3. QED
      BY <2>0, <3>1, <3>2 DEF LightsOf, Bit
  <2>4. QED
    BY <2>1, <2>2, <2>3
<1>2. QED
  BY <1>1, SpecIInv, PTL DEF Spec, NoSpuriousWarning

\* Seen through the client's decoder the buffer is a store of independent
\* signals: every step of the panel sets at most one of them, in range.
THEOREM PanelImplementsStore == Spec => StoreSpec
<1>. DEFINE decoded == [s \in Signal |-> Read(m_buf, s)]
<1>0. /\ Store!Signal = Signal
      /\ \A s \in Signal : Store!ValueRange(s) = ValueRange(s)
  BY Zenon DEF Store!Signal, Store!Slider, Store!Light, Signal, Slider, Light,
               Store!ValueRange, Store!Info, ValueRange, Info
<1>1. Init => Store!Init
  <2>1. \A s \in Signal : Read(ZeroBuffer, s) = 0
    BY ZeroReadsAll
  <2>2. QED
    BY <1>0, <2>1 DEF Init, Store!Init
<1>2. ASSUME IInv, [Next]_vars
      PROVE  [Store!Next]_decoded
  <2>1. CASE m_buf' = m_buf
    BY <2>1
  <2>2. ASSUME NEW s \in Signal, NEW val \in ValueRange(s), InsertHelper(s, val)
        PROVE  Store!Next
    <3>1. /\ Read(m_buf', s) = val
          /\ \A t \in Signal \ {s} : Read(m_buf', t) = Read(m_buf, t)
      BY <1>2, <2>2, InsertStep DEF IInv, TypeOK
    <3>2. decoded'[s] = val /\ decoded' = [decoded EXCEPT ![s] = val]
      BY <3>1
    <3>3. QED
      BY <1>0, <3>2 DEF Store!Next, Store!Put
  <2>3. QED
    BY <1>2, <2>1, <2>2, OneInsert
<1>3. QED
  BY <1>1, <1>2, SpecIInv, PTL DEF Spec, StoreSpec, Store!Spec

=============================================================================
