---------------------------- MODULE Uarts_proofs ----------------------------
(***************************************************************************)
(* Proofs about Uarts, for every size of the ring, every rate and every length   *)
(* of message: each line carries what is put to it, and the processor does not   *)
(* sleep over a character.  There are two conditions.  Debug output is flushed    *)
(* (CONFIG_UART_DEBUG_FLUSH), so that one software port sends at a time: two that *)
(* send together share "running" and the timer.  And no character is NUL, which   *)
(* is 512 in the shift register: when the timer has shifted it once between the    *)
(* two reads of swuart_putc() it looks like 0.                                   *)
(***************************************************************************)
EXTENDS Uarts, SequenceTheorems, TLAPS

Flushed == Flush /\ Chars \subseteq 1 .. 255

(* What is left of a character when k of its bits have been sent, and a register *)
(* r and a receiver s that hold the character between them.                   *)
Shifted(ch, k) ==
  CASE k = 0 -> Frame(ch)          [] k = 1 -> Frame(ch) \div 2    [] k = 2 -> Frame(ch) \div 4
    [] k = 3 -> Frame(ch) \div 8   [] k = 4 -> Frame(ch) \div 16   [] k = 5 -> Frame(ch) \div 32
    [] k = 6 -> Frame(ch) \div 64  [] k = 7 -> Frame(ch) \div 128  [] k = 8 -> Frame(ch) \div 256
    [] OTHER -> Frame(ch) \div 512
Split(r, s, ch) ==
  /\ Len(s) <= 9 /\ r = Shifted(ch, Len(s))
  /\ \A i \in 1 .. Len(s) : s[i] = Shifted(ch, i - 1) % 2

-----------------------------------------------------------------------------
(* Lemmas on numbers and bits. *)

(* There are three lines: the printer's, debug's and the UART's.              *)
LEMMA PortIs == Port = {0, 1} /\ Lines = {0, 1, 2} /\ Uart = 2
BY SMT DEF SWUART_PORTS, Port, Lines, Uart

(* A number is twice its half, and its last bit.                             *)
LEMMA Halves ==
  ASSUME NEW r \in Nat
  PROVE  /\ r \div 2 \in Nat /\ r % 2 \in {0, 1}
         /\ r = 2 * (r \div 2) + (r % 2)
BY SMT

(* A number is a high and a low byte.                                        *)
LEMMA Bytes ==
  ASSUME NEW r \in Nat
  PROVE  \E q \in Nat : \E l \in Nat : /\ r = 256 * q + l /\ l < 256 
                         /\ Low(r) = l /\ HighByte(r) = 256 * q
<1>1. PICK q \in Nat : \E l \in Nat : l < 256 /\ r = 256*q + l /\ r % 256 = l
  BY SMT
<1>2. PICK l \in Nat : l < 256 /\ r = 256*q + l /\ r % 256 = l
  BY <1>1
<1>3. Low(r) = l /\ HighByte(r) = 256 * q
  BY <1>2 DEF Low, HighByte
<1> QED BY <1>2, <1>3

(* The frame of a character, as a char has a sign.                           *)
LEMMA FrameIs ==
  ASSUME NEW ch \in 1 .. 255
  PROVE  \E f, x \in Nat : /\ f = Frame(ch) /\ x = ch /\ x >= 1 /\ x <= 255
                           /\ \/ f = 512 + 2 * x /\ x < 128
                              \/ f = 65024 + 2 * x /\ x >= 128
<1>1. /\ Frame(ch) \in Nat /\ ch \in Nat /\ ch >= 1 /\ ch <= 255
      /\ \/ Frame(ch) = 512 + 2 * ch /\ ch < 128
         \/ Frame(ch) = 65024 + 2 * ch /\ ch >= 128
  BY DEF Frame
<1> QED BY <1>1

(* The bit sent first is the start bit, 0.                                   *)
LEMMA FrameEven ==
  ASSUME NEW ch \in 1 .. 255
  PROVE  Frame(ch) % 2 = 0
<1>1. PICK f, x \in Nat : /\ f = Frame(ch) /\ x = ch /\ x >= 1 /\ x <= 255
                          /\ \/ f = 512 + 2 * x /\ x < 128
                             \/ f = 65024 + 2 * x /\ x >= 128
  BY FrameIs
<1>2. f % 2 = 0
  BY <1>1
<1> QED BY <1>1, <1>2

(* Where frames lie.                                                         *)
LEMMA Ranges == 
  ASSUME NEW ch \in 1 .. 255
  PROVE \E f \in Nat : f = Frame(ch) /\ ((f >= 514 /\ f < 1024) \/ (f >= 65280 /\ f < 65536))
<1>1. PICK f, x \in Nat : /\ f = Frame(ch) /\ x = ch /\ x >= 1 /\ x <= 255
                          /\ \/ f = 512 + 2 * x /\ x < 128
                             \/ f = 65024 + 2 * x /\ x >= 128
  BY FrameIs
<1>2. (f >= 514 /\ f < 1024) \/ (f >= 65280 /\ f < 65536)
  BY <1>1
<1> QED BY <1>1, <1>2

(* A frame has a bit in its high byte.                                       *)
LEMMA FrameRange ==
  ASSUME NEW ch \in 1 .. 255
  PROVE  /\ Frame(ch) \in Nat /\ Frame(ch) < 65536 /\ Frame(ch) >= 514
         /\ HighByte(Frame(ch)) >= 512 /\ HighByte(Frame(ch)) \in Nat
<1>1. PICK f \in Nat : f = Frame(ch) /\ ((f >= 514 /\ f < 1024) \/ (f >= 65280 /\ f < 65536))
  BY Ranges
<1>2. f < 65536 /\ f >= 514
  BY <1>1
<1>3. HighByte(f) >= 512 /\ HighByte(f) \in Nat
  BY <1>2, Bytes
<1> QED BY <1>1, <1>2, <1>3

(* Writing the high byte over 0 and then the low byte gives the whole.       *)
LEMMA Pieces ==
  ASSUME NEW x \in Nat
  PROVE  HighByte(HighByte(x) + Low(0)) + Low(x) = x
<1>1. PICK q \in Nat, l \in Nat : /\ x = 256 * q + l /\ l < 256 /\ Low(x) = l /\ HighByte(x) = 256 * q
  BY Bytes
<1>2. Low(0) = 0 
  BY SMT DEF Low
<1>3. Low(256 * q) = 0
  BY SMT DEF Low
<1>4. HighByte(256 * q) = 256 * q
  BY <1>3 DEF HighByte
<1> QED BY <1>1, <1>2, <1>4

(* Each bit sent halves the register, and none of nine leaves it 0.          *)
LEMMA Shift ==
  ASSUME NEW ch \in 1 .. 255, NEW k \in 0 .. 8
  PROVE  /\ Shifted(ch, k) \in Nat /\ Shifted(ch, k + 1) \in Nat
         /\ Shifted(ch, k + 1) = Shifted(ch, k) \div 2
         /\ Shifted(ch, k + 1) # 0
<1> DEFINE f == Frame(ch)
<1>1. f \in Nat /\ f < 65536 /\ f >= 514
  BY FrameRange
<1> HIDE DEF f
<1>2. \A x \in Nat : x >= 512 =>
        /\ x \div 4 = (x \div 2) \div 2      /\ x \div 8 = (x \div 4) \div 2
        /\ x \div 16 = (x \div 8) \div 2     /\ x \div 32 = (x \div 16) \div 2
  BY SMT
<1>3. \A x \in Nat : x >= 512 =>
        /\ x \div 64 = (x \div 32) \div 2    /\ x \div 128 = (x \div 64) \div 2
        /\ x \div 256 = (x \div 128) \div 2  /\ x \div 512 = (x \div 256) \div 2
  BY SMT
<1>4. \A x \in Nat : x >= 512 =>
        /\ x \div 2 \in Nat \ {0}   /\ x \div 4 \in Nat \ {0}   /\ x \div 8 \in Nat \ {0}
        /\ x \div 16 \in Nat \ {0}  /\ x \div 32 \in Nat \ {0}  /\ x \div 64 \in Nat \ {0}
        /\ x \div 128 \in Nat \ {0} /\ x \div 256 \in Nat \ {0} /\ x \div 512 \in Nat \ {0}
  BY SMT
<1>5. /\ Shifted(ch, 0) = f            /\ Shifted(ch, 1) = f \div 2
      /\ Shifted(ch, 2) = f \div 4     /\ Shifted(ch, 3) = f \div 8
      /\ Shifted(ch, 4) = f \div 16    /\ Shifted(ch, 5) = f \div 32
      /\ Shifted(ch, 6) = f \div 64    /\ Shifted(ch, 7) = f \div 128
      /\ Shifted(ch, 8) = f \div 256   /\ Shifted(ch, 9) = f \div 512
  BY SMT DEF Shifted, f
<1>6. k \in {0, 1, 2, 3, 4, 5, 6, 7, 8}
  BY SMT
<1> QED BY <1>1, <1>2, <1>3, <1>4, <1>5, <1>6

(* A bit goes from the register to the receiver.                             *)
LEMMA NextBit ==
  ASSUME NEW r \in Nat, NEW s \in Seq({0, 1}), NEW ch \in 1 .. 255,
         Split(r, s, ch), Len(s) # 9
  PROVE  /\ Split(r \div 2, Append(s, r % 2), ch)
         /\ r # 0 /\ r \div 2 # 0
         /\ s = <<>> => r % 2 = 0
<1> DEFINE n == Len(s)
<1>0. n \in Nat
  BY LenProperties
<1>1. n <= 9 /\ r = Shifted(ch, n) /\ \A i \in 1 .. n : s[i] = Shifted(ch, i - 1) % 2
  BY DEF Split
<1>2. n \in 0 .. 8
  <2>1. \A x \in Nat : x <= 9 /\ x # 9 => x \in 0 .. 8
    BY SMT
  <2>2. n # 9
    OBVIOUS
  <2> HIDE DEF n
  <2> QED BY <1>0, <1>1, <2>1, <2>2
<1>3. r \div 2 = Shifted(ch, n + 1) /\ r \div 2 # 0
  BY <1>1, <1>2, Shift
<1>4. r % 2 \in {0, 1} /\ r # 0
  BY <1>3, Halves, SMT
<1> DEFINE t == Append(s, r % 2)
<1>5. /\ Len(t) = n + 1
      /\ \A i \in 1 .. n : t[i] = s[i]
      /\ t[n + 1] = r % 2
  BY <1>4, AppendProperties
<1> HIDE DEF n, t
<1>6. \A i \in 1 .. n + 1 : t[i] = Shifted(ch, i - 1) % 2
  <2> SUFFICES ASSUME NEW i \in 1 .. n + 1
               PROVE  t[i] = Shifted(ch, i - 1) % 2
    OBVIOUS
  <2>1. CASE i \in 1 .. n
    BY <2>1, <1>1, <1>5
  <2>2. CASE i = n + 1
    <3>1. i - 1 = n
      BY <2>2, <1>2
    <3> QED BY <2>2, <3>1, <1>1, <1>5
  <2> QED BY <1>2, <2>1, <2>2
<1>7. Split(r \div 2, t, ch)
  <2>1. Len(t) <= 9
    BY <1>2, <1>5
  <2> QED BY <1>3, <1>5, <1>6, <2>1 DEF Split
<1>8. s = <<>> => r % 2 = 0
  <2>1. s = <<>> => r = Frame(ch)
    BY <1>1, SMT DEF Shifted, n
  <2>3. Frame(ch) % 2 = 0
    BY FrameEven
  <2> QED BY <2>1, <2>3
<1> USE DEF t
<1>9. r \div 2 # 0
  BY <1>3
<1> QED BY <1>4, <1>7, <1>8, <1>9, Zenon

(* The tenth bit: a stop bit, and the nine before it are the character.        *)
Halved(f, b) == \A k \in 0 .. 8 : f[k] = 2 * f[k + 1] + b[k + 1]
(* The bits that halving a frame yields are those of its character.          *)
LEMMA Bits ==
  ASSUME NEW ch \in 1 .. 255, NEW f \in [0 .. 9 -> Nat], NEW b \in [1 .. 9 -> {0, 1}],
         f[0] = Frame(ch), Halved(f, b)
  PROVE  /\ f[9] \in {1, 127}
         /\ Value(b) = ch
<1> DEFINE f0 == f[0]
           f1 == f[1]
           f2 == f[2]
           f3 == f[3]
           f4 == f[4]
           f5 == f[5]
           f6 == f[6]
           f7 == f[7]
           f8 == f[8]
           f9 == f[9]
           b1 == b[1]
           b2 == b[2]
           b3 == b[3]
           b4 == b[4]
           b5 == b[5]
           b6 == b[6]
           b7 == b[7]
           b8 == b[8]
           b9 == b[9]
<1>1. /\ f0 \in Nat
      /\ f1 \in Nat
      /\ f2 \in Nat
      /\ f3 \in Nat
      /\ f4 \in Nat
      /\ f5 \in Nat
      /\ f6 \in Nat
      /\ f7 \in Nat
      /\ f8 \in Nat
      /\ f9 \in Nat
  <2>1. f0 \in Nat
    OBVIOUS
  <2>2. f1 \in Nat
    OBVIOUS
  <2>3. f2 \in Nat
    OBVIOUS
  <2>4. f3 \in Nat
    OBVIOUS
  <2>5. f4 \in Nat
    OBVIOUS
  <2>6. f5 \in Nat
    OBVIOUS
  <2>7. f6 \in Nat
    OBVIOUS
  <2>8. f7 \in Nat
    OBVIOUS
  <2>9. f8 \in Nat
    OBVIOUS
  <2>10. f9 \in Nat
    OBVIOUS
  <2> QED BY <2>1, <2>2, <2>3, <2>4, <2>5, <2>6, <2>7, <2>8, <2>9, <2>10
<1>2. /\ b1 \in Nat /\ b1 < 2
      /\ b2 \in Nat /\ b2 < 2
      /\ b3 \in Nat /\ b3 < 2
      /\ b4 \in Nat /\ b4 < 2
      /\ b5 \in Nat /\ b5 < 2
      /\ b6 \in Nat /\ b6 < 2
      /\ b7 \in Nat /\ b7 < 2
      /\ b8 \in Nat /\ b8 < 2
      /\ b9 \in Nat /\ b9 < 2
  <2>1. b1 \in Nat /\ b1 < 2
    OBVIOUS
  <2>2. b2 \in Nat /\ b2 < 2
    OBVIOUS
  <2>3. b3 \in Nat /\ b3 < 2
    OBVIOUS
  <2>4. b4 \in Nat /\ b4 < 2
    OBVIOUS
  <2>5. b5 \in Nat /\ b5 < 2
    OBVIOUS
  <2>6. b6 \in Nat /\ b6 < 2
    OBVIOUS
  <2>7. b7 \in Nat /\ b7 < 2
    OBVIOUS
  <2>8. b8 \in Nat /\ b8 < 2
    OBVIOUS
  <2>9. b9 \in Nat /\ b9 < 2
    OBVIOUS
  <2> QED BY <2>1, <2>2, <2>3, <2>4, <2>5, <2>6, <2>7, <2>8, <2>9
<1>3. /\ f0 = 2 * f1 + b1
      /\ f1 = 2 * f2 + b2
      /\ f2 = 2 * f3 + b3
      /\ f3 = 2 * f4 + b4
      /\ f4 = 2 * f5 + b5
      /\ f5 = 2 * f6 + b6
      /\ f6 = 2 * f7 + b7
      /\ f7 = 2 * f8 + b8
      /\ f8 = 2 * f9 + b9
  <2>1. f0 = 2 * f1 + b1
    BY DEF Halved
  <2>2. f1 = 2 * f2 + b2
    BY DEF Halved
  <2>3. f2 = 2 * f3 + b3
    BY DEF Halved
  <2>4. f3 = 2 * f4 + b4
    BY DEF Halved
  <2>5. f4 = 2 * f5 + b5
    BY DEF Halved
  <2>6. f5 = 2 * f6 + b6
    BY DEF Halved
  <2>7. f6 = 2 * f7 + b7
    BY DEF Halved
  <2>8. f7 = 2 * f8 + b8
    BY DEF Halved
  <2>9. f8 = 2 * f9 + b9
    BY DEF Halved
  <2> QED BY <2>1, <2>2, <2>3, <2>4, <2>5, <2>6, <2>7, <2>8, <2>9
<1>4. PICK g, x \in Nat : /\ g = Frame(ch) /\ x = ch /\ x >= 1 /\ x <= 255
                          /\ \/ g = 512 + 2 * x /\ x < 128
                             \/ g = 65024 + 2 * x /\ x >= 128
  BY FrameIs
<1>5. f0 = g
  BY <1>4
<1> DEFINE v == b2 + 2 * b3 + 4 * b4 + 8 * b5 + 16 * b6 + 32 * b7 + 64 * b8 + 128 * b9
<1> HIDE DEF f0, f1, f2, f3, f4, f5, f6, f7, f8, f9, b1, b2, b3, b4, b5, b6, b7, b8, b9
<1>6. v \in Nat /\ v < 256
  BY <1>2
<1>7. f0 = 512 * f9 + b1 + 2 * v
  BY <1>1, <1>2, <1>3
<1> HIDE DEF v
<1>8. b1 = 0 \/ b1 = 1
  BY <1>2
<1>9. f9 = 1 \/ f9 = 127
  BY <1>1, <1>4, <1>5, <1>6, <1>7, <1>8
<1>10. v = x
  BY <1>1, <1>4, <1>5, <1>6, <1>7, <1>8, <1>9
<1>11. Value(b) = v
  BY DEF Value, v, b2, b3, b4, b5, b6, b7, b8, b9
<1> QED BY <1>4, <1>9, <1>10, <1>11 DEF f9

Whole(s) == Len(s) = 9
(* After nine bits the receiver has the character, and the stop bit is next. *)
LEMMA LastBit ==
  ASSUME NEW r \in Nat, NEW s \in Seq({0, 1}), NEW ch \in 1 .. 255,
         Split(r, s, ch), Whole(s)
  PROVE  (r = 1 \/ r = 127) /\ Value(s) = ch
<1>1. /\ r = Shifted(ch, 9) /\ \A i \in 1 .. 9 : s[i] = Shifted(ch, i - 1) % 2
  BY DEF Split, Whole
<1>2. \A i \in 1 .. 9 : s[i] \in {0, 1}
  BY ElementOfSeq DEF Whole
<1>3. ASSUME NEW k \in 0 .. 8
      PROVE  /\ Shifted(ch, k) \in Nat /\ Shifted(ch, k + 1) \in Nat
             /\ Shifted(ch, k) = 2 * Shifted(ch, k + 1) + s[k + 1]
  <2>1. Shifted(ch, k) \in Nat /\ Shifted(ch, k + 1) \in Nat /\ Shifted(ch, k + 1) = Shifted(ch, k) \div 2
    BY Shift
  <2>2. s[k + 1] = Shifted(ch, k) % 2
    <3>1. k + 1 \in 1 .. 9 /\ (k + 1) - 1 = k
      OBVIOUS
    <3> QED BY <1>1, <3>1
  <2> QED BY <2>1, <2>2, Halves
<1> DEFINE f == [k \in 0 .. 9 |-> Shifted(ch, k)]
           b == [i \in 1 .. 9 |-> s[i]]
<1>4. f \in [0 .. 9 -> Nat]
  <2>1. ASSUME NEW k \in 0 .. 9
        PROVE  Shifted(ch, k) \in Nat
    <3>1. CASE k \in 0 .. 8
      BY <3>1, <1>3
    <3>2. CASE k = 9
      BY <3>2, <1>1
    <3> QED BY <3>1, <3>2
  <2> QED BY <2>1
<1>5. b \in [1 .. 9 -> {0, 1}]
  BY <1>2
<1>6. Halved(f, b)
  <2> SUFFICES ASSUME NEW k \in 0 .. 8
               PROVE  f[k] = 2 * f[k + 1] + b[k + 1]
    BY DEF Halved
  <2>1. k \in 0 .. 9 /\ k + 1 \in 0 .. 9 /\ k + 1 \in 1 .. 9
    OBVIOUS
  <2>2. f[k] = Shifted(ch, k) /\ f[k + 1] = Shifted(ch, k + 1) /\ b[k + 1] = s[k + 1]
    BY <2>1
  <2> HIDE DEF f, b
  <2> QED BY <2>2, <1>3
<1>7. f[0] = Frame(ch)
  BY DEF Shifted
<1>8. f[9] = r
  BY <1>1
<1>9. Value(s) = Value(b)
  BY DEF Value
<1> HIDE DEF f, b
<1>10. /\ f[9] \in {1, 127}
      /\ Value(b) = ch
  BY <1>4, <1>5, <1>6, <1>7, Bits
<1> QED BY <1>8, <1>9, <1>10

(* No part of a character is 0 or one bit in the high byte.                    *)
LEMMA NoHalf ==
  ASSUME NEW ch \in 1 .. 255, NEW n \in Nat, n <= 9
  PROVE  Shifted(ch, n) # 256 /\ Shifted(ch, n) # 0
<1> DEFINE r == Shifted(ch, n)
<1>1. PICK f \in Nat : f = Frame(ch) /\ ((f >= 514 /\ f < 1024) \/ (f >= 65280 /\ f < 65536))
  BY Ranges
<1>2. \/ r = f \/ r = f \div 2 \/ r = f \div 4 \/ r = f \div 8 \/ r = f \div 16
      \/ r = f \div 32 \/ r = f \div 64 \/ r = f \div 128 \/ r = f \div 256 \/ r = f \div 512
  BY <1>1, SMT DEF Shifted
<1> HIDE DEF r
<1>3. r # 256 /\ r # 0
  <2>1. CASE f < 1024
    BY <1>1, <1>2, <2>1
  <2>2. CASE f >= 65280
    BY <1>1, <1>2, <2>2
  <2> QED BY <1>1, <2>1, <2>2
<1> QED BY <1>3 DEF r

(* So a register that carries a character is never taken for an empty one.   *)
LEMMA NotHalf ==
  ASSUME NEW r \in Nat, NEW s \in Seq({0, 1}), NEW ch \in 1 .. 255, Split(r, s, ch)
  PROVE  r # 256 /\ r # 0
<1>1. PICK n \in Nat : n = Len(s)
  BY LenProperties
<1>2. n <= 9 /\ r = Shifted(ch, n)
  BY <1>1 DEF Split
<1> QED BY <1>2, NoHalf

-----------------------------------------------------------------------------
(* The invariant. *)

(* The port that the program puts to, and the other one.                     *)
P == IF line = 1 THEN 1 ELSE 0
Q == 1 - P
R == tx_shift_reg[P]
Soft == {"low", "high", "setHigh", "setLow", "timer", "load", "run"}
Ring == {"room", "store", "advance", "enable"}
Quiescent == {"bav", "idle", "standby"}
Places == Soft \cup Ring \cup Quiescent \cup {"done"}

TypeOk ==
  /\ pc \in Places /\ line \in Lines /\ left \in Nat /\ c \in Nat /\ low \in Nat /\ tmp \in Nat
  /\ fresh \in BOOLEAN /\ open \in BOOLEAN /\ udrie \in BOOLEAN /\ timer \in BOOLEAN
  /\ tx0_buf \in [0 .. SIZE - 1 -> Nat] /\ tx0_head \in 0 .. SIZE - 1 /\ tx0_tail \in 0 .. SIZE - 1
  /\ udr \in Seq(Nat) /\ Len(udr) <= 1
  /\ tx_shift_reg \in [Port -> Nat] /\ count \in [Port -> Nat] /\ running \in Nat
  /\ rx \in [Port -> Seq({0, 1})] /\ owed \in [Lines -> Seq(Chars)]

(* What the program puts where.                                             *)
PlaceOk ==
  /\ pc \in Soft => line \in {0, 1} /\ c \in Chars
  /\ pc \in Ring => line = Uart /\ c \in Chars
  /\ pc \in Quiescent => line = 0

(* The character that is owed is partly in the register, partly with the        *)
(* receiver; or the register has only ones left, which the receiver ignores.    *)
Nothing == R = 0 /\ owed[P] = <<>> /\ rx[P] = <<>>
Carrying == \E ch \in Chars : owed[P] = <<ch>> /\ Split(R, rx[P], ch)
Trailing == owed[P] = <<>> /\ rx[P] = <<>> /\ R \in {1, 3, 7, 15, 31, 63}
LineOk ==
  IF pc = "setLow" THEN R = HighByte(Frame(c)) /\ owed[P] = <<>> /\ rx[P] = <<>>
  ELSE Nothing \/ Carrying \/ Trailing

RunOk == running = IF R = 0 \/ pc \in {"setLow", "timer", "load", "run"} THEN 0 ELSE 1
TimerOk == timer => R # 0 /\ pc \notin {"setLow", "timer"}

(* The other port has been flushed.                                          *)
Silent == tx_shift_reg[Q] = 0 /\ owed[Q] = <<>> /\ rx[Q] = <<>>

(* How far the timer may have shifted the register since the program looked.   *)
AtLeast(n) == R >= 2 * n \/ (fresh /\ R >= n)
ReachOk ==
  /\ pc = "high" /\ low = 0 => R = 0 \/ AtLeast(256)
  /\ pc = "timer" => R >= 512
  /\ pc = "load" => AtLeast(256)
  /\ pc = "run" => tmp = 0 /\ AtLeast(128)
  /\ pc \in {"setHigh"} \cup Ring \cup Quiescent => R = 0
  /\ pc = "done" /\ line = Uart => R = 0

SoftOk == PlaceOk /\ LineOk /\ Silent /\ RunOk /\ TimerOk /\ ReachOk

(* The ring and UDR hold what the UART's line is owed.                       *)
Held == Len(owed[Uart]) - Len(udr)
UartOk ==
  /\ Held \in 0 .. SIZE - 1 /\ tx0_head = Index(tx0_tail + Held)
  /\ udr # <<>> => udr[1] = owed[Uart][1]
  /\ \A i \in 1 .. Held : tx0_buf[Index(tx0_tail + i - 1)] = owed[Uart][Len(udr) + i]
  /\ pc \in {"store", "advance"} => Held < SIZE - 1
  /\ pc = "advance" => tx0_buf[tx0_head] = c

(* The interrupt of the ring is on until what was put has left.               *)
RingOn ==
  /\ udrie \/ pc = "enable" \/ owed[Uart] = <<>>
  /\ pc = "idle" => ~udrie

IInv == TypeOk /\ SoftOk /\ UartOk /\ RingOn

(* P and Q are the two ports.                                               *)
LEMMA PortsAre ==
  /\ P \in {0, 1} /\ Q \in {0, 1} /\ P # Q /\ Port = {P, Q} /\ Lines = {P, Q, Uart}
  /\ Uart = 2 /\ P # Uart /\ Q # Uart
BY PortIs DEF P, Q

(* The program puts to P if it puts to a port.                               *)
LEMMA LineIs == line \in {0, 1} => P = line
BY DEF P

LEMMA SamePort == line' = line => P' = P /\ Q' = Q
BY DEF P, Q

(* The ring has room for at least one character.                             *)
LEMMA SizeIs == SIZE \in Nat /\ SIZE >= 2
BY UartsAssumption

(* An index wraps at most once.                                              *)
LEMMA IndexIs ==
  ASSUME NEW i \in Nat, i < 2 * SIZE
  PROVE  Index(i) \in 0 .. SIZE - 1 /\ Index(i) = IF i < SIZE THEN i ELSE i - SIZE
<1>1. SIZE \in {2, 4, 8, 16, 32, 64, 128, 256}
  BY UartsAssumption
<1>2. CASE SIZE = 2
  BY <1>2 DEF Index
<1>3. CASE SIZE = 4
  BY <1>3 DEF Index
<1>4. CASE SIZE = 8
  BY <1>4 DEF Index
<1>5. CASE SIZE = 16
  BY <1>5 DEF Index
<1>6. CASE SIZE = 32
  BY <1>6 DEF Index
<1>7. CASE SIZE = 64
  BY <1>7 DEF Index
<1>8. CASE SIZE = 128
  BY <1>8 DEF Index
<1>9. CASE SIZE = 256
  BY <1>9 DEF Index
<1> QED BY <1>1, <1>2, <1>3, <1>4, <1>5, <1>6, <1>7, <1>8, <1>9

(* Both bytes of a number are numbers.                                       *)
LEMMA BytesType ==
  ASSUME NEW r \in Nat
  PROVE  Low(r) \in Nat /\ HighByte(r) \in Nat
<1>1. PICK q \in Nat : \E l \in Nat : /\ r = 256 * q + l /\ l < 256 
                         /\ Low(r) = l /\ HighByte(r) = 256 * q
  BY Bytes
<1> QED BY <1>1

(* The next character of the message is put like the one before, to its line.*)
LEMMA AgainPuts ==
  ASSUME left \in Nat, Again
  PROVE  /\ left' \in Nat /\ line' = line /\ c' \in Chars \cup {0}
         /\ \/ pc' = "done" /\ c' = 0
            \/ pc' = "room" /\ line = Uart /\ c' \in Chars
            \/ pc' = "low" /\ line # Uart /\ c' \in Chars
<1>1. CASE left > 1
  BY <1>1 DEF Again, PutNext
<1>2. CASE ~(left > 1)
  BY <1>2 DEF Again
<1> QED BY <1>1, <1>2

(* Arrivals leave sequences of characters.                                   *)
LEMMA ArrivedType ==
  ASSUME owed \in [Lines -> Seq(Chars)], NEW cs, Arrived(cs)
  PROVE  owed' \in [Lines -> Seq(Chars)]
<1>1. ASSUME NEW l \in Lines
      PROVE  owed[l] \in Seq(Chars) /\ (owed[l] # <<>> => Tail(owed[l]) \in Seq(Chars))
  BY HeadTailProperties
<1> QED BY <1>1 DEF Arrived

(* Every variable keeps its type.                                           *)
LEMMA TypeStep ==
  ASSUME Flushed, TypeOk, PlaceOk, [Next]_vars
  PROVE  TypeOk'
<1>0. Port = {0, 1} /\ Lines = {0, 1, 2} /\ Uart = 2 /\ Chars \subseteq Nat /\ Chars \subseteq 1 .. 255
  BY PortIs DEF Flushed
<1> USE <1>0 DEF TypeOk, Quiet
<1>1. CASE Open
  BY <1>1 DEF Open, Places, Quiescent, soft, ring
<1>2. CASE Close
  BY <1>2 DEF Close, Places, Quiescent, soft, ring
<1>3. CASE Write
  BY <1>3 DEF Write, Places, Soft, Ring, PutNext, soft, ring
<1>4. CASE WriteDone
  BY <1>4 DEF WriteDone, Places, Quiescent, soft, ring
<1>5. CASE Room
  BY <1>5 DEF Room, Places, Ring, soft, ring
<1>6. CASE StoreData
  BY <1>6 DEF StoreData, Places, Ring, soft
<1>7. CASE Advance
  <2>1. tx0_head' \in 0 .. SIZE - 1
    <3>1. tx0_head \in 0 .. SIZE - 1
      OBVIOUS
    <3>2. tx0_head + 1 \in Nat /\ tx0_head + 1 < 2 * SIZE
      BY ONLY <3>1, SizeIs
    <3>3. Index(tx0_head + 1) \in 0 .. SIZE - 1
      BY ONLY <3>2, IndexIs
    <3> QED BY <1>7, <3>3 DEF Advance
  <2>2. c \in Chars /\ owed' \in [Lines -> Seq(Chars)]
    <3>1. c \in Chars
      BY <1>7 DEF Advance, PlaceOk, Ring
    <3>2. owed[Uart] \in Seq(Chars)
      OBVIOUS
    <3>3. Append(owed[Uart], c) \in Seq(Chars)
      BY <3>1, <3>2, AppendProperties
    <3> QED BY <1>7, <3>3 DEF Advance
  <2> QED BY <1>7, <2>1, <2>2 DEF Advance, Places, Ring, soft
<1>8. CASE EnableIrq
  <2>1. left' \in Nat /\ c' \in Nat /\ line' \in Lines /\ pc' \in Places
    <3>1. Again /\ left \in Nat
      BY <1>8 DEF EnableIrq
    <3>2. left' \in Nat /\ line' = line /\ c' \in Chars \cup {0}
      BY ONLY <3>1, AgainPuts
    <3>3. c' \in Nat
      BY ONLY <1>0, <3>2
    <3>4. pc' \in {"room", "low", "done"}
      BY ONLY <3>1, AgainPuts
    <3> QED BY <3>2, <3>3, <3>4 DEF Places, Soft, Ring
  <2> QED BY <1>8, <2>1 DEF EnableIrq, soft
<1>9. CASE ReadLow
  <2>1. low' \in Nat
    <3>1. line \in {0, 1}
      BY <1>9 DEF ReadLow, PlaceOk, Soft
    <3>2. tx_shift_reg[line] \in Nat
      BY <3>1
    <3> QED BY <1>9, <3>2, BytesType DEF ReadLow
  <2> QED BY <1>9, <2>1 DEF ReadLow, Places, Soft, ring, soft
<1>10. CASE ReadHigh
  BY <1>10 DEF ReadHigh, Places, Soft, ring, soft
<1>11. CASE SetHigh
  <2>1. line \in {0, 1} /\ c \in 1 .. 255
    BY <1>11 DEF SetHigh, PlaceOk, Soft
  <2>2. HighByte(Frame(c)) \in Nat /\ Low(tx_shift_reg[line]) \in Nat
    <3>1. Frame(c) \in Nat
      BY ONLY <2>1, FrameRange
    <3> QED BY <2>1, <3>1, BytesType
  <2>3. HighByte(Frame(c)) + Low(tx_shift_reg[line]) \in Nat
    BY <2>2
  <2>4. tx_shift_reg' \in [Port -> Nat]
    BY <1>11, <2>1, <2>3 DEF SetHigh
  <2> QED BY <1>11, <2>4 DEF SetHigh, Places, Soft, ring
<1>12. CASE SetLow
  <2>1. line \in {0, 1} /\ c \in 1 .. 255 /\ c \in Chars
    BY <1>12 DEF SetLow, PlaceOk, Soft
  <2>2. Frame(c) \in Nat
    BY ONLY <2>1, FrameRange
  <2>3. HighByte(tx_shift_reg[line]) \in Nat /\ Low(Frame(c)) \in Nat
    BY <2>1, <2>2, BytesType
  <2>4. HighByte(tx_shift_reg[line]) + Low(Frame(c)) \in Nat
    BY <2>3
  <2>5. tx_shift_reg' \in [Port -> Nat]
    BY <1>12, <2>1, <2>4 DEF SetLow
  <2>6. Append(owed[line], c) \in Seq(Chars)
    BY <2>1, AppendProperties
  <2>7. owed' \in [Lines -> Seq(Chars)]
    BY <1>12, <2>1, <2>6 DEF SetLow
  <2> QED BY <1>12, <2>5, <2>7 DEF SetLow, Places, Soft, ring
<1>13. CASE EnableTimer
  BY <1>13 DEF EnableTimer, Places, Soft, ring
<1>14. CASE LoadRunning
  BY <1>14 DEF LoadRunning, Places, Soft, ring, soft
<1>15. CASE StoreRunning
  <2>1. left' \in Nat /\ c' \in Nat /\ line' \in Lines /\ pc' \in Places
    <3>1. Again /\ left \in Nat
      BY <1>15 DEF StoreRunning
    <3>2. left' \in Nat /\ line' = line /\ c' \in Chars \cup {0}
      BY ONLY <3>1, AgainPuts
    <3>3. c' \in Nat
      BY ONLY <1>0, <3>2
    <3>4. pc' \in {"room", "low", "done"}
      BY ONLY <3>1, AgainPuts
    <3> QED BY <3>2, <3>3, <3>4 DEF Places, Soft, Ring
  <2>2. running' \in Nat /\ tmp' \in Nat
    BY <1>15 DEF StoreRunning
  <2> QED BY <1>15, <2>1, <2>2 DEF StoreRunning, ring
<1>16. CASE Sleep
  BY <1>16 DEF Sleep, Places, Quiescent, soft, ring
<1>17. CASE UdreIrq
  <2>1. tx0_buf[tx0_tail] \in Nat
    OBVIOUS
  <2>2. tx0_tail' \in 0 .. SIZE - 1
    <3>1. tx0_tail \in 0 .. SIZE - 1
      OBVIOUS
    <3>2. tx0_tail + 1 \in Nat /\ tx0_tail + 1 < 2 * SIZE
      BY ONLY <3>1, SizeIs
    <3>3. Index(tx0_tail + 1) \in 0 .. SIZE - 1
      BY ONLY <3>2, IndexIs
    <3> QED BY <1>17, <3>3 DEF UdreIrq
  <2>3. udr' \in Seq(Nat) /\ Len(udr') <= 1
    <3>1. <<tx0_buf[tx0_tail]>> \in Seq(Nat) /\ Len(<<tx0_buf[tx0_tail]>>) <= 1
      BY <2>1
    <3>2. udr' = <<tx0_buf[tx0_tail]>> \/ udr' = udr
      BY <1>17 DEF UdreIrq
    <3> QED BY <3>1, <3>2
  <2> QED BY <1>17, <2>2, <2>3 DEF UdreIrq, main, soft
<1>18. CASE Transmit
  <2>1. owed' \in [Lines -> Seq(Chars)]
    BY <1>18, ArrivedType DEF Transmit
  <2>2. udr' \in Seq(Nat) /\ Len(udr') <= 1
    BY <1>18 DEF Transmit
  <2> QED BY <1>18, <2>1, <2>2 DEF Transmit, main, ring, soft
<1>19. CASE TimerIrq
  <2>1. ASSUME NEW p \in Port
        PROVE  /\ tx_shift_reg[p] \in Nat /\ tx_shift_reg[p] \div 2 \in Nat
               /\ count[p] \in Nat /\ count[p] + 1 \in Nat
               /\ rx[p] \in Seq({0, 1}) /\ Sees(p, tx_shift_reg[p] % 2) \in Seq({0, 1})
    <3>1. tx_shift_reg[p] \in Nat /\ count[p] \in Nat /\ rx[p] \in Seq({0, 1})
      OBVIOUS
    <3>2. tx_shift_reg[p] \div 2 \in Nat /\ tx_shift_reg[p] % 2 \in {0, 1}
      BY <3>1, Halves
    <3>3. Sees(p, tx_shift_reg[p] % 2) \in Seq({0, 1})
      BY <3>1, <3>2, AppendProperties DEF Sees
    <3>4. count[p] + 1 \in Nat
      BY ONLY <3>1
    <3> QED BY ONLY <3>1, <3>2, <3>3, <3>4
  <2>2. tx_shift_reg' \in [Port -> Nat]
    BY <1>19, <2>1 DEF TimerIrq
  <2>3. count' \in [Port -> Nat]
    BY <1>19, <2>1 DEF TimerIrq
  <2>4. rx' \in [Port -> Seq({0, 1})]
    BY <1>19, <2>1 DEF TimerIrq
  <2>5. running' \in Nat
    <3>1. Ended \in {0, 1, 2}
      BY DEF Ended
    <3>2. Down(Ended) \in Nat
      BY <3>1 DEF Down
    <3> QED BY <1>19, <3>2 DEF TimerIrq
  <2>6. timer' \in BOOLEAN /\ fresh' \in BOOLEAN
    BY <1>19 DEF TimerIrq
  <2>7. owed' \in [Lines -> Seq(Chars)]
    BY <1>19, ArrivedType DEF TimerIrq
  <2> QED BY <1>19, <2>2, <2>3, <2>4, <2>5, <2>6, <2>7 DEF TimerIrq, main, ring
<1>20. CASE UNCHANGED vars
  BY <1>20 DEF vars, main, ring, soft
<1> QED BY <1>1, <1>2, <1>3, <1>4, <1>5, <1>6, <1>7, <1>8, <1>9, <1>10, <1>11, <1>12, <1>13,
           <1>14, <1>15, <1>16, <1>17, <1>18, <1>19, <1>20 DEF Next, Host, Program

-----------------------------------------------------------------------------
(* The software UART. *)

(* The timer's interrupt leaves the register alone, or moves a bit of it.      *)
Unmoved == /\ R' = R /\ rx'[P] = rx[P] /\ owed' = owed /\ last' = {} /\ running' = running
Moved ==
  /\ R' = R \div 2 /\ rx'[P] = Sees(P, R % 2)
  /\ IF R \div 2 = 0 THEN running' = Down(1) /\ timer' = (Down(1) # 0)
     ELSE running' = running /\ timer' = TRUE
  /\ IF Len(rx[P]) = 9 THEN Arrived({<<P, IF R % 2 = 1 THEN Value(rx[P]) ELSE 256>>})
     ELSE owed' = owed /\ last' = {}
(* and the other port alone.                                                 *)
Still == tx_shift_reg'[Q] = tx_shift_reg[Q] /\ rx'[Q] = rx[Q]

(* A character that arrives is the one that its line has owed longest.         *)
LEMMA OneArrives ==
  ASSUME owed \in [Lines -> Seq(Chars)], NEW l \in Lines, NEW ch \in 0 .. 256,
         Arrived({<<l, ch>>}), owed[l] # <<>>, ch = Head(owed[l])
  PROVE  /\ L!Carry({l}) /\ owed'[l] = Tail(owed[l])
         /\ \A k \in Lines : k # l => owed'[k] = owed[k]
<1> DEFINE got(k) == \E x \in 0 .. 256 : <<k, x>> \in {<<l, ch>>}
<1>1. got(l)
  BY Zenon
<1>2. \A k : k # l => ~got(k)
  <2>1. \A k, x : <<k, x>> = <<l, ch>> => k = l
    BY SMT
  <2> QED BY <2>1, Zenon
<1>3. owed' = [k \in Lines |-> IF owed[k] # <<>> /\ got(k) THEN Tail(owed[k]) ELSE owed[k]]
  BY Zenon DEF Arrived
<1>4. last' = {<<l, ch>>}
  BY Zenon DEF Arrived
<1> HIDE DEF got
<1>5. owed' = [k \in Lines |-> IF k \in {l} THEN Tail(owed[k]) ELSE owed[k]]
  BY <1>1, <1>2, <1>3
<1>6. last' = {<<k, Head(owed[k])>> : k \in {l}}
  BY <1>4
<1> QED BY <1>5, <1>6 DEF L!Carry

(* Nothing arrives in an empty set.                                          *)
LEMMA NoneArrives ==
  ASSUME owed \in [Lines -> Seq(Chars)], Arrived({})
  PROVE  owed' = owed /\ last' = {}
BY DEF Arrived

(* An interrupt of the timer counts, or moves a bit.                         *)
LEMMA TimerIs ==
  ASSUME Flushed, TypeOk, Silent, TimerIrq, R # 0, running < 256
  PROVE  (Unmoved \/ Moved) /\ Still
<1>1. /\ P \in {0, 1} /\ Q \in {0, 1} /\ P # Q /\ Port = {P, Q}
      /\ R \in Nat /\ R \div 2 \in Nat /\ running \in Nat /\ tx_shift_reg[Q] = 0
  <2>1. R \in Nat
    BY PortsAre DEF TypeOk, R
  <2> QED BY <2>1, PortsAre, Halves DEF TypeOk, Silent
<1>2. Q \notin Due /\ Q \notin Ends /\ (P \in Ends <=> P \in Due /\ R \div 2 = 0)
  BY <1>1 DEF Ends, Due, R
<1>3. Still
  BY <1>1, <1>2 DEF TimerIrq, Still
<1>4. P' = P /\ owed \in [Lines -> Seq(Chars)]
  BY SamePort DEF TimerIrq, main, TypeOk
<1>5. Full = IF P \in Due /\ Len(rx[P]) = 9 THEN {P} ELSE {}
  BY <1>1, <1>2 DEF Full, Due
<1>6. Ended = IF P \in Due /\ R \div 2 = 0 THEN 1 ELSE 0
  BY <1>1, <1>2 DEF Ended
<1>7. Down(0) = running
  BY <1>1 DEF Down
<1>8. running' = Down(Ended) /\ timer' = (\A n \in 1 .. Ended : Down(n) # 0) /\ Arrived({Got(p) : p \in Full})
  BY DEF TimerIrq
<1>9. CASE P \notin Due
  <2>1. Full = {} /\ Ended = 0
    BY <1>5, <1>6, <1>9
  <2>2. owed' = owed /\ last' = {}
    <3>1. {Got(p) : p \in Full} = {}
      BY <2>1
    <3> QED BY <1>4, <1>8, <3>1, NoneArrives
  <2>3. R' = R /\ rx'[P] = rx[P]
    BY <1>1, <1>2, <1>4, <1>9 DEF TimerIrq, R
  <2>4. running' = running
    BY <1>7, <1>8, <2>1
  <2> QED BY <1>3, <2>2, <2>3, <2>4 DEF Unmoved
<1>10. CASE P \in Due
  <2>1. R' = R \div 2
    <3>1. R' = IF P \in Ends THEN 0 ELSE R \div 2
      BY <1>1, <1>4, <1>10 DEF TimerIrq, R
    <3> QED BY <3>1, <1>2
  <2>2. rx'[P] = Sees(P, R % 2)
    BY <1>1, <1>10 DEF TimerIrq, R
  <2>3. IF R \div 2 = 0 THEN running' = Down(1) /\ timer' = (Down(1) # 0)
        ELSE running' = running /\ timer' = TRUE
    <3>1. CASE R \div 2 = 0
      <4>1. Ended = 1 /\ 1 .. 1 = {1}
        BY <1>6, <1>10, <3>1
      <4>2. timer' = (Down(1) # 0)
        BY <1>8, <4>1
      <4> QED BY <1>8, <3>1, <4>1, <4>2
    <3>2. CASE R \div 2 # 0
      <4>1. Ended = 0 /\ 1 .. 0 = {}
        BY <1>6, <1>10, <3>2
      <4>2. timer' = TRUE
        BY <1>8, <4>1
      <4> QED BY <1>7, <1>8, <3>2, <4>1, <4>2
    <3> QED BY <3>1, <3>2
  <2>4. IF Len(rx[P]) = 9 THEN Arrived({<<P, IF R % 2 = 1 THEN Value(rx[P]) ELSE 256>>})
        ELSE owed' = owed /\ last' = {}
    <3>1. CASE Len(rx[P]) = 9
      <4>1. {Got(p) : p \in Full} = {Got(P)}
        BY <1>5, <1>10, <3>1
      <4>2. Got(P) = <<P, IF R % 2 = 1 THEN Value(rx[P]) ELSE 256>>
        BY DEF Got, R
      <4> QED BY <1>8, <3>1, <4>1, <4>2
    <3>2. CASE Len(rx[P]) # 9
      <4>1. {Got(p) : p \in Full} = {}
        BY <1>5, <3>2
      <4> QED BY <1>4, <1>8, <3>2, <4>1, NoneArrives
    <3> QED BY <3>1, <3>2
  <2> QED BY <1>3, <2>1, <2>2, <2>3, <2>4 DEF Moved
<1> QED BY <1>9, <1>10

(* The program stays in the putc of the line it writes to.                   *)
LEMMA PlaceStep ==
  ASSUME Flushed, TypeOk, PlaceOk, [Next]_vars
  PROVE  PlaceOk'
<1>0. Lines = {0, 1, 2} /\ Uart = 2
  BY PortIs
<1> USE <1>0 DEF PlaceOk, Soft, Ring, Quiescent
<1>1. CASE Open
  BY <1>1 DEF Open, Waiting, Asleep, PutNext, main
<1>2. CASE Close
  BY <1>2 DEF Close, Waiting, Asleep, PutNext, main
<1>3. CASE Write
  BY <1>3 DEF Write, Waiting, Asleep, PutNext, main
<1>4. CASE WriteDone
  BY <1>4 DEF WriteDone, Waiting, Asleep, PutNext, main
<1>5. CASE Room
  BY <1>5 DEF Room, Waiting, Asleep, PutNext, main
<1>6. CASE StoreData
  BY <1>6 DEF StoreData, Waiting, Asleep, PutNext, main
<1>7. CASE Advance
  BY <1>7 DEF Advance, Waiting, Asleep, PutNext, main
<1>8. CASE EnableIrq
  <2>1. Again /\ left \in Nat
    BY <1>8 DEF EnableIrq, TypeOk
  <2>2. line' = line /\ c' \in Chars \cup {0}
    BY ONLY <2>1, AgainPuts
  <2>3. \/ pc' = "done" /\ c' = 0
        \/ pc' = "room" /\ line = Uart /\ c' \in Chars
        \/ pc' = "low" /\ line # Uart /\ c' \in Chars
    BY ONLY <2>1, AgainPuts
  <2> QED BY <1>8, <2>2, <2>3 DEF EnableIrq, TypeOk
<1>9. CASE ReadLow
  BY <1>9 DEF ReadLow, Waiting, Asleep, PutNext, main
<1>10. CASE ReadHigh
  BY <1>10 DEF ReadHigh, Waiting, Asleep, PutNext, main
<1>11. CASE SetHigh
  BY <1>11 DEF SetHigh, Waiting, Asleep, PutNext, main
<1>12. CASE SetLow
  BY <1>12 DEF SetLow, Waiting, Asleep, PutNext, main
<1>13. CASE EnableTimer
  BY <1>13 DEF EnableTimer, Waiting, Asleep, PutNext, main
<1>14. CASE LoadRunning
  BY <1>14 DEF LoadRunning, Waiting, Asleep, PutNext, main
<1>15. CASE StoreRunning
  <2>1. Again /\ left \in Nat
    BY <1>15 DEF StoreRunning, TypeOk
  <2>2. line' = line /\ c' \in Chars \cup {0}
    BY ONLY <2>1, AgainPuts
  <2>3. \/ pc' = "done" /\ c' = 0
        \/ pc' = "room" /\ line = Uart /\ c' \in Chars
        \/ pc' = "low" /\ line # Uart /\ c' \in Chars
    BY ONLY <2>1, AgainPuts
  <2> QED BY <1>15, <2>2, <2>3 DEF StoreRunning, TypeOk
<1>16. CASE Sleep
  BY <1>16 DEF Sleep, Waiting, Asleep, PutNext, main
<1>17. CASE UdreIrq
  BY <1>17 DEF UdreIrq, Waiting, Asleep, PutNext, main
<1>18. CASE Transmit
  BY <1>18 DEF Transmit, Waiting, Asleep, PutNext, main
<1>19. CASE TimerIrq
  BY <1>19 DEF TimerIrq, Waiting, Asleep, PutNext, main
<1>20. CASE UNCHANGED vars
  BY <1>20 DEF vars, main
<1> QED BY <1>1, <1>2, <1>3, <1>4, <1>5, <1>6, <1>7, <1>8, <1>9, <1>10, <1>11, <1>12, <1>13,
           <1>14, <1>15, <1>16, <1>17, <1>18, <1>19, <1>20 DEF Next, Host, Program

(* The types of what the software UART shares.                               *)
LEMMA RegType ==
  ASSUME Flushed, TypeOk
  PROVE  R \in Nat /\ rx[P] \in Seq({0, 1}) /\ owed[P] \in Seq(Chars) /\ Chars \subseteq 1 .. 255
BY PortsAre DEF Flushed, TypeOk, R

(* A register that carries a character does not look empty to swuart_putc(). *)
LEMMA CarryingIs ==
  ASSUME Flushed, TypeOk, Carrying
  PROVE  R # 256 /\ R # 0
<1>1. ASSUME NEW ch \in Chars, Split(R, rx[P], ch)
      PROVE  R # 256 /\ R # 0
  <2>1. R \in Nat /\ rx[P] \in Seq({0, 1}) /\ ch \in 1 .. 255
    BY RegType
  <2> QED BY ONLY <1>1, <2>1, NotHalf
<1> QED BY <1>1 DEF Carrying

(* A register that is 0 is idle.                                            *)
LEMMA ZeroIsNothing ==
  ASSUME Flushed, TypeOk, LineOk, pc # "setLow", R = 0
  PROVE  Nothing
BY CarryingIs DEF LineOk, Trailing

(* The line keeps its invariant when nothing of it changes.                  *)
LEMMA LineSame ==
  ASSUME LineOk, pc # "setLow", pc' # "setLow", P' = P, R' = R, rx'[P] = rx[P], owed'[P] = owed[P]
  PROVE  LineOk'
<1>1. CASE Nothing
  BY <1>1 DEF LineOk, Nothing
<1>2. CASE Carrying
  BY <1>2 DEF LineOk, Carrying
<1>3. CASE Trailing
  BY <1>3 DEF LineOk, Trailing
<1> QED BY <1>1, <1>2, <1>3 DEF LineOk

(* When the timer moves a bit, the receiver sees the next one, and with the last *)
(* one has the character that is owed.                                       *)
LEMMA LineMoved ==
  ASSUME Flushed, TypeOk, LineOk, pc # "setLow", pc' = pc, P' = P, R # 0, Moved
  PROVE  LineOk' /\ ((owed' = owed /\ last' = {}) \/ L!Carry({P}))
<1>1. /\ R \in Nat /\ rx[P] \in Seq({0, 1}) /\ owed \in [Lines -> Seq(Chars)] /\ P \in Lines
      /\ Chars \subseteq 1 .. 255
  BY RegType, PortsAre DEF TypeOk
<1>2. CASE Carrying
  <2>1. PICK ch \in Chars : owed[P] = <<ch>> /\ Split(R, rx[P], ch)
    BY <1>2 DEF Carrying
  <2>2. ch \in 1 .. 255
    BY <1>1
  <2>3. CASE Len(rx[P]) = 9
    <3>1. (R = 1 \/ R = 127) /\ Value(rx[P]) = ch
      <4>1. R \in Nat /\ rx[P] \in Seq({0, 1}) /\ Split(R, rx[P], ch)
        BY <1>1, <2>1
      <4>2. Whole(rx[P])
        BY <2>3 DEF Whole
      <4> QED BY ONLY <4>1, <4>2, <2>2, LastBit
    <3>2. R % 2 = 1 /\ R \div 2 \in {0, 63}
      BY <3>1
    <3>3. Arrived({<<P, ch>>})
      BY <2>3, <3>1, <3>2 DEF Moved
    <3>4. rx'[P] = <<>>
      BY <2>3 DEF Moved, Sees
    <3>5. ch \in 0 .. 256 /\ owed[P] # <<>> /\ Head(owed[P]) = ch /\ Tail(owed[P]) = <<>>
      BY <2>1, <2>2
    <3>6. L!Carry({P}) /\ owed'[P] = <<>>
      BY <1>1, <3>3, <3>5, OneArrives
    <3>7. R' \in {0, 63}
      BY <3>2 DEF Moved
    <3>8. LineOk'
      BY <3>4, <3>6, <3>7 DEF LineOk, Nothing, Trailing
    <3> QED BY <3>6, <3>8
  <2>4. CASE Len(rx[P]) # 9
    <3>1. /\ Split(R \div 2, Append(rx[P], R % 2), ch)
          /\ rx[P] = <<>> => R % 2 = 0
      BY ONLY <1>1, <2>1, <2>2, <2>4, NextBit
    <3>2. rx'[P] = Append(rx[P], R % 2) /\ R' = R \div 2
      BY <2>4, <3>1 DEF Moved, Sees
    <3>3. owed' = owed /\ last' = {}
      BY <2>4 DEF Moved
    <3> QED BY <2>1, <3>1, <3>2, <3>3 DEF LineOk, Carrying
  <2> QED BY <2>3, <2>4
<1>3. CASE Trailing
  <2>1. Len(rx[P]) # 9 /\ rx[P] = <<>> /\ owed[P] = <<>>
    BY <1>3 DEF Trailing
  <2>2. R % 2 = 1 /\ R \div 2 \in {0, 1, 3, 7, 15, 31}
    BY <1>3 DEF Trailing
  <2>3. rx'[P] = <<>> /\ R' = R \div 2 /\ owed' = owed /\ last' = {}
    BY <2>1, <2>2 DEF Moved, Sees
  <2> QED BY <2>1, <2>2, <2>3 DEF LineOk, Nothing, Trailing
<1> QED BY <1>2, <1>3 DEF LineOk, Nothing

(* Halving keeps half of a bound.                                            *)
LEMMA HalfOf ==
  ASSUME NEW r \in Nat, NEW n \in Nat, r >= 2 * n
  PROVE  r \div 2 >= n
OBVIOUS

(* What the timer's interrupt does to the software UART, and to its line.       *)
LEMMA TimerKeeps ==
  ASSUME Flushed, TypeOk, SoftOk, TimerIrq
  PROVE  /\ LineOk' /\ Silent' /\ RunOk' /\ TimerOk' /\ ReachOk'
         /\ (owed' = owed /\ last' = {}) \/ L!Carry({P})
<1>0. P' = P /\ Q' = Q
  BY SamePort DEF TimerIrq, main
<1>1. /\ R # 0 /\ pc \notin {"setLow", "timer"} /\ pc' = pc /\ line' = line /\ low' = low /\ tmp' = tmp
      /\ fresh' = TRUE /\ (fresh => Looping)
  BY DEF TimerIrq, SoftOk, TimerOk, main
<1>2. running \in {0, 1} /\ running = IF pc \in {"load", "run"} THEN 0 ELSE 1
  BY <1>1 DEF SoftOk, RunOk
<1>3. (Unmoved \/ Moved) /\ Still
  BY <1>1, <1>2, TimerIs DEF SoftOk
<1>4. R \in Nat /\ R \div 2 \in Nat
  BY RegType, Halves
<1>5. LineOk' /\ ((owed' = owed /\ last' = {}) \/ L!Carry({P}))
  <2>1. CASE Unmoved
    BY <1>0, <1>1, <2>1, LineSame DEF Unmoved, SoftOk
  <2>2. CASE Moved
    BY <1>0, <1>1, <2>2, LineMoved DEF SoftOk
  <2> QED BY <1>3, <2>1, <2>2
<1>6. pc \in {"load", "run"} => R \div 2 # 0
  BY <1>1, <1>4 DEF SoftOk, ReachOk, AtLeast
<1>7. RunOk' /\ TimerOk'
  <2>1. CASE Unmoved
    BY <1>1, <1>2, <2>1 DEF Unmoved, RunOk, TimerOk, SoftOk
  <2>2. CASE Moved /\ R \div 2 = 0
    <3>1. running = 1 /\ pc \notin {"load", "run"}
      BY <1>2, <1>6, <2>2
    <3>2. Down(1) = 0
      BY <3>1 DEF Down
    <3>3. running' = 0 /\ timer' = FALSE
      BY <2>2, <3>2 DEF Moved
    <3> QED BY <1>1, <2>2, <3>3 DEF Moved, RunOk, TimerOk
  <2>3. CASE Moved /\ R \div 2 # 0
    <3>2. running' = running
      BY <2>3 DEF Moved
    <3> QED BY <1>1, <1>2, <2>3, <3>2 DEF Moved, RunOk, TimerOk
  <2> QED BY <1>3, <2>1, <2>2, <2>3
<1>8. ReachOk'
  <2>1. R' = R \/ R' = R \div 2
    BY <1>3 DEF Unmoved, Moved
  <2>2. \A n \in Nat : R >= 2 * n => R' >= n
    BY <1>4, <2>1, HalfOf
  <2>3. pc \in {"high", "load", "run"} => ~fresh
    BY <1>1 DEF Looping, Waiting, Asleep
  <2>4. ASSUME NEW n \in Nat, AtLeast(n), ~fresh
        PROVE  AtLeast(n)'
    BY <1>1, <2>2, <2>4 DEF AtLeast
  <2>5. pc = "high" /\ low = 0 => AtLeast(256)'
    BY <1>1, <2>3, <2>4 DEF SoftOk, ReachOk
  <2>6. pc = "load" => AtLeast(256)'
    BY <2>3, <2>4 DEF SoftOk, ReachOk
  <2>7. pc = "run" => tmp = 0 /\ AtLeast(128)'
    BY <2>3, <2>4 DEF SoftOk, ReachOk
  <2>8. pc \notin {"setHigh"} \cup Ring \cup Quiescent /\ ~(pc = "done" /\ line = Uart)
    BY <1>1 DEF SoftOk, ReachOk
  <2> QED BY <1>1, <2>5, <2>6, <2>7, <2>8 DEF ReachOk
<1>9. Silent'
  <2>1. owed'[Q] = owed[Q]
    <3>1. Q # P /\ Q \in Lines
      BY PortsAre
    <3> QED BY <1>5, <3>1 DEF L!Carry
  <2> QED BY <1>0, <1>3, <2>1 DEF SoftOk, Silent, Still
<1> QED BY <1>5, <1>7, <1>8, <1>9

(* While no port sends, the program may turn to any of them.                  *)
AllSilent == \A p \in Port : tx_shift_reg[p] = 0 /\ owed[p] = <<>> /\ rx[p] = <<>>
LEMMA TurnTo ==
  ASSUME Flushed, TypeOk, SoftOk, R = 0, pc # "setLow", pc' # "setLow", soft' = soft, owed' = owed
  PROVE  R' = 0 /\ LineOk' /\ Silent'
<1>1. Nothing
  BY ZeroIsNothing DEF SoftOk
<1>2. AllSilent
  BY <1>1, PortsAre DEF AllSilent, Nothing, SoftOk, Silent, R
<1>3. P' \in Port /\ Q' \in Port
  <2>1. P' \in {0, 1} /\ Q' \in {0, 1}
    BY DEF P, Q
  <2> QED BY <2>1, PortIs
<1>4. /\ tx_shift_reg'[P'] = 0 /\ owed'[P'] = <<>> /\ rx'[P'] = <<>>
      /\ tx_shift_reg'[Q'] = 0 /\ owed'[Q'] = <<>> /\ rx'[Q'] = <<>>
  BY <1>2, <1>3 DEF AllSilent, soft
<1> QED BY <1>4 DEF R, LineOk, Nothing, Silent

(* The program leaves the other port alone.                                  *)
LEMMA SilentStep ==
  ASSUME Flushed, TypeOk, SoftOk, Next, ~TimerIrq, line' = line
  PROVE  Silent' /\ P' = P
<1>2. P' = P /\ Q' = Q
  BY SamePort
<1>3. Q # P /\ Q # Uart /\ Q \in Port /\ Q \in Lines
  BY PortsAre
<1>4. SetHigh \/ SetLow => line = P
  BY LineIs DEF SetHigh, SetLow, SoftOk, PlaceOk, Soft
<1>5. tx_shift_reg'[Q] = tx_shift_reg[Q]
  BY <1>3, <1>4 DEF TypeOk, Next, Host, Program, Open, Close, Write, WriteDone, Room,
     StoreData, Advance, EnableIrq, ReadLow,
     ReadHigh, SetHigh, SetLow, EnableTimer, LoadRunning, StoreRunning, Sleep, UdreIrq, Transmit, soft
<1>6. rx' = rx
  BY DEF Next, Host, Program, Open, Close, Write, WriteDone, Room,
     StoreData, Advance, EnableIrq, ReadLow, ReadHigh,
     SetHigh, SetLow, EnableTimer, LoadRunning, StoreRunning, Sleep, UdreIrq, Transmit, soft
<1>7. owed[Q] = <<>> => owed'[Q] = <<>>
  BY <1>3, <1>4 DEF TypeOk, Next, Host, Program, Open, Close, Write, WriteDone, Room,
     StoreData, Advance, EnableIrq, ReadLow,
     ReadHigh, SetHigh, SetLow, EnableTimer, LoadRunning, StoreRunning, Sleep, UdreIrq, Transmit, Arrived
<1> QED BY <1>2, <1>5, <1>6, <1>7 DEF Silent, SoftOk

(* The UART's transmitter owes less on its own line only.                    *)
LEMMA TransmitOwes ==
  ASSUME owed \in [Lines -> Seq(Chars)], NEW ch, Arrived({<<Uart, ch>>}), NEW l \in Lines, l # Uart
  PROVE  owed'[l] = owed[l]
<1>1. \A x : <<l, x>> # <<Uart, ch>>
  BY SMT
<1>2. ~ \E x \in 0 .. 256 : <<l, x>> \in {<<Uart, ch>>}
  BY <1>1, Zenon
<1> QED BY <1>2 DEF Arrived

(* The program's steps. *)
LEMMA SoftStep ==
  ASSUME Flushed, TypeOk, SoftOk, Next, ~TimerIrq
  PROVE  LineOk' /\ Silent' /\ RunOk' /\ TimerOk' /\ ReachOk'
<1>0. /\ Uart = 2 /\ R \in Nat /\ rx[P] \in Seq({0, 1}) /\ owed \in [Lines -> Seq(Chars)]
      /\ Lines = {0, 1, 2} /\ Chars \subseteq 1 .. 255 /\ pc \in Places /\ low \in Nat
      /\ tx_shift_reg \in [Port -> Nat] /\ Port = {0, 1} /\ P \in Port /\ P # 2 /\ P \in Lines
      /\ line \in {0, 1} => line = P
  BY RegType, PortIs, PortsAre, LineIs DEF TypeOk
<1>1. P' = P /\ soft' = soft /\ owed'[P] = owed[P]
      /\ pc \notin {"setLow", "timer", "load", "run"} /\ pc' \notin {"setLow", "timer", "load", "run"}
      => LineOk' /\ RunOk' /\ TimerOk'
  BY LineSame DEF SoftOk, RunOk, TimerOk, R, soft
<1>2. ASSUME tx_shift_reg' = tx_shift_reg, pc' = pc, line' = line, low' = low, tmp' = tmp, fresh' = fresh
      PROVE  ReachOk'
  BY <1>2, SamePort DEF SoftOk, ReachOk, AtLeast, R
<1>3. P' = P /\ soft' = soft /\ R = 0 /\ pc' \notin {"high", "timer", "load", "run"} => ReachOk'
  BY DEF ReachOk, R, soft
<1>4. line' = line => Silent' /\ P' = P
  BY SilentStep
<1> USE DEF Places, Soft, Ring, Quiescent
<1>10. CASE Open
  <2>0. Silent' /\ P' = P
    BY <1>4, <1>10 DEF Open
  <2>1. R = 0 /\ soft' = soft /\ owed' = owed
    BY <1>10 DEF Open, Waiting, Asleep, SoftOk, ReachOk
  <2>2. /\ pc \notin {"setLow", "timer", "load", "run"}
        /\ pc' \in Ring \cup Quiescent
    BY <1>10 DEF Open, Waiting, Asleep
  <2>8. LineOk' /\ RunOk' /\ TimerOk'
    BY <1>1, <2>0, <2>1, <2>2
  <2>9. ReachOk'
    BY <1>3, <2>0, <2>1, <2>2
  <2> QED BY <2>0, <2>8, <2>9
<1>11. CASE Close
  <2>0. Silent' /\ P' = P
    BY <1>4, <1>11 DEF Close
  <2>1. R = 0 /\ soft' = soft /\ owed' = owed
    BY <1>11 DEF Close, Waiting, Asleep, SoftOk, ReachOk
  <2>2. /\ pc \notin {"setLow", "timer", "load", "run"}
        /\ pc' \in Ring \cup Quiescent
    BY <1>11 DEF Close, Waiting, Asleep
  <2>8. LineOk' /\ RunOk' /\ TimerOk'
    BY <1>1, <2>0, <2>1, <2>2
  <2>9. ReachOk'
    BY <1>3, <2>0, <2>1, <2>2
  <2> QED BY <2>0, <2>8, <2>9
<1>12. CASE Write
  <2>1. R = 0 /\ pc \in Quiescent
    BY <1>12 DEF Write, Waiting, Asleep, SoftOk, ReachOk
  <2>2. (pc' = "low" \/ pc' = "room") /\ soft' = soft /\ owed' = owed
    BY <1>12 DEF Write, PutNext
  <2>3. R' = 0 /\ LineOk' /\ Silent'
    BY <2>1, <2>2, TurnTo
  <2>4. RunOk' /\ TimerOk'
    BY <2>1, <2>2, <2>3 DEF SoftOk, RunOk, TimerOk, soft
  <2> QED BY <2>2, <2>3, <2>4 DEF ReachOk
<1>13. CASE WriteDone
  <2>1. R = 0
    <3>1. CASE line = Uart
      BY <1>13, <3>1 DEF WriteDone, SoftOk, ReachOk
    <3>2. CASE line # Uart
      <4>1. Flushes
        BY <1>0, <3>2 DEF TypeOk, Flushed, Flushes
      <4> QED BY <1>13, <4>1 DEF WriteDone, SoftOk, RunOk
    <3> QED BY <3>1, <3>2
  <2>2. soft' = soft /\ owed' = owed /\ pc = "done" /\ pc' = "bav"
    BY <1>13 DEF WriteDone
  <2>3. R' = 0 /\ LineOk' /\ Silent'
    BY <2>1, <2>2, TurnTo
  <2>4. RunOk' /\ TimerOk'
    BY <2>1, <2>2, <2>3 DEF SoftOk, RunOk, TimerOk, soft
  <2> QED BY <2>2, <2>3, <2>4 DEF ReachOk
<1>14. CASE Room
  <2>0. Silent' /\ P' = P
    BY <1>4, <1>14 DEF Room
  <2>1. R = 0 /\ soft' = soft /\ owed' = owed
    BY <1>14 DEF Room, SoftOk, ReachOk
  <2>2. /\ pc \notin {"setLow", "timer", "load", "run"}
        /\ pc' \in Ring \cup Quiescent
    BY <1>14 DEF Room, Waiting, Asleep
  <2>8. LineOk' /\ RunOk' /\ TimerOk'
    BY <1>1, <2>0, <2>1, <2>2
  <2>9. ReachOk'
    BY <1>3, <2>0, <2>1, <2>2
  <2> QED BY <2>0, <2>8, <2>9
<1>15. CASE StoreData
  <2>0. Silent' /\ P' = P
    BY <1>4, <1>15 DEF StoreData
  <2>1. R = 0 /\ soft' = soft /\ owed' = owed
    BY <1>15 DEF StoreData, SoftOk, ReachOk
  <2>2. /\ pc \notin {"setLow", "timer", "load", "run"}
        /\ pc' \in Ring \cup Quiescent
    BY <1>15 DEF StoreData, Waiting, Asleep
  <2>8. LineOk' /\ RunOk' /\ TimerOk'
    BY <1>1, <2>0, <2>1, <2>2
  <2>9. ReachOk'
    BY <1>3, <2>0, <2>1, <2>2
  <2> QED BY <2>0, <2>8, <2>9
<1>16. CASE Advance
  <2>0. Silent' /\ P' = P
    BY <1>4, <1>16 DEF Advance
  <2>1. R = 0 /\ soft' = soft /\ owed'[P] = owed[P] /\ pc = "advance" /\ pc' = "enable"
    BY <1>0, <1>16 DEF Advance, SoftOk, ReachOk
  <2>8. LineOk' /\ RunOk' /\ TimerOk'
    BY <1>1, <2>0, <2>1
  <2>9. ReachOk'
    BY <1>3, <2>0, <2>1
  <2> QED BY <2>0, <2>8, <2>9
<1>17. CASE EnableIrq
  <2>0. Silent' /\ P' = P
    <3>1. Again /\ left \in Nat
      BY <1>17 DEF EnableIrq, TypeOk
    <3>2. line' = line
      BY ONLY <3>1, AgainPuts
    <3> QED BY <1>4, <3>2
  <2>1. Again /\ left \in Nat
    BY <1>17 DEF EnableIrq, TypeOk
  <2>2. \/ pc' = "done"
        \/ pc' = "room" /\ line = Uart
        \/ pc' = "low" /\ line # Uart
    BY ONLY <2>1, AgainPuts
  <2>3. line = Uart /\ R = 0
    BY <1>17 DEF EnableIrq, SoftOk, PlaceOk, ReachOk
  <2>4. pc' = "done" \/ pc' = "room"
    BY <2>2, <2>3
  <2>5. soft' = soft /\ owed' = owed /\ pc = "enable"
    BY <1>17 DEF EnableIrq
  <2>8. LineOk' /\ RunOk' /\ TimerOk'
    BY <1>1, <2>0, <2>3, <2>4, <2>5
  <2>9. ReachOk'
    BY <1>3, <2>0, <2>3, <2>4, <2>5
  <2> QED BY <2>0, <2>8, <2>9
<1>18. CASE Sleep
  <2>0. Silent' /\ P' = P
    BY <1>4, <1>18 DEF Sleep
  <2>1. R = 0 /\ (pc' = "idle" \/ pc' = "standby")
    BY <1>18 DEF Sleep, SoftOk, ReachOk
  <2>2. soft' = soft /\ owed' = owed /\ pc = "bav"
    BY <1>18 DEF Sleep
  <2>8. LineOk' /\ RunOk' /\ TimerOk'
    BY <1>1, <2>0, <2>1, <2>2
  <2>9. ReachOk'
    BY <1>3, <2>0, <2>1, <2>2
  <2> QED BY <2>0, <2>8, <2>9
<1>19. CASE UdreIrq
  <2>0. Silent' /\ P' = P
    BY <1>4, <1>19 DEF UdreIrq, main
  <2>1. ReachOk'
    BY <1>19, <1>2 DEF UdreIrq, main, soft
  <2>2. LineOk'
    BY <1>19, <2>0, LineSame DEF UdreIrq, main, soft, SoftOk, LineOk, R
  <2> QED BY <1>19, <2>0, <2>1, <2>2 DEF UdreIrq, main, soft, SoftOk, RunOk, TimerOk, R
<1>20. CASE Transmit
  <2>0. Silent' /\ P' = P
    BY <1>4, <1>20 DEF Transmit, main
  <2>1. ReachOk'
    BY <1>20, <1>2 DEF Transmit, main, soft
  <2>2. owed'[P] = owed[P]
    BY <1>0, <1>20, TransmitOwes DEF Transmit
  <2>3. LineOk'
    BY <1>20, <2>0, <2>2, LineSame DEF Transmit, main, soft, SoftOk, LineOk, R
  <2> QED BY <1>20, <2>0, <2>1, <2>3 DEF Transmit, main, soft, SoftOk, RunOk, TimerOk, R
<1>21. CASE ReadLow
  <2>0. Silent' /\ P' = P
    BY <1>4, <1>21 DEF ReadLow
  <2>1. line = P
    BY <1>0, <1>21 DEF ReadLow, SoftOk, PlaceOk
  <2>2. pc' = "high" /\ low' = Low(R) /\ R' = R /\ fresh' = FALSE
    BY <2>0, <1>21, <2>1 DEF ReadLow, R, soft
  <2>3. Low(R) = 0 => R = 0 \/ R >= 512
    <3>1. SUFFICES ASSUME Low(R) = 0, R # 0
                   PROVE  R >= 512
      OBVIOUS
    <3>2. R # 256
      <4>1. CASE Nothing
        BY <3>1, <4>1 DEF Nothing
      <4>2. CASE Trailing
        BY <4>2 DEF Trailing
      <4>3. CASE Carrying
        BY <4>3, CarryingIs
      <4> QED BY <1>21, <4>1, <4>2, <4>3 DEF ReadLow, SoftOk, LineOk
    <3>3. PICK q \in Nat : \E l \in Nat : /\ R = 256 * q + l /\ l < 256 
                         /\ Low(R) = l /\ HighByte(R) = 256 * q
      BY <1>0, Bytes
    <3>4. R = 256 * q
      BY <3>1, <3>3
    <3> QED BY <3>1, <3>2, <3>4
  <2>4. ReachOk'
    BY <2>2, <2>3 DEF ReachOk, AtLeast
  <2> QED BY <1>21, <1>1, <2>0, <2>4 DEF ReadLow, soft
<1>22. CASE ReadHigh
  <2>0. Silent' /\ P' = P
    BY <1>4, <1>22 DEF ReadHigh
  <2>1. line = P
    BY <1>0, <1>22 DEF ReadHigh, SoftOk, PlaceOk
  <2>2. /\ R' = R /\ (pc' = "low" \/ pc' = "setHigh")
        /\ pc' = "setHigh" => low = 0 /\ HighByte(R) = 0
    BY <2>0, <1>22, <2>1 DEF ReadHigh, R, soft
  <2>3. pc' = "setHigh" => R = 0
    <3>1. SUFFICES ASSUME low = 0, HighByte(R) = 0, R # 0
                   PROVE  FALSE
      BY <2>2
    <3>2. R >= 256
      BY <1>0, <1>22, <3>1 DEF ReadHigh, SoftOk, ReachOk, AtLeast
    <3>3. PICK q \in Nat : \E l \in Nat : /\ R = 256 * q + l /\ l < 256 
                         /\ Low(R) = l /\ HighByte(R) = 256 * q
      BY <1>0, Bytes
    <3> QED BY <3>1, <3>2, <3>3
  <2>4. ReachOk'
    BY <2>2, <2>3 DEF ReachOk
  <2> QED BY <1>22, <1>1, <2>0, <2>2, <2>4 DEF ReadHigh, soft
<1>23. CASE SetHigh
  <2>0. Silent' /\ P' = P
    BY <1>4, <1>23 DEF SetHigh
  <2>1. line = P /\ c \in 1 .. 255 /\ R = 0 /\ c' = c
    BY <1>0, <1>23 DEF SetHigh, SoftOk, PlaceOk, ReachOk
  <2>2. Nothing
    BY <1>23, <2>1, ZeroIsNothing DEF SetHigh, SoftOk
  <2>3. HighByte(Frame(c)) \in Nat /\ HighByte(Frame(c)) >= 512
    BY ONLY <2>1, FrameRange
  <2>4. R' = HighByte(Frame(c)) + Low(0)
    BY <1>0, <1>23, <2>0, <2>1 DEF SetHigh, R
  <2>5. R' = HighByte(Frame(c))
    BY <2>3, <2>4 DEF Low
  <2>6. LineOk'
    BY <1>23, <2>0, <2>1, <2>2, <2>5 DEF SetHigh, LineOk, Nothing
  <2>7. RunOk' /\ TimerOk'
    BY <1>23, <2>1 DEF SetHigh, SoftOk, RunOk, TimerOk
  <2> QED BY <1>23, <2>0, <2>6, <2>7 DEF SetHigh, ReachOk
<1>24. CASE SetLow
  <2>0. Silent' /\ P' = P
    BY <1>4, <1>24 DEF SetLow
  <2>1. line = P /\ c \in 1 .. 255 /\ c \in Chars
    BY <1>0, <1>24 DEF SetLow, SoftOk, PlaceOk
  <2>2. R = HighByte(Frame(c)) /\ owed[P] = <<>> /\ rx[P] = <<>>
    BY <1>24 DEF SetLow, SoftOk, LineOk
  <2>3. Frame(c) \in Nat /\ Frame(c) >= 514 /\ HighByte(Frame(c)) \in Nat
    BY ONLY <2>1, FrameRange
  <2>4. R' = HighByte(R) + Low(Frame(c))
    BY <1>0, <1>24, <2>0, <2>1 DEF SetLow, R
  <2>5. HighByte(R + Low(0)) + Low(Frame(c)) = Frame(c)
    BY <2>2, <2>3, Pieces
  <2>6. R + Low(0) = R
    BY <1>0 DEF Low
  <2>7. R' = Frame(c)
    BY <2>4, <2>5, <2>6
  <2>8. owed'[P] = <<c>>
    BY <1>0, <1>24, <2>1, <2>2 DEF SetLow
  <2>9. Split(Frame(c), <<>>, c)
    BY DEF Split, Shifted
  <2>10. rx'[P] = <<>>
    BY <1>24, <2>2 DEF SetLow
  <2>11. Carrying'
    BY <2>0, <2>1, <2>7, <2>8, <2>9, <2>10 DEF Carrying
  <2>12. LineOk'
    BY <1>24, <2>11 DEF SetLow, LineOk
  <2>13. RunOk' /\ TimerOk'
    BY <1>24 DEF SetLow, SoftOk, RunOk, TimerOk
  <2> QED BY <1>24, <2>0, <2>3, <2>7, <2>12, <2>13 DEF SetLow, ReachOk
<1>25. CASE EnableTimer
  <2>0. Silent' /\ P' = P
    BY <1>4, <1>25 DEF EnableTimer
  <2>1. R' = R /\ R >= 512 /\ owed' = owed /\ rx' = rx /\ pc' = "load" /\ fresh' = FALSE
    BY <1>25, <2>0 DEF EnableTimer, SoftOk, ReachOk, R
  <2>2. LineOk'
    BY <1>25, <2>0, <2>1, LineSame DEF EnableTimer, SoftOk
  <2>3. RunOk' /\ TimerOk'
    BY <1>0, <1>25, <2>1 DEF EnableTimer, SoftOk, RunOk, TimerOk
  <2> QED BY <2>0, <2>1, <2>2, <2>3 DEF ReachOk, AtLeast
<1>26. CASE LoadRunning
  <2>0. Silent' /\ P' = P
    BY <1>4, <1>26 DEF LoadRunning
  <2>1. /\ R' = R /\ R >= 256 /\ owed' = owed /\ rx' = rx /\ pc' = "run" /\ fresh' = FALSE
        /\ tmp' = 0
    BY <1>0, <1>26, <2>0 DEF LoadRunning, soft, SoftOk, ReachOk, AtLeast, R, RunOk
  <2>2. LineOk'
    BY <1>26, <2>0, <2>1, LineSame DEF LoadRunning, soft, SoftOk
  <2>3. RunOk' /\ TimerOk'
    BY <1>0, <1>26, <2>1 DEF LoadRunning, soft, SoftOk, RunOk, TimerOk
  <2> QED BY <2>0, <2>1, <2>2, <2>3 DEF ReachOk, AtLeast
<1>27. CASE StoreRunning
  <2>0. Silent' /\ P' = P
    <3>1. Again /\ left \in Nat
      BY <1>27 DEF StoreRunning, TypeOk
    <3>2. line' = line
      BY ONLY <3>1, AgainPuts
    <3> QED BY <1>4, <3>2
  <2>1. /\ R' = R /\ R >= 128 /\ owed' = owed /\ rx' = rx /\ timer' = timer
        /\ running' = (0 + 1) % 256 /\ line = P /\ line # Uart
    BY <1>0, <1>27, <2>0 DEF StoreRunning, SoftOk, PlaceOk, ReachOk, AtLeast, R
  <2>2. Again /\ left \in Nat
    BY <1>27 DEF StoreRunning, TypeOk
  <2>3. /\ line' = line
        /\ \/ pc' = "done"
           \/ pc' = "room" /\ line = Uart
           \/ pc' = "low" /\ line # Uart
    BY ONLY <2>2, AgainPuts
  <2>4. (pc' = "done" \/ pc' = "low") /\ line' # Uart
    BY <1>0, <2>1, <2>3
  <2>5. LineOk'
    BY <1>27, <2>0, <2>1, <2>4, LineSame DEF StoreRunning, SoftOk
  <2>6. running' = 1
    BY <2>1
  <2>7. RunOk' /\ TimerOk'
    BY <1>0, <1>27, <2>1, <2>4, <2>6 DEF StoreRunning, SoftOk, RunOk, TimerOk
  <2> QED BY <2>0, <2>4, <2>5, <2>7 DEF ReachOk
<1> QED BY <1>10, <1>11, <1>12, <1>13, <1>14, <1>15, <1>16, <1>17, <1>18, <1>19, <1>20, <1>21,
           <1>22, <1>23, <1>24, <1>25, <1>26, <1>27 DEF Next, Host, Program

-----------------------------------------------------------------------------
(* The ring. *)

(* The ring keeps its invariant when nothing of it changes.                  *)
LEMMA UartSame ==
  ASSUME UartOk, ring' = ring, udr' = udr, owed'[Uart] = owed[Uart],
         pc' \notin {"store", "advance"} \/ (pc' = pc /\ c' = c)
  PROVE  UartOk'
BY DEF UartOk, Held, ring

(* The types of the ring.                                                    *)
LEMMA RingType ==
  ASSUME Flushed, TypeOk
  PROVE  /\ Uart = 2 /\ owed \in [Lines -> Seq(Chars)] /\ Lines = {0, 1, 2} /\ owed[Uart] \in Seq(Chars)
         /\ tx0_buf \in [0 .. SIZE - 1 -> Nat] /\ tx0_head \in 0 .. SIZE - 1 /\ tx0_tail \in 0 .. SIZE - 1
         /\ udr \in Seq(Nat) /\ Len(udr) \in {0, 1} /\ SIZE \in Nat /\ SIZE >= 2
<1>1. Lines = {0, 1, 2} /\ Uart = 2
  BY PortIs
<1>2. udr \in Seq(Nat) /\ Len(udr) <= 1
  BY DEF TypeOk
<1>3. Len(udr) \in Nat
  BY <1>2, LenProperties
<1>4. owed \in [Lines -> Seq(Chars)] /\ owed[Uart] \in Seq(Chars)
  BY <1>1 DEF TypeOk
<1>5. Len(udr) \in {0, 1}
  <2>1. ASSUME NEW n \in Nat, n <= 1
        PROVE  n \in {0, 1}
    BY ONLY <2>1
  <2> QED BY ONLY <1>2, <1>3, <2>1, Zenon
<1>6. tx0_buf \in [0 .. SIZE - 1 -> Nat] /\ tx0_head \in 0 .. SIZE - 1 /\ tx0_tail \in 0 .. SIZE - 1
  BY DEF TypeOk
<1> QED BY ONLY <1>1, <1>2, <1>4, <1>5, <1>6, SizeIs

(* uart0_putc() goes on when there is room, and its interrupt only makes more.*)
LEMMA RoomStep ==
  ASSUME Flushed, TypeOk, UartOk, Room
  PROVE  UartOk'
<1> DEFINE m == Held
<1>1. m \in Nat /\ m <= SIZE - 1 /\ tx0_head = Index(tx0_tail + m)
  BY RingType DEF UartOk
<1>2. m' = m
  BY DEF Room, ring, Held
<1> HIDE DEF m
<1>3. tx0_tail \in 0 .. SIZE - 1 /\ tx0_head \in 0 .. SIZE - 1 /\ SIZE \in Nat /\ SIZE >= 2
  BY RingType
<1>4. m # SIZE - 1
  <2>1. SUFFICES ASSUME m = SIZE - 1
                 PROVE  Index(tx0_head + 1) = tx0_tail
    BY DEF Room
  <2>2. tx0_head = IF tx0_tail = 0 THEN SIZE - 1 ELSE tx0_tail - 1
    BY <1>1, <1>3, <2>1, IndexIs
  <2> QED BY <1>3, <2>2, IndexIs
<1>5. Held' < SIZE - 1
  BY <1>1, <1>2, <1>3, <1>4 DEF m
<1> QED BY <1>2, <1>5 DEF Room, ring, UartOk, Held, m

(* It stores where nothing is held.                                          *)
LEMMA StoreStep ==
  ASSUME Flushed, TypeOk, UartOk, StoreData
  PROVE  UartOk'
<1> DEFINE m == Held
<1>1. m \in Nat /\ m < SIZE - 1 /\ tx0_head = Index(tx0_tail + m)
  BY RingType DEF UartOk, StoreData
<1>2. tx0_head' = tx0_head /\ tx0_tail' = tx0_tail /\ udr' = udr /\ owed' = owed /\ c' = c /\ pc' = "advance"
  BY DEF StoreData
<1>3. m' = m
  BY <1>2 DEF Held
<1>4. /\ tx0_tail \in 0 .. SIZE - 1 /\ tx0_head \in 0 .. SIZE - 1 /\ SIZE \in Nat /\ SIZE >= 2
      /\ tx0_buf \in [0 .. SIZE - 1 -> Nat]
  BY RingType
<1>5. tx0_buf'[tx0_head] = c /\ \A j \in 0 .. SIZE - 1 : j # tx0_head => tx0_buf'[j] = tx0_buf[j]
  BY <1>4 DEF StoreData
<1>6. \A i \in 1 .. m : tx0_buf[Index(tx0_tail + i - 1)] = owed[Uart][Len(udr) + i]
  BY DEF UartOk
<1> HIDE DEF m
<1>7. ASSUME NEW i \in 1 .. m
      PROVE  tx0_buf'[Index(tx0_tail + i - 1)] = owed[Uart][Len(udr) + i]
  <2>1. Index(tx0_tail + (i - 1)) \in 0 .. SIZE - 1 /\ Index(tx0_tail + (i - 1)) # tx0_head
    <3> DEFINE k == i - 1
    <3>1. k \in Nat /\ k < m
      BY <1>1
    <3> HIDE DEF k
    <3>2. Index(tx0_tail + k) \in 0 .. SIZE - 1
          /\ Index(tx0_tail + k) = IF tx0_tail + k < SIZE THEN tx0_tail + k ELSE tx0_tail + k - SIZE
      BY <1>1, <1>4, <3>1, IndexIs
    <3>3. tx0_head = IF tx0_tail + m < SIZE THEN tx0_tail + m ELSE tx0_tail + m - SIZE
      BY <1>1, <1>4, IndexIs
    <3>4. Index(tx0_tail + k) # tx0_head
      BY <1>1, <1>4, <3>1, <3>2, <3>3
    <3> QED BY <3>2, <3>4 DEF k
  <2>2. tx0_tail + (i - 1) = tx0_tail + i - 1
    BY <1>4
  <2> QED BY <1>5, <1>6, <2>1, <2>2
<1>8. (\A i \in 1 .. Held : tx0_buf[Index(tx0_tail + i - 1)] = owed[Uart][Len(udr) + i])'
  BY <1>2, <1>3, <1>7 DEF m
<1>9. Held' \in 0 .. SIZE - 1 /\ Held' < SIZE - 1 /\ tx0_head' = Index(tx0_tail' + Held')
  BY <1>1, <1>2, <1>3, <1>4 DEF m
<1>10. udr' # <<>> => udr'[1] = owed'[Uart][1]
  BY <1>2 DEF UartOk
<1> QED BY <1>2, <1>5, <1>8, <1>9, <1>10 DEF UartOk

(* When tx0_head moves, the ring holds the character.                        *)
LEMMA AdvanceStep ==
  ASSUME Flushed, TypeOk, PlaceOk, UartOk, Advance
  PROVE  UartOk' /\ L!Put(Uart, c) /\ c \in Chars
<1> DEFINE m == Held
           o == owed[Uart]
<1>1. m \in Nat /\ m < SIZE - 1 /\ tx0_head = Index(tx0_tail + m) /\ tx0_buf[tx0_head] = c
  BY RingType DEF UartOk, Advance
<1>2. /\ tx0_buf' = tx0_buf /\ tx0_tail' = tx0_tail /\ udr' = udr /\ pc' = "enable"
      /\ tx0_head' = Index(tx0_head + 1)
  BY DEF Advance
<1>3. c \in Chars
  BY DEF Advance, PlaceOk, Ring
<1>4. /\ tx0_tail \in 0 .. SIZE - 1 /\ tx0_head \in 0 .. SIZE - 1 /\ SIZE \in Nat /\ SIZE >= 2
      /\ o \in Seq(Chars) /\ owed \in [Lines -> Seq(Chars)] /\ Uart \in Lines
      /\ Len(o) \in Nat /\ Len(udr) \in {0, 1}
  BY RingType, LenProperties
<1>5. owed'[Uart] = Append(o, c)
  BY <1>4 DEF Advance
<1>6. Len(owed'[Uart]) = Len(o) + 1 /\ owed'[Uart][Len(o) + 1] = c
      /\ \A i \in 1 .. Len(o) : owed'[Uart][i] = o[i]
  BY <1>3, <1>4, <1>5, AppendProperties
<1>7. m = Len(o) - Len(udr)
  BY DEF Held
<1>8. m' = m + 1
  BY <1>2, <1>4, <1>6 DEF Held
<1>9. \A i \in 1 .. m : tx0_buf[Index(tx0_tail + i - 1)] = o[Len(udr) + i]
  BY DEF UartOk
<1>10. udr # <<>> => Len(udr) = 1 /\ udr[1] = o[1]
  BY <1>4, RingType, EmptySeq DEF UartOk
<1> HIDE DEF m, o
<1>11. tx0_head' = Index(tx0_tail + (m + 1))
  <2>1. tx0_head = IF tx0_tail + m < SIZE THEN tx0_tail + m ELSE tx0_tail + m - SIZE
    BY <1>1, <1>4, IndexIs
  <2>2. Index(tx0_head + 1) = IF tx0_head + 1 < SIZE THEN tx0_head + 1 ELSE tx0_head + 1 - SIZE
    BY <1>4, IndexIs
  <2>3. Index(tx0_tail + (m + 1)) =
          IF tx0_tail + (m + 1) < SIZE THEN tx0_tail + (m + 1) ELSE tx0_tail + (m + 1) - SIZE
    BY <1>1, <1>4, IndexIs
  <2> QED BY <1>1, <1>2, <1>4, <2>1, <2>2, <2>3
<1>12. ASSUME NEW i \in 1 .. m + 1
       PROVE  tx0_buf[Index(tx0_tail + i - 1)] = owed'[Uart][Len(udr) + i]
  <2>1. CASE i \in 1 .. m
    <3>1. Len(udr) + i \in 1 .. Len(o)
      BY <1>1, <1>4, <1>7, <2>1
    <3> QED BY <1>6, <1>9, <2>1, <3>1
  <2>2. CASE i = m + 1
    <3>1. Len(udr) + i = Len(o) + 1 /\ tx0_tail + i - 1 = tx0_tail + m
      BY <1>1, <1>4, <1>7, <2>2
    <3> QED BY <1>1, <1>6, <3>1
  <2> QED BY <1>1, <2>1, <2>2
<1>13. (\A i \in 1 .. Held : tx0_buf[Index(tx0_tail + i - 1)] = owed[Uart][Len(udr) + i])'
  BY <1>2, <1>8, <1>12 DEF m
<1>14. Held' \in 0 .. SIZE - 1 /\ tx0_head' = Index(tx0_tail' + Held')
  BY <1>1, <1>2, <1>4, <1>8, <1>11 DEF m
<1>15. udr' # <<>> => udr'[1] = owed'[Uart][1]
  <2>1. udr # <<>> => 1 \in 1 .. Len(o)
    BY <1>1, <1>4, <1>7, <1>10
  <2> QED BY <1>2, <1>6, <1>10, <2>1
<1>16. UartOk'
  BY <1>2, <1>13, <1>14, <1>15 DEF UartOk
<1>17. L!Put(Uart, c)
  BY DEF Advance, Quiet, L!Put
<1> QED BY <1>3, <1>16, <1>17

(* The interrupt moves the oldest character to UDR.                          *)
LEMMA UdreStep ==
  ASSUME Flushed, TypeOk, UartOk, UdreIrq
  PROVE  UartOk'
<1> DEFINE m == Held
           o == owed[Uart]
<1>1. m \in Nat /\ m <= SIZE - 1 /\ tx0_head = Index(tx0_tail + m)
  BY RingType DEF UartOk
<1>2. /\ tx0_tail \in 0 .. SIZE - 1 /\ tx0_head \in 0 .. SIZE - 1 /\ SIZE \in Nat /\ SIZE >= 2
      /\ o \in Seq(Chars) /\ Len(o) \in Nat /\ Len(udr) = 0 /\ tx0_buf[tx0_tail] \in Nat
  BY RingType, LenProperties DEF UdreIrq
<1>3. m = Len(o)
  BY <1>2 DEF Held
<1>4. /\ tx0_buf' = tx0_buf /\ tx0_head' = tx0_head /\ owed' = owed /\ pc' = pc /\ c' = c
  BY DEF UdreIrq, main
<1>5. CASE tx0_head = tx0_tail
  <2>1. ring' = <<tx0_buf, tx0_head, tx0_tail, udrie'>> /\ udr' = udr
    BY <1>5 DEF UdreIrq, ring
  <2> QED BY <1>4, <2>1 DEF UartOk, Held, ring
<1>6. CASE tx0_head # tx0_tail
  <2>1. udr' = <<tx0_buf[tx0_tail]>> /\ tx0_tail' = Index(tx0_tail + 1)
    BY <1>6 DEF UdreIrq
  <2>2. Len(udr') = 1 /\ udr'[1] = tx0_buf[tx0_tail]
    BY <2>1
  <2>3. m' = m - 1
    BY <1>2, <1>3, <1>4, <2>2 DEF Held
  <2>4. \A i \in 1 .. m : tx0_buf[Index(tx0_tail + i - 1)] = o[Len(udr) + i]
    BY DEF UartOk
  <2>5. pc \in {"store", "advance"} => m < SIZE - 1
    BY DEF UartOk
  <2>6. pc = "advance" => tx0_buf[tx0_head] = c
    BY DEF UartOk
  <2> HIDE DEF m, o
  <2>7. Index(tx0_tail + 0) = tx0_tail
    BY <1>2, IndexIs
  <2>8. m >= 1
    BY <1>1, <1>2, <1>6, <2>7
  <2>9. o[1] = tx0_buf[tx0_tail]
    <3>1. 1 \in 1 .. m /\ tx0_tail + 1 - 1 = tx0_tail + 0 /\ Len(udr) + 1 = 1
      BY <1>1, <1>2, <2>8
    <3> QED BY <2>4, <2>7, <3>1
  <2>10. \A k \in Nat : k < m => Index(tx0_tail' + k) = Index(tx0_tail + (k + 1))
    <3> SUFFICES ASSUME NEW k \in Nat, k < m
                 PROVE  Index(tx0_tail' + k) = Index(tx0_tail + (k + 1))
      OBVIOUS
    <3>1. tx0_tail' \in 0 .. SIZE - 1
          /\ tx0_tail' = IF tx0_tail + 1 < SIZE THEN tx0_tail + 1 ELSE tx0_tail + 1 - SIZE
      BY <1>2, <2>1, IndexIs
    <3>2. Index(tx0_tail' + k) = IF tx0_tail' + k < SIZE THEN tx0_tail' + k ELSE tx0_tail' + k - SIZE
      BY <1>1, <1>2, <3>1, IndexIs
    <3>3. Index(tx0_tail + (k + 1)) =
            IF tx0_tail + (k + 1) < SIZE THEN tx0_tail + (k + 1) ELSE tx0_tail + (k + 1) - SIZE
      BY <1>1, <1>2, IndexIs
    <3> QED BY <1>1, <1>2, <3>1, <3>2, <3>3
  <2>11. tx0_head' = Index(tx0_tail' + (m - 1))
    <3>1. m - 1 \in Nat /\ m - 1 < m /\ tx0_tail + ((m - 1) + 1) = tx0_tail + m
      BY <1>1, <1>2, <2>8
    <3> QED BY <1>1, <1>4, <2>10, <3>1
  <2>12. tx0_tail' \in 0 .. SIZE - 1
    BY <1>2, <2>1, IndexIs
  <2>13. ASSUME NEW i \in 1 .. m - 1
         PROVE  tx0_buf[Index(tx0_tail' + i - 1)] = o[1 + i]
    <3>1. i - 1 \in Nat /\ i - 1 < m /\ i + 1 \in 1 .. m
      BY <1>1
    <3>2. /\ tx0_tail' + i - 1 = tx0_tail' + (i - 1)
          /\ tx0_tail + ((i - 1) + 1) = tx0_tail + (i + 1) - 1
          /\ Len(udr) + (i + 1) = 1 + i
      BY <1>2, <2>12
    <3>3. Index(tx0_tail' + (i - 1)) = Index(tx0_tail + ((i - 1) + 1))
      BY <2>10, <3>1
    <3>4. tx0_buf[Index(tx0_tail + (i + 1) - 1)] = o[Len(udr) + (i + 1)]
      BY <2>4, <3>1
    <3> QED BY <3>2, <3>3, <3>4
  <2>14. (\A i \in 1 .. Held : tx0_buf[Index(tx0_tail + i - 1)] = owed[Uart][Len(udr) + i])'
    BY <1>4, <2>2, <2>3, <2>13 DEF m, o
  <2>15. Held' \in 0 .. SIZE - 1 /\ tx0_head' = Index(tx0_tail' + Held')
    BY <1>1, <1>2, <2>3, <2>8, <2>11 DEF m
  <2>16. udr'[1] = owed'[Uart][1]
    BY <1>4, <2>2, <2>9 DEF o
  <2>17. pc' \in {"store", "advance"} => Held' < SIZE - 1
    BY <1>1, <1>2, <1>4, <2>3, <2>5 DEF m
  <2> QED BY <1>4, <2>6, <2>14, <2>15, <2>16, <2>17 DEF UartOk
<1> QED BY <1>5, <1>6

(* A character is one that may arrive.                                       *)
LEMMA IsByte == ASSUME NEW x \in 1 .. 255 PROVE x \in 0 .. 256
OBVIOUS

(* What leaves UDR is what the line has owed longest.                        *)
LEMMA TransmitStep ==
  ASSUME Flushed, TypeOk, UartOk, Transmit
  PROVE  UartOk' /\ L!Carry({Uart})
<1> DEFINE m == Held
           o == owed[Uart]
<1>1. m \in Nat /\ m <= SIZE - 1 /\ tx0_head = Index(tx0_tail + m)
  BY RingType DEF UartOk
<1>2. /\ o \in Seq(Chars) /\ Len(o) \in Nat /\ Len(udr) = 1 /\ udr[1] = o[1] /\ SIZE \in Nat
      /\ owed \in [Lines -> Seq(Chars)] /\ Uart \in Lines
  BY RingType, LenProperties, EmptySeq DEF Transmit, UartOk
<1>3. m = Len(o) - 1
  BY <1>2 DEF Held
<1>4. o # <<>>
  BY <1>1, <1>2, <1>3
<1>5. ring' = ring /\ pc' = pc /\ c' = c /\ udr' = <<>> /\ Len(udr') = 0
  BY DEF Transmit, main
<1>0. udr[1] \in Chars /\ udr[1] \in 0 .. 256
  <2>1. o[1] \in Chars
    BY <1>2, <1>4, ElementOfSeq
  <2>3. udr[1] = o[1]
    BY <1>2
  <2>4. Chars \subseteq 1 .. 255
    BY DEF Flushed
  <2>5. o[1] \in 1 .. 255
    BY ONLY <2>1, <2>4
  <2>6. o[1] \in 0 .. 256
    BY ONLY <2>5, IsByte
  <2> QED BY <2>1, <2>3, <2>6
<1>6. owed'[Uart] = Tail(o) /\ L!Carry({Uart})
  <2>1. Arrived({<<Uart, udr[1]>>})
    BY DEF Transmit
  <2>2. udr[1] = Head(owed[Uart]) /\ owed[Uart] # <<>>
    BY <1>2, <1>4
  <2> QED BY <1>0, <1>2, <2>1, <2>2, OneArrives
<1>7. Len(Tail(o)) = Len(o) - 1 /\ \A i \in 1 .. Len(o) - 1 : Tail(o)[i] = o[i + 1]
  BY <1>2, <1>4, HeadTailProperties
<1>8. m' = m
  BY <1>2, <1>3, <1>5, <1>6, <1>7 DEF Held
<1>9. \A i \in 1 .. m : tx0_buf[Index(tx0_tail + i - 1)] = o[Len(udr) + i]
  BY DEF UartOk
<1> HIDE DEF m, o
<1>11. ASSUME NEW i \in 1 .. m
       PROVE  tx0_buf[Index(tx0_tail + i - 1)] = owed'[Uart][0 + i]
  <2>1. i \in 1 .. Len(o) - 1 /\ Len(udr) + i = i + 1 /\ 0 + i = i
    BY <1>1, <1>2, <1>3
  <2> QED BY <1>6, <1>7, <1>9, <2>1
<1>12. (\A i \in 1 .. Held : tx0_buf[Index(tx0_tail + i - 1)] = owed[Uart][Len(udr) + i])'
  BY <1>5, <1>8, <1>11 DEF m, ring
<1>13. Held' \in 0 .. SIZE - 1 /\ tx0_head' = Index(tx0_tail' + Held')
  BY <1>1, <1>2, <1>5, <1>8 DEF m, ring
<1>14. /\ pc' \in {"store", "advance"} => Held' < SIZE - 1
       /\ pc' = "advance" => tx0_buf'[tx0_head'] = c'
  BY <1>5, <1>8 DEF m, UartOk, ring
<1> QED BY <1>5, <1>6, <1>12, <1>13, <1>14 DEF UartOk

(* An empty ring before an empty UDR: the line owes nothing.                   *)
LEMMA RingEmpty ==
  ASSUME Flushed, TypeOk, UartOk, tx0_head = tx0_tail, udr = <<>>
  PROVE  owed[Uart] = <<>>
<1> DEFINE m == Held
<1>1. m \in Nat /\ m <= SIZE - 1 /\ tx0_head = Index(tx0_tail + m)
  BY RingType DEF UartOk
<1>2. tx0_tail \in 0 .. SIZE - 1 /\ SIZE \in Nat /\ owed[Uart] \in Seq(Chars) /\ Len(udr) = 0
  BY RingType
<1>3. m = Len(owed[Uart])
  BY <1>2, LenProperties DEF Held
<1> HIDE DEF m
<1>4. Index(tx0_tail + m) = IF tx0_tail + m < SIZE THEN tx0_tail + m ELSE tx0_tail + m - SIZE
  BY <1>1, <1>2, IndexIs
<1>5. m = 0
  BY <1>1, <1>2, <1>4
<1> QED BY <1>2, <1>3, <1>5, EmptySeq

(* The timer's interrupt leaves the UART's line alone.                       *)
LEMMA TimerLeaves ==
  ASSUME Flushed, TypeOk, SoftOk, TimerIrq
  PROVE  owed'[Uart] = owed[Uart]
<1>1. owed' = owed \/ L!Carry({P})
  BY TimerKeeps
<1>2. P # Uart /\ Uart \in Lines
  BY PortsAre
<1> QED BY <1>1, <1>2 DEF L!Carry

(* Both transmitters keep their invariants, and do what CharLines says.        *)
LEMMA UartStep ==
  ASSUME Flushed, TypeOk, SoftOk, UartOk, Next
  PROVE  UartOk'
<1>1. owed \in [Lines -> Seq(Chars)] /\ Lines = {0, 1, 2} /\ Uart = 2
  BY RingType
<1>2. CASE ring' = ring /\ udr' = udr /\ owed'[Uart] = owed[Uart] /\ pc' \notin {"store", "advance"}
  BY <1>2, UartSame
<1>3. CASE Room
  BY <1>3, RoomStep
<1>4. CASE StoreData
  BY <1>4, StoreStep
<1>5. CASE Advance
  BY <1>5, AdvanceStep DEF SoftOk
<1>6. CASE UdreIrq
  BY <1>6, UdreStep
<1>7. CASE Transmit
  BY <1>7, TransmitStep
<1>8. CASE TimerIrq
  <2>1. owed'[Uart] = owed[Uart]
    BY <1>8, TimerLeaves
  <2> QED BY <1>8, <2>1, UartSame DEF TimerIrq, main
<1>9. CASE SetLow
  <2>1. owed'[Uart] = owed[Uart]
    BY <1>1, <1>9 DEF SetLow, SoftOk, PlaceOk, Soft
  <2> QED BY <1>2, <1>9, <2>1 DEF SetLow
<1>10. CASE EnableIrq
  <2>1. Again /\ left \in Nat
    BY <1>10 DEF EnableIrq, TypeOk
  <2>2. pc' = "done" \/ pc' = "room" \/ pc' = "low"
    BY ONLY <2>1, AgainPuts
  <2> QED BY <1>10, <2>2 DEF EnableIrq, UartOk, Held
<1>11. CASE StoreRunning
  <2>1. Again /\ left \in Nat
    BY <1>11 DEF StoreRunning, TypeOk
  <2>2. pc' = "done" \/ pc' = "room" \/ pc' = "low"
    BY ONLY <2>1, AgainPuts
  <2> QED BY <1>2, <1>11, <2>2 DEF StoreRunning
<1>12. CASE Open \/ Close \/ Write \/ WriteDone \/ Sleep
  BY <1>2, <1>12 DEF Open, Close, Write, WriteDone, Sleep, PutNext
<1>13. CASE ReadLow \/ ReadHigh \/ SetHigh \/ EnableTimer \/ LoadRunning
  BY <1>2, <1>13 DEF ReadLow, ReadHigh, SetHigh, EnableTimer, LoadRunning
<1> QED BY <1>3, <1>4, <1>5, <1>6, <1>7, <1>8, <1>9, <1>10, <1>11, <1>12, <1>13 DEF Next, Host, Program

(* The ring's interrupt turns itself off only when all has left.               *)
LEMMA RingOnStep ==
  ASSUME Flushed, TypeOk, SoftOk, UartOk, RingOn, Next
  PROVE  RingOn'
<1>1. owed \in [Lines -> Seq(Chars)] /\ Lines = {0, 1, 2} /\ Uart = 2
  BY RingType
<1>2. CASE /\ udrie' = udrie /\ owed'[Uart] = owed[Uart] /\ pc # "enable"
           /\ pc' = "idle" => ~udrie
  BY <1>2 DEF RingOn
<1>3. CASE Program
  <2>1. pc \notin {"bav", "idle", "standby"}
    BY <1>3 DEF Program, WriteDone, Room, StoreData, Advance, EnableIrq, ReadLow, ReadHigh, SetHigh,
                SetLow, EnableTimer, LoadRunning, StoreRunning
  <2>2. CASE EnableIrq \/ StoreRunning
    <3>1. Again /\ left \in Nat
      BY <2>2 DEF EnableIrq, StoreRunning, TypeOk
    <3>2. pc' = "done" \/ pc' = "room" \/ pc' = "low"
      BY ONLY <3>1, AgainPuts
    <3> QED BY <1>2, <2>2, <3>2 DEF EnableIrq, StoreRunning, RingOn, ring
  <2>3. CASE Advance
    BY <2>3 DEF Advance, RingOn
  <2>4. CASE SetLow
    <3>1. owed'[Uart] = owed[Uart]
      BY <1>1, <2>4 DEF SetLow, SoftOk, PlaceOk, Soft
    <3> QED BY <1>2, <2>4, <3>1 DEF SetLow, ring
  <2>5. CASE ~(EnableIrq \/ StoreRunning \/ Advance \/ SetLow)
    BY <1>2, <1>3, <2>5 DEF Program, WriteDone, Room, StoreData, ReadLow, ReadHigh, SetHigh,
                            EnableTimer, LoadRunning, ring
  <2> QED BY <2>2, <2>3, <2>4, <2>5
<1>4. CASE Open \/ Close \/ Write
  BY <1>2, <1>4 DEF Open, Close, Write, Waiting, Asleep, PutNext, ring
<1>5. CASE Sleep
  BY <1>2, <1>5 DEF Sleep, data_tosend, ring
<1>6. CASE UdreIrq
  <2>1. pc' = pc /\ owed' = owed /\ udrie /\ pc # "idle"
    BY <1>6 DEF UdreIrq, main, RingOn
  <2>2. CASE tx0_head # tx0_tail
    BY <1>6, <2>1, <2>2 DEF UdreIrq, RingOn
  <2>3. CASE tx0_head = tx0_tail
    <3>1. owed[Uart] = <<>>
      BY <1>6, <2>3, RingEmpty DEF UdreIrq
    <3> QED BY <2>1, <3>1 DEF RingOn
  <2> QED BY <2>2, <2>3
<1>7. CASE Transmit
  <2>1. owed[Uart] = <<>> => owed'[Uart] = <<>>
    BY <1>1, <1>7 DEF Transmit, Arrived
  <2> QED BY <1>7, <2>1 DEF Transmit, main, ring, RingOn
<1>8. CASE TimerIrq
  <2>1. owed'[Uart] = owed[Uart]
    BY <1>8, TimerLeaves
  <2> QED BY <1>8, <2>1 DEF TimerIrq, main, ring, RingOn
<1> QED BY <1>3, <1>4, <1>5, <1>6, <1>7, <1>8 DEF Next, Host

(* A step that carries nothing is one of CharLines.                          *)
LEMMA SameIsCarry ==
  ASSUME owed \in [Lines -> Seq(Chars)], owed' = owed, last' = {}
  PROVE  L!Next
<1>1. L!Carry({})
  BY DEF L!Carry
<1> QED BY <1>1 DEF L!Next

(* Every step keeps the invariant, and is one of CharLines or a stutter.     *)
LEMMA Steps ==
  ASSUME Flushed, IInv, [Next]_vars
  PROVE  IInv' /\ [L!Next]_<<owed, last>>
<1>1. TypeOk /\ PlaceOk /\ SoftOk /\ UartOk /\ RingOn
  BY DEF IInv, SoftOk
<1>2. TypeOk' /\ PlaceOk'
  BY <1>1, TypeStep, PlaceStep
<1>3. CASE UNCHANGED vars
  <2>1. LineOk' /\ Silent' /\ RunOk' /\ TimerOk' /\ ReachOk'
    <3>1. P' = P /\ Q' = Q /\ R' = R
      BY <1>3, SamePort DEF vars, main, soft, R
    <3> QED BY <1>1, <1>3, <3>1 DEF vars, main, soft, SoftOk, LineOk, Nothing, Carrying, Trailing,
                                    Silent, RunOk, TimerOk, ReachOk, AtLeast
  <2>2. UartOk'
    BY <1>1, <1>3, UartSame DEF vars, main
  <2>3. RingOn'
    BY <1>1, <1>3 DEF vars, main, ring, RingOn
  <2> QED BY <1>2, <1>3, <2>1, <2>2, <2>3 DEF IInv, SoftOk, vars
<1>4. CASE TimerIrq
  <2>1. Next
    BY <1>4 DEF Next
  <2>2. /\ LineOk' /\ Silent' /\ RunOk' /\ TimerOk' /\ ReachOk'
        /\ (owed' = owed /\ last' = {}) \/ L!Carry({P})
    BY <1>1, <1>4, TimerKeeps
  <2>3. UartOk' /\ RingOn'
    BY <1>1, <2>1, UartStep, RingOnStep
  <2>4. [L!Next]_<<owed, last>>
    <3>1. {P} \in SUBSET Lines
      BY PortsAre
    <3>2. owed \in [Lines -> Seq(Chars)]
      BY <1>1, RingType
    <3>3. CASE owed' = owed /\ last' = {}
      BY <3>2, <3>3, SameIsCarry
    <3>4. CASE L!Carry({P})
      BY <3>1, <3>4 DEF L!Next
    <3> QED BY <2>2, <3>3, <3>4
  <2> QED BY <1>2, <2>2, <2>3, <2>4 DEF IInv, SoftOk
<1>5. CASE Next /\ ~TimerIrq
  <2>1. LineOk' /\ Silent' /\ RunOk' /\ TimerOk' /\ ReachOk'
    BY <1>1, <1>5, SoftStep
  <2>2. UartOk' /\ RingOn'
    BY <1>1, <1>5, UartStep, RingOnStep
  <2>3. L!Next
    <3>1. Lines = {0, 1, 2} /\ Uart = 2
      BY PortIs
    <3>2. CASE Advance
      <4>1. L!Put(Uart, c) /\ c \in Chars
        BY <1>1, <3>2, AdvanceStep
      <4> QED BY <3>1, <4>1 DEF L!Next
    <3>3. CASE Transmit
      <4>1. L!Carry({Uart})
        BY <1>1, <3>3, TransmitStep
      <4>2. {Uart} \in SUBSET Lines
        BY <3>1
      <4> QED BY <4>1, <4>2 DEF L!Next
    <3>4. CASE SetLow
      <4>1. line \in Lines /\ c \in Chars
        BY <1>1, <3>4 DEF SetLow, PlaceOk, Soft, TypeOk
      <4>2. L!Put(line, c)
        BY <3>4 DEF SetLow, Quiet, L!Put
      <4> QED BY <4>1, <4>2 DEF L!Next
    <3>5. CASE ~Advance /\ ~Transmit /\ ~SetLow
      <4>1. owed' = owed /\ last' = {}
        BY <1>5, <3>5 DEF Next, Host, Program, Open, Close, Write, WriteDone, Room, StoreData, EnableIrq,
             ReadLow, ReadHigh, SetHigh, EnableTimer, LoadRunning, StoreRunning, Sleep, UdreIrq, Quiet
      <4>2. owed \in [Lines -> Seq(Chars)]
        BY <1>1, RingType
      <4> QED BY <4>1, <4>2, SameIsCarry
    <3> QED BY <3>2, <3>3, <3>4, <3>5
  <2> QED BY <1>2, <2>1, <2>2, <2>3 DEF IInv, SoftOk
<1> QED BY <1>3, <1>4, <1>5

(* The state after start-up satisfies the invariant.                         *)
LEMMA Start ==
  ASSUME Flushed, Init
  PROVE  IInv /\ L!Init
<1>1. /\ Port = {0, 1} /\ Lines = {0, 1, 2} /\ Uart = 2 /\ SIZE \in Nat /\ SIZE >= 2
      /\ P \in {0, 1} /\ Q \in {0, 1}
  BY PortIs, PortsAre, SizeIs
<1>2. owed = [l \in Lines |-> <<>>] /\ L!Init
  BY DEF Init, L!Init
<1>3. TypeOk
  <2>1. /\ pc \in Places /\ line \in Lines /\ left \in Nat /\ c \in Nat /\ low \in Nat /\ tmp \in Nat
        /\ fresh \in BOOLEAN /\ open \in BOOLEAN /\ udrie \in BOOLEAN /\ timer \in BOOLEAN
    BY <1>1 DEF Init, Places, Quiescent
  <2>2. tx0_buf \in [0 .. SIZE - 1 -> Nat] /\ tx0_head \in 0 .. SIZE - 1 /\ tx0_tail \in 0 .. SIZE - 1
    BY <1>1 DEF Init
  <2>3. udr \in Seq(Nat) /\ Len(udr) <= 1
    BY DEF Init
  <2>4. tx_shift_reg \in [Port -> Nat] /\ count \in [Port -> Nat] /\ running \in Nat
    BY <1>1 DEF Init
  <2>5. rx \in [Port -> Seq({0, 1})]
    <3>1. <<>> \in Seq({0, 1})
      OBVIOUS
    <3> QED BY <3>1 DEF Init
  <2>6. owed \in [Lines -> Seq(Chars)]
    <3>1. <<>> \in Seq(Chars)
      OBVIOUS
    <3> QED BY <1>2, <3>1
  <2> QED BY <2>1, <2>2, <2>3, <2>4, <2>5, <2>6 DEF TypeOk
<1>4. SoftOk
  BY <1>1, <1>2 DEF Init, SoftOk, PlaceOk, LineOk, Nothing, Silent, RunOk, TimerOk, ReachOk, R,
                    Soft, Ring, Quiescent
<1>5. UartOk
  <2>1. Held = 0 /\ udr = <<>> /\ tx0_head = 0 /\ tx0_tail = 0 /\ pc = "bav"
    BY <1>1, <1>2 DEF Init, Held
  <2>2. Index(0 + 0) = 0
    BY <1>1, IndexIs
  <2> QED BY <1>1, <2>1, <2>2 DEF UartOk
<1>6. RingOn
  BY <1>1, <1>2 DEF Init, RingOn
<1> QED BY <1>2, <1>3, <1>4, <1>5, <1>6 DEF IInv

-----------------------------------------------------------------------------
(* The ring, the shift register and their interrupts carry each character once   *)
(* and in order (uart.cpp, swuart.cpp): when debug output is flushed and no        *)
(* character is NUL, Uarts implements CharLines.                              *)
THEOREM LinesCarry == Flushed => (Spec => CarriesAll)
<1> SUFFICES ASSUME Flushed
             PROVE  Spec => CarriesAll
  OBVIOUS
<1>1. Init => IInv /\ L!Init
  BY Start
<1>2. IInv /\ [Next]_vars => IInv' /\ [L!Next]_<<owed, last>>
  BY Steps
<1> QED BY <1>1, <1>2, PTL DEF Spec, CarriesAll, L!Spec

(* In such a state it is safe to sleep.                                      *)
LEMMA InvIsSafe ==
  ASSUME Flushed, IInv
  PROVE  SleepIsSafe
<1>1. R \in Nat /\ TypeOk /\ SoftOk /\ RingOn
  BY RegType DEF IInv
<1>2. RunningCounts
  <2>1. /\ Q \notin Sending /\ (P \in Sending <=> R # 0)
        /\ (P = 0 /\ Q = 1) \/ (P = 1 /\ Q = 0)
    BY <1>1, PortsAre DEF Sending, R, SoftOk, Silent
  <2>2. pc \notin {"setLow", "timer", "load", "run"} => running = IF R = 0 THEN 0 ELSE 1
    BY <1>1 DEF SoftOk, RunOk
  <2> QED BY <1>1, <2>1, <2>2 DEF RunningCounts
<1>3. ASSUME Asleep, NEW p \in Port
      PROVE  owed[p] = <<>>
  <2>1. R = 0 /\ pc # "setLow"
    BY <1>1, <1>3 DEF Asleep, SoftOk, ReachOk, Quiescent
  <2>2. Nothing
    BY <1>1, <2>1, ZeroIsNothing DEF SoftOk
  <2> QED BY <1>1, <1>3, <2>2, PortsAre DEF Nothing, SoftOk, Silent
<1>4. pc = "idle" => owed[Uart] = <<>>
  BY <1>1 DEF RingOn
<1> QED BY <1>2, <1>3, <1>4 DEF SleepIsSafe, NoSleepOver

(* What main() is told before it sleeps is true: running counts the ports that    *)
(* send, no sleep finds a character of theirs, and IDLE none of the ring           *)
(* (main.cpp:193-204), whenever the host opens and closes; when debug output is    *)
(* flushed and no character is NUL.                                           *)
THEOREM SleepHoldsNothingUp == Flushed => (Spec => []SleepIsSafe)
<1> SUFFICES ASSUME Flushed
             PROVE  Spec => []SleepIsSafe
  OBVIOUS
<1>1. Init => IInv
  BY Start
<1>2. IInv /\ [Next]_vars => IInv'
  BY Steps
<1>3. IInv => SleepIsSafe
  BY InvIsSafe
<1> QED BY <1>1, <1>2, <1>3, PTL DEF Spec
=============================================================================
