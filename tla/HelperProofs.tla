---------------------------- MODULE HelperProofs ----------------------------
(***************************************************************************)
(* Proofs about the helpers in src/util: bton gives back the number that     *)
(* ntob wrote less what its negative chars take, for chars of eight bits    *)
(* and ints of four chars; the texts of a Stopwatch add up to the time measured.        *)
(*                                                                         *)
(* A leaf with a large number names SMT: it is no matter for Zenon.         *)
(***************************************************************************)
EXTENDS ByteOrder, Stopwatch, SequenceTheorems, TLAPS

-----------------------------------------------------------------------------
(* ByteOrder                                                                 *)

(* Four chars of eight bits, as in the code. *)
Widths == Bits = 8 /\ prefix_length = 4

(* The powers of two that eight bits and four chars need. *)
LEMMA Powers ==
  /\ 2^8 = 256 /\ 2^(8 - 1) = 128
  /\ 2^(8 * 0) = 1 /\ 2^(8 * 1) = 256 /\ 2^(8 * 2) = 65536 /\ 2^(8 * 3) = 16777216
  /\ 2^(8 * 4) = 4294967296 /\ 2^(8 * 4 - 1) = 2147483648
  BY SMT

(* Wrap to a char. *)
LEMMA WrapChar ==
  ASSUME NEW x \in Int
  PROVE  LET m == x % 256 IN Wrap(x, 8) = IF m < 128 THEN m ELSE m - 256
  BY Powers, SMT DEF Wrap

(* Wrap to an int. *)
LEMMA WrapWord ==
  ASSUME NEW x \in Int, Widths
  PROVE  LET m == x % 4294967296
         IN  Wrap(x, Width) = IF m < 2147483648 THEN m ELSE m - 4294967296
<1>1. 2^(8*4) = 4294967296 /\ 2^(8*4 - 1) = 2147483648
  BY SMT
<1>2. Width = 8 * 4
  BY DEF Width, Widths
<1>3. Wrap(x, 8 * 4) = LET m == x % 4294967296
         IN  IF m < 2147483648 THEN m ELSE m - 4294967296
  BY <1>1, SMT DEF Wrap
<1> QED
  BY <1>2, <1>3, SMT

(* Two numbers that are the same in 32 bits. *)
Same(x, y) == \E k \in Int : y = x + k * 4294967296

(* Wrap to an int drops a multiple of 2^32 and nothing else. *)
LEMMA WordWraps ==
  ASSUME NEW x \in Int, Widths
  PROVE  /\ Wrap(x, Width) \in Int
         /\ -2147483648 <= Wrap(x, Width) /\ Wrap(x, Width) < 2147483648
         /\ Same(x, Wrap(x, Width))
<1> DEFINE m == x % 4294967296
           q == x \div 4294967296
<1>1. /\ m \in Int /\ q \in Int /\ 0 <= m /\ m < 4294967296
      /\ x = q * 4294967296 + m
  BY SMT
<1>2. Wrap(x, Width) = IF m < 2147483648 THEN m ELSE m - 4294967296
  BY WrapWord, SMT
<1> HIDE DEF m, q
<1>3. CASE m < 2147483648
  <2> DEFINE k == 0 - q
  <2>1. k \in Int /\ Wrap(x, Width) = x + k * 4294967296
    BY <1>1, <1>2, <1>3, SMT
  <2> HIDE DEF k
  <2>2. \E j \in Int : Wrap(x, Width) = x + j * 4294967296
    BY <2>1, SMT
  <2>3. Wrap(x, Width) \in Int /\ -2147483648 <= Wrap(x, Width) /\ Wrap(x, Width) < 2147483648
    BY <1>1, <1>2, <1>3, SMT
  <2> QED
    BY <2>2, <2>3, SMT DEF Same
<1>4. CASE m >= 2147483648
  <2> DEFINE k == 0 - q - 1
  <2>1. k \in Int /\ Wrap(x, Width) = x + k * 4294967296
    BY <1>1, <1>2, <1>4, SMT
  <2> HIDE DEF k
  <2>2. \E j \in Int : Wrap(x, Width) = x + j * 4294967296
    BY <2>1, SMT
  <2>3. Wrap(x, Width) \in Int /\ -2147483648 <= Wrap(x, Width) /\ Wrap(x, Width) < 2147483648
    BY <1>1, <1>2, <1>4, SMT
  <2> QED
    BY <2>2, <2>3, SMT DEF Same
<1> QED
  BY <1>1, <1>3, <1>4, SMT DEF Same

(* The chars of b, joined as bton joins them. *)
Joined(b) ==
  LET w(v, c) == Wrap(v * 256 + c, Width)
  IN  w(w(w(w(b[4], b[3]), b[2]), b[1]), b[0])

(* The loop of bton, unrolled: the recursive function exists, and so is what *)
(* its equation says.                                                        *)
LEMMA ValueIsJoined ==
  ASSUME Widths, NEW b \in [0..4 -> Int]
  PROVE  ValueOf(b) = Joined(b)
<1> DEFINE w(v, c) == Wrap(v * 2^Bits + c, Width)
           step_(f) == [i \in 0..prefix_length |->
                          IF i = prefix_length THEN b[i] ELSE Wrap(f[i + 1] * 2^Bits + b[i], Width)]
           from == CHOOSE f : f = step_(f)
           w3 == w(b[4], b[3])
           w2 == w(w3, b[2])
           w1 == w(w2, b[1])
           w0 == w(w1, b[0])
           g == [i \in 0..4 |-> IF i = 4 THEN b[4] ELSE IF i = 3 THEN w3 ELSE IF i = 2 THEN w2
                                ELSE IF i = 1 THEN w1 ELSE w0]
<1>1. ValueOf(b) = from[0]
  BY DEF ValueOf
<1>2. g = step_(g)
  BY DEF Widths
<1>3. from = step_(from)
  BY <1>2
<1> HIDE DEF from, w
<1>4. \A i \in 0..4 : from[i] = IF i = 4 THEN b[4] ELSE w(from[i + 1], b[i])
  BY <1>3 DEF w, Widths
<1>5. /\ from[4] = b[4] /\ from[3] = w(from[4], b[3]) /\ from[2] = w(from[3], b[2])
      /\ from[1] = w(from[2], b[1]) /\ from[0] = w(from[1], b[0])
  BY <1>4
<1>6. from[0] = w(w(w(w(b[4], b[3]), b[2]), b[1]), b[0])
  BY <1>5
<1>7. 2^Bits = 256
  BY Powers, SMT DEF Widths
<1> QED
  BY <1>1, <1>6, <1>7, Zenon DEF Joined, w

(* 1 for a negative char. *)
Neg(c) == IF c < 0 THEN 1 ELSE 0

(* A number is its lowest char and 256 times the rest, plus one for the *)
(* char that is negative.                                               *)
LEMMA CharSplits ==
  ASSUME NEW x \in Int
  PROVE  /\ Wrap(x, 8) \in -128..127
       /\ x = 256 * (x \div 256) + Wrap(x, 8) + 256 * Neg(Wrap(x, 8))
<1>1. Wrap(x, 8) = IF (x % 256) < 128 THEN (x % 256) ELSE (x % 256) - 256
  BY WrapChar, SMT
<1>2. /\ (x % 256) \in Int /\ 0 <= (x % 256) /\ (x % 256) < 256
      /\ x = 256 * (x \div 256) + (x % 256) /\ (x \div 256) \in Int
  BY SMT
<1>3. CASE (x % 256) < 128
  BY <1>1, <1>2, <1>3, SMT DEF Neg
<1>4. CASE (x % 256) >= 128
  BY <1>1, <1>2, <1>4, SMT DEF Neg
<1> QED
  BY <1>2, <1>3, <1>4, SMT

(* Four digits, from Horner's form to the sum. *)
LEMMA DigitSum ==
  ASSUME NEW c0 \in Int, NEW c1 \in Int, NEW c2 \in Int, NEW c3 \in Int,
         NEW t0 \in Int, NEW t1 \in Int, NEW t2 \in Int
  PROVE  256 * (256 * (256 * c3 + c2 + 256 * t2) + c1 + 256 * t1) + c0 + 256 * t0
           = c0 + 256 * c1 + 65536 * c2 + 16777216 * c3
             + 256 * t0 + 65536 * t1 + 16777216 * t2
  BY SMT

(* 1 if the char that ntob writes at i is negative. *)
Taken(n, i) == IF CharOf(n, i) < 0 THEN 1 ELSE 0

(* A number is the sum of its chars, each in its place, and of what the *)
(* negative ones take from the next.                                    *)
LEMMA CharsOf ==
  ASSUME Widths, NEW n \in Int, -2147483648 <= n, n < 2147483648
  PROVE  /\ \A i \in 0..3 : CharOf(n, i) \in -128..127
         /\ n = CharOf(n, 0) + 256 * CharOf(n, 1) + 65536 * CharOf(n, 2)
                + 16777216 * CharOf(n, 3)
                + 256 * Taken(n, 0) + 65536 * Taken(n, 1) + 16777216 * Taken(n, 2)
<1> DEFINE u1 == n \div 256
           u2 == n \div 65536
           u3 == n \div 16777216
<1>1. /\ CharOf(n, 0) = Wrap(n \div 2^(8 * 0), 8) /\ CharOf(n, 1) = Wrap(n \div 2^(8 * 1), 8)
      /\ CharOf(n, 2) = Wrap(n \div 2^(8 * 2), 8) /\ CharOf(n, 3) = Wrap(n \div 2^(8 * 3), 8)
  BY SMT DEF CharOf, Widths
<1>2. /\ n \div 2^(8 * 0) = n /\ n \div 2^(8 * 1) = u1
      /\ n \div 2^(8 * 2) = u2 /\ n \div 2^(8 * 3) = u3
  BY Powers, SMT
<1>3. /\ u1 \in Int /\ u2 \in Int /\ u3 \in Int
      /\ u2 = u1 \div 256 /\ u3 = u2 \div 256
      /\ -128 <= u3 /\ u3 < 128
  BY SMT
<1> HIDE DEF u1, u2, u3
<1>4. u1 \in Int /\ u2 \in Int
  BY <1>3, SMT
<1>5. /\ CharOf(n, 0) = Wrap(n, 8) /\ CharOf(n, 1) = Wrap(u1, 8)
      /\ CharOf(n, 2) = Wrap(u2, 8) /\ CharOf(n, 3) = Wrap(u3, 8)
  BY <1>1, <1>2, SMT
<1>6. /\ Wrap(n, 8) \in -128..127
      /\ n = 256 * u1 + Wrap(n, 8) + 256 * Neg(Wrap(n, 8))
  BY CharSplits, SMT DEF u1
<1>7. /\ Wrap(u1, 8) \in -128..127
      /\ u1 = 256 * u2 + Wrap(u1, 8) + 256 * Neg(Wrap(u1, 8))
  <2>1. /\ Wrap(u1, 8) \in -128..127
        /\ u1 = 256 * (u1 \div 256) + Wrap(u1, 8) + 256 * Neg(Wrap(u1, 8))
    BY <1>4, CharSplits, SMT
  <2> QED
    BY <1>3, <2>1, SMT
<1>8. /\ Wrap(u2, 8) \in -128..127
      /\ u2 = 256 * u3 + Wrap(u2, 8) + 256 * Neg(Wrap(u2, 8))
  <2>1. /\ Wrap(u2, 8) \in -128..127
        /\ u2 = 256 * (u2 \div 256) + Wrap(u2, 8) + 256 * Neg(Wrap(u2, 8))
    BY <1>4, CharSplits, SMT
  <2> QED
    BY <1>3, <2>1, SMT
<1>9. Wrap(u3, 8) = u3
  <2>1. Wrap(u3, 8) = IF (u3 % 256) < 128 THEN (u3 % 256) ELSE (u3 % 256) - 256
    BY <1>3, WrapChar, SMT
  <2>2. (u3 % 256) = IF u3 < 0 THEN u3 + 256 ELSE u3
    BY <1>3, SMT
  <2> QED
    BY <1>3, <2>1, <2>2, SMT
<1>10. /\ Taken(n, 0) = Neg(CharOf(n, 0)) /\ Taken(n, 1) = Neg(CharOf(n, 1))
      /\ Taken(n, 2) = Neg(CharOf(n, 2))
      /\ Taken(n, 0) \in Int /\ Taken(n, 1) \in Int /\ Taken(n, 2) \in Int
  BY SMT DEF Taken, Neg
<1>11. /\ CharOf(n, 0) \in -128..127 /\ CharOf(n, 1) \in -128..127
      /\ CharOf(n, 2) \in -128..127 /\ CharOf(n, 3) \in -128..127
  BY <1>3, <1>5, <1>6, <1>7, <1>8, <1>9, SMT
<1>12. /\ n = 256 * u1 + CharOf(n, 0) + 256 * Taken(n, 0)
      /\ u1 = 256 * u2 + CharOf(n, 1) + 256 * Taken(n, 1)
      /\ u2 = 256 * u3 + CharOf(n, 2) + 256 * Taken(n, 2)
      /\ u3 = CharOf(n, 3)
  BY <1>5, <1>6, <1>7, <1>8, <1>9, <1>10, SMT
<1>13. n = CharOf(n, 0) + 256 * CharOf(n, 1) + 65536 * CharOf(n, 2)
           + 16777216 * CharOf(n, 3)
           + 256 * Taken(n, 0) + 65536 * Taken(n, 1) + 16777216 * Taken(n, 2)
  <2> DEFINE c(i) == CharOf(n, i)
             t(i) == Taken(n, i)
  <2>1. n = 256 * (256 * (256 * c(3) + c(2) + 256 * t(2)) + c(1) + 256 * t(1))
            + c(0) + 256 * t(0)
    BY <1>12, SMT
  <2>2. /\ c(0) \in Int /\ c(1) \in Int /\ c(2) \in Int /\ c(3) \in Int
        /\ t(0) \in Int /\ t(1) \in Int /\ t(2) \in Int
    BY <1>10, <1>11, SMT
  <2> HIDE DEF c, t
  <2>3. n = c(0) + 256 * c(1) + 65536 * c(2) + 16777216 * c(3)
            + 256 * t(0) + 65536 * t(1) + 16777216 * t(2)
    BY <2>1, <2>2, DigitSum, SMT
  <2> QED
    BY <2>3, SMT DEF c, t
<1> QED
  BY <1>11, <1>13, SMT

(* lost, unrolled. *)
LEMMA LostIs ==
  ASSUME Widths, NEW n \in Int
  PROVE  Lost(n) = 256 * Taken(n, 0) + 65536 * Taken(n, 1)
                   + 16777216 * Taken(n, 2) + 4294967296 * Taken(n, 3)
<1> DEFINE Borrow(i) == IF CharOf(n, i) < 0 THEN 2^(Bits * (i + 1)) ELSE 0
           next(f) == [i \in 0..prefix_length |->
                         IF i = 0 THEN 0 ELSE f[i - 1] + Borrow(i - 1)]
           lost == CHOOSE f : f = next(f)
           l1 == 0 + Borrow(0)
           l2 == l1 + Borrow(1)
           l3 == l2 + Borrow(2)
           l4 == l3 + Borrow(3)
           g == [i \in 0..4 |-> IF i = 0 THEN 0 ELSE IF i = 1 THEN l1 ELSE IF i = 2 THEN l2
                                ELSE IF i = 3 THEN l3 ELSE l4]
<1>1. Lost(n) = lost[prefix_length]
  BY DEF Lost
<1>2. g = next(g)
  <2> HIDE DEF Borrow
  <2> QED
    BY DEF Widths
<1>3. lost = next(lost)
  BY <1>2
<1> HIDE DEF lost, Borrow
<1>4. \A i \in 0..4 : lost[i] = IF i = 0 THEN 0 ELSE lost[i - 1] + Borrow(i - 1)
  BY <1>3 DEF Widths
<1>5. /\ lost[0] = 0 /\ lost[1] = lost[0] + Borrow(0) /\ lost[2] = lost[1] + Borrow(1)
      /\ lost[3] = lost[2] + Borrow(2) /\ lost[4] = lost[3] + Borrow(3)
  BY <1>4
<1>6. lost[4] = (((0 + Borrow(0)) + Borrow(1)) + Borrow(2)) + Borrow(3)
  BY <1>5, Zenon
<1>7. /\ Borrow(0) = 256 * Taken(n, 0) /\ Borrow(1) = 65536 * Taken(n, 1)
      /\ Borrow(2) = 16777216 * Taken(n, 2) /\ Borrow(3) = 4294967296 * Taken(n, 3)
  <2>1. /\ 2^(8 * (0 + 1)) = 256 /\ 2^(8 * (1 + 1)) = 65536
        /\ 2^(8 * (2 + 1)) = 16777216 /\ 2^(8 * (3 + 1)) = 4294967296
    BY SMT
  <2> QED
    BY <2>1, SMT DEF Borrow, Taken, Widths
<1>8. /\ Taken(n, 0) \in Int /\ Taken(n, 1) \in Int
      /\ Taken(n, 2) \in Int /\ Taken(n, 3) \in Int
  BY SMT DEF Taken
<1>9. lost[4] = 256 * Taken(n, 0) + 65536 * Taken(n, 1)
                + 16777216 * Taken(n, 2) + 4294967296 * Taken(n, 3)
  BY <1>6, <1>7, <1>8, SMT
<1> QED
  BY <1>1, <1>9, SMT DEF Widths

(* Only multiples of 2^32 are dropped on the way. *)
LEMMA JoinedIs ==
  ASSUME Widths, NEW b \in [0..4 -> Int]
  PROVE  /\ Joined(b) \in Int
         /\ -2147483648 <= Joined(b) /\ Joined(b) < 2147483648
         /\ \E k \in Int : Joined(b) = b[0] + 256 * b[1] + 65536 * b[2]
                                       + 16777216 * b[3] + k * 4294967296
<1> DEFINE w3 == Wrap(b[4] * 256 + b[3], Width)
           w2 == Wrap(w3 * 256 + b[2], Width)
           w1 == Wrap(w2 * 256 + b[1], Width)
           w0 == Wrap(w1 * 256 + b[0], Width)
<1>1. b[0] \in Int /\ b[1] \in Int /\ b[2] \in Int /\ b[3] \in Int /\ b[4] \in Int
  OBVIOUS
<1>2. /\ w3 \in Int
      /\ \E k \in Int : w3 = b[4] * 256 + b[3] + k * 4294967296
  <2>1. b[4] * 256 + b[3] \in Int
    BY <1>1, SMT
  <2> QED
    BY <2>1, WordWraps, SMT DEF Same
<1> HIDE DEF w3
<1>3. /\ w2 \in Int
      /\ \E k \in Int : w2 = w3 * 256 + b[2] + k * 4294967296
  <2>1. w3 * 256 + b[2] \in Int
    BY <1>1, <1>2, SMT
  <2> QED
    BY <2>1, WordWraps, SMT DEF Same
<1> HIDE DEF w2
<1>4. /\ w1 \in Int
      /\ \E k \in Int : w1 = w2 * 256 + b[1] + k * 4294967296
  <2>1. w2 * 256 + b[1] \in Int
    BY <1>1, <1>3, SMT
  <2> QED
    BY <2>1, WordWraps, SMT DEF Same
<1> HIDE DEF w1
<1>5. /\ w0 \in Int /\ -2147483648 <= w0 /\ w0 < 2147483648
      /\ \E k \in Int : w0 = w1 * 256 + b[0] + k * 4294967296
  <2>1. w1 * 256 + b[0] \in Int
    BY <1>1, <1>4, SMT
  <2> QED
    BY <2>1, WordWraps, SMT DEF Same
<1> HIDE DEF w0
<1>6. Joined(b) = w0
  BY DEF Joined, w0, w1, w2, w3
<1>7. PICK k3 \in Int : w3 = b[4] * 256 + b[3] + k3 * 4294967296
  BY <1>2, SMT
<1>8. PICK k2 \in Int : w2 = w3 * 256 + b[2] + k2 * 4294967296
  BY <1>3, SMT
<1>9. PICK k1 \in Int : w1 = w2 * 256 + b[1] + k1 * 4294967296
  BY <1>4, SMT
<1>10. PICK k0 \in Int : w0 = w1 * 256 + b[0] + k0 * 4294967296
  BY <1>5, SMT
<1> DEFINE k == k0 + 256 * k1 + 65536 * k2 + 16777216 * k3 + b[4]
<1>11. k \in Int
  BY <1>1, SMT
<1>12. w0 = b[0] + 256 * b[1] + 65536 * b[2] + 16777216 * b[3] + k * 4294967296
  BY <1>1, <1>2, <1>3, <1>4, <1>5, <1>7, <1>8, <1>9, <1>10, SMT
<1> HIDE DEF k
<1>13. \E j \in Int : w0 = b[0] + 256 * b[1] + 65536 * b[2] + 16777216 * b[3]
                           + j * 4294967296
  BY <1>11, <1>12, SMT
<1> QED
  BY <1>5, <1>6, <1>13, SMT

(* After ntob the buffer holds the chars of the number, and after bton the *)
(* result is their value.                                                  *)
ByteInvariant ==
  /\ number \in Ints
  /\ buffer = [i \in 0..prefix_length |-> buffer[i]]
  /\ buffer[prefix_length] \in Chars
  /\ step \in {"ntob", "bton", "done"}
  /\ step # "ntob" => \A i \in 0..(prefix_length - 1) : buffer[i] = CharOf(number, i)
  /\ step = "done" => result = ValueOf(buffer)

(* ByteInvariant holds, which is a matter of prefix_length alone. *)
LEMMA ByteInductive ==
  ASSUME prefix_length = 4
  PROVE  ByteSpec => []ByteInvariant
<1>1. ByteInit => ByteInvariant
  BY DEF ByteInit, ByteInvariant
<1>2. ByteInvariant /\ [ByteNext]_byteVars => ByteInvariant'
  <2> SUFFICES ASSUME ByteInvariant, [ByteNext]_byteVars
               PROVE  ByteInvariant'
    OBVIOUS
  <2>1. CASE Ntob
    BY <2>1 DEF Ntob, ByteInvariant
  <2>2. CASE Bton
    BY <2>2 DEF Bton, ByteInvariant
  <2>3. CASE UNCHANGED byteVars
    BY <2>3 DEF byteVars, ByteInvariant
  <2> QED
    BY <2>1, <2>2, <2>3 DEF ByteNext
<1> QED
  BY <1>1, <1>2, PTL DEF ByteSpec

(* The comment "and vice versa" (src/util/errno.h:108) is true of so many     *)
(* numbers: every int of 32 bits comes back from ntob and bton less           *)
(* what the negative chars take, whatever the char past the end of the buffer *)
(* is; it comes back whole exactly if none of its three lower chars is        *)
(* negative.                                                                  *)
THEOREM NumberComesBackLess ==
  ASSUME Bits = 8, prefix_length = 4
  PROVE  ByteSpec => []ComesBackLess
<1>1. Widths
  BY DEF Widths
<1>2. ByteInvariant => ComesBackLess
  <2> SUFFICES ASSUME ByteInvariant, step = "done"
               PROVE  /\ result = Wrap(number - Lost(number), Width)
                      /\ result = number <=> \A i \in 0..2 : CharOf(number, i) >= 0
    BY DEF ComesBackLess
  <2> DEFINE c(i) == CharOf(number, i)
             t(i) == Taken(number, i)
             lost == Lost(number)
  <2>1. /\ number \in Int /\ -2147483648 <= number /\ number < 2147483648
    <3>1. Width = 8 * 4
      BY DEF Width
    <3> QED
      BY <3>1, Powers, SMT DEF ByteInvariant, Ints
  <2>2. /\ c(0) \in -128..127 /\ c(1) \in -128..127 /\ c(2) \in -128..127
        /\ c(3) \in -128..127
        /\ number = c(0) + 256 * c(1) + 65536 * c(2) + 16777216 * c(3)
                    + 256 * t(0) + 65536 * t(1) + 16777216 * t(2)
    BY <1>1, <2>1, CharsOf, SMT
  <2>3. /\ buffer \in [0..4 -> Int]
        /\ buffer[0] = c(0) /\ buffer[1] = c(1) /\ buffer[2] = c(2) /\ buffer[3] = c(3)
    <3>1. buffer[4] \in Int
      BY Powers, SMT DEF ByteInvariant, Chars
    <3>2. /\ buffer = [i \in 0..4 |-> buffer[i]]
          /\ buffer[0] = c(0) /\ buffer[1] = c(1) /\ buffer[2] = c(2) /\ buffer[3] = c(3)
      BY DEF ByteInvariant
    <3> HIDE DEF c
    <3>3. \A i \in 0..4 : buffer[i] \in Int
      BY <2>2, <3>1, <3>2, SMT
    <3> QED
      BY <3>2, <3>3
  <2>4. result = Joined(buffer)
    BY <1>1, <2>3, ValueIsJoined, SMT DEF ByteInvariant
  <2>5. PICK k \in Int : result = buffer[0] + 256 * buffer[1] + 65536 * buffer[2]
                                  + 16777216 * buffer[3] + k * 4294967296
    BY <1>1, <2>3, <2>4, JoinedIs, SMT
  <2>6. result \in Int /\ -2147483648 <= result /\ result < 2147483648
    BY <1>1, <2>3, <2>4, JoinedIs, SMT
  <2>7. lost = 256 * t(0) + 65536 * t(1) + 16777216 * t(2) + 4294967296 * t(3)
    BY <1>1, <2>1, LostIs, SMT
  <2>8. /\ t(0) = IF c(0) < 0 THEN 1 ELSE 0
        /\ t(1) = IF c(1) < 0 THEN 1 ELSE 0
        /\ t(2) = IF c(2) < 0 THEN 1 ELSE 0
        /\ t(3) = IF c(3) < 0 THEN 1 ELSE 0
    BY SMT DEF Taken
  <2> HIDE DEF c, t, lost
  <2>9. /\ t(0) \in 0..1 /\ t(1) \in 0..1 /\ t(2) \in 0..1 /\ t(3) \in 0..1
    BY <2>8, SMT
  <2>10. result = number - 256 * t(0) - 65536 * t(1) - 16777216 * t(2)
                  + k * 4294967296
    BY <2>1, <2>2, <2>3, <2>5, <2>9, SMT
  <2>11. lost \in Int /\ result = (number - lost) + (k + t(3)) * 4294967296
    BY <2>1, <2>7, <2>9, <2>10, SMT
  <2>12. result = Wrap(number - lost, Width)
    <3> DEFINE x == number - lost
               j == k + t(3)
    <3>1. x \in Int /\ j \in Int
      BY <2>1, <2>9, <2>11, SMT
    <3>2. result = x + j * 4294967296
      BY <2>11, SMT
    <3> HIDE DEF x, j
    <3>3. /\ Wrap(x, Width) \in Int
          /\ -2147483648 <= Wrap(x, Width) /\ Wrap(x, Width) < 2147483648
      BY <1>1, <3>1, WordWraps, SMT
    <3>4. PICK l \in Int : Wrap(x, Width) = x + l * 4294967296
      <4>1. Same(x, Wrap(x, Width))
        BY <1>1, <3>1, WordWraps, SMT
      <4> QED
        BY <4>1, SMT DEF Same
    <3>5. j = l
      BY <2>6, <3>1, <3>2, <3>3, <3>4, SMT
    <3>6. Wrap(x, Width) = result
      BY <3>2, <3>4, <3>5, SMT
    <3> QED
      BY <3>6, SMT DEF x
  <2>13. result = number <=> t(0) = 0 /\ t(1) = 0 /\ t(2) = 0
    <3>1. ASSUME result = number
          PROVE  t(0) = 0 /\ t(1) = 0 /\ t(2) = 0
      BY <2>1, <2>9, <2>10, <3>1, SMT
    <3>2. ASSUME t(0) = 0, t(1) = 0, t(2) = 0
          PROVE  result = number
      <4>1. result = number + k * 4294967296
        BY <2>1, <2>10, <3>2, SMT
      <4>2. k = 0
        BY <2>1, <2>6, <4>1, SMT
      <4> QED
        BY <2>1, <4>1, <4>2, SMT
    <3> QED
      BY <3>1, <3>2, SMT
  <2>14. (\A i \in 0..2 : CharOf(number, i) >= 0) <=> t(0) = 0 /\ t(1) = 0 /\ t(2) = 0
    <3>1. (\A i \in 0..2 : CharOf(number, i) >= 0) <=> c(0) >= 0 /\ c(1) >= 0 /\ c(2) >= 0
      BY SMT DEF c
    <3> QED
      BY <2>2, <2>8, <3>1, SMT
  <2> QED
    BY <2>12, <2>13, <2>14, SMT DEF lost
<1> QED
  BY <1>2, ByteInductive, PTL

-----------------------------------------------------------------------------
(* Stopwatch                                                                 *)

(* The units of src/util/stopwatch.h as numbers. *)
LEMMA Units ==
  /\ Second = 1000 /\ Minute = 60000 /\ Hour = 3600000 /\ Day = 86400000
  /\ MaxLong = 2147483647
<1>1. Second = 1000 /\ Minute = 60000 /\ Hour = 3600000 /\ Day = 86400000
  BY SMT DEF Second, Minute, Hour, Day
<1>2. 2^30 = 1073741824
  BY SMT
<1> QED
  BY <1>1, <1>2, SMT DEF MaxLong

(* The fields below the month add up to ms, each below the next unit. *)
SplitsInto(ms, fields) ==
  /\ fields \in [1..7 -> Int]
  /\ fields[1] = 0
  /\ fields[2] = 0
  /\ fields[3] \in 0..29
  /\ fields[4] \in 0..23
  /\ fields[5] \in 0..59
  /\ fields[6] \in 0..59
  /\ fields[7] \in 0..999
  /\ ms = fields[3] * 86400000 + fields[4] * 3600000 + fields[5] * 60000
          + fields[6] * 1000 + fields[7]

(* convert, unit after unit, splits every long that is not negative: below *)
(* 2^31 milliseconds there is no month and no year.                        *)
LEMMA FieldsOf ==
  ASSUME NEW ms \in Int, 0 <= ms, ms <= MaxLong
  PROVE  SplitsInto(ms, Fields(ms))
<1> DEFINE month == (ms \div Day) \div 30
           year  == (ms \div Day) \div 365
           rest  == ms - month * 30 * Day
           d     == ms \div Day
           ofDay == ms % Day
           h     == ofDay \div Hour
           ofHour == ofDay % Hour
           m     == ofHour \div Minute
           ofMinute == ms % Minute
           s     == ofMinute \div Second
           f     == ms % Second
<1>1. ms <= 2147483647
  BY Units, SMT
<1>2. /\ d \in 0..24 /\ ofDay \in Int /\ 0 <= ofDay /\ ofDay < 86400000
      /\ ms = d * 86400000 + ofDay
  BY <1>1, Units, SMT
<1>3. /\ h \in 0..23 /\ ofHour \in Int /\ 0 <= ofHour /\ ofHour < 3600000
      /\ ofDay = h * 3600000 + ofHour
  BY <1>2, Units, SMT
<1>4. /\ m \in 0..59 /\ ofHour = m * 60000 + ofMinute
      /\ ofMinute \in Int /\ 0 <= ofMinute /\ ofMinute < 60000
  BY <1>2, <1>3, Units, SMT
<1>5. /\ s \in 0..59 /\ f \in 0..999 /\ ofMinute = s * 1000 + f
  BY <1>4, Units, SMT
<1>6. month = 0 /\ year = 0
  BY <1>2, Units, SMT
<1>7. rest = ms
  <2> HIDE DEF month
  <2> QED
    BY <1>6, Units, SMT
<1>8. Fields(ms) = <<year, month, rest \div Day, (rest % Day) \div Hour,
                     (rest % Hour) \div Minute, (rest % Minute) \div Second,
                     rest % Second>>
  BY Zenon DEF Fields
<1>9. ofHour = ms % Hour
  BY Units, SMT
<1>10. Fields(ms) = <<0, 0, d, h, m, s, f>>
  <2> HIDE DEF month, year, rest
  <2> QED
    BY <1>6, <1>7, <1>8, <1>9, Zenon
<1> HIDE DEF month, year, rest, d, ofDay, h, ofHour, m, ofMinute, s, f
<1>11. ms = d * 86400000 + h * 3600000 + m * 60000 + s * 1000 + f
  BY <1>2, <1>3, <1>4, <1>5, SMT
<1> DEFINE all == <<0, 0, d, h, m, s, f>>
<1>12. /\ all \in [1..7 -> Int]
       /\ all[1] = 0 /\ all[2] = 0 /\ all[3] = d /\ all[4] = h
       /\ all[5] = m /\ all[6] = s /\ all[7] = f
  <2>1. d \in Int /\ h \in Int /\ m \in Int /\ s \in Int /\ f \in Int
    BY <1>2, <1>3, <1>4, <1>5, SMT
  <2> QED
    BY <2>1, SMT
<1>13. Fields(ms) = all
  BY <1>10, Zenon
<1> HIDE DEF all
<1>14. SplitsInto(ms, all)
  BY <1>2, <1>3, <1>4, <1>5, <1>11, <1>12, SMT DEF SplitsInto
<1> QED
  BY <1>13, <1>14, Zenon

(* What is printed starts at a field and goes on to the last, and every field *)
(* before it is 0.                                                            *)
LEMMA ShownIs ==
  ASSUME NEW fields \in [1..7 -> Int], fields[1] = 0, fields[2] = 0
  PROVE  \E first \in 3..6 :
           /\ Len(Shown(fields)) = 8 - first
           /\ \A i \in 1..(8 - first) : Shown(fields)[i] = fields[i + first - 1]
           /\ \A i \in 3..(first - 1) : fields[i] = 0
<1> DEFINE S == {i \in 1..5 : fields[i] # 0} \cup {6}
           first == Min(S)
<1>1. /\ 3 \in S <=> fields[3] # 0
      /\ 4 \in S <=> fields[4] # 0
      /\ 5 \in S <=> fields[5] # 0
      /\ S \subseteq {3, 4, 5, 6} /\ 6 \in S
  BY SMT
<1>2. Shown(fields) = SubSeq(fields, first, 7)
  BY DEF Shown
<1> HIDE DEF S
<1>3. \E x \in S : \A y \in S : x =< y
  <2>1. CASE 3 \in S
    <3>1. \A y \in S : 3 =< y
      BY <1>1, SMT
    <3> QED BY <2>1, <3>1
  <2>2. CASE 3 \notin S /\ 4 \in S
    <3>1. \A y \in S : 4 =< y
      BY <1>1, <2>2, SMT
    <3> QED BY <2>2, <3>1
  <2>3. CASE 3 \notin S /\ 4 \notin S /\ 5 \in S
    <3>1. \A y \in S : 5 =< y
      BY <1>1, <2>3, SMT
    <3> QED BY <2>3, <3>1
  <2>4. CASE 3 \notin S /\ 4 \notin S /\ 5 \notin S
    <3>1. \A y \in S : 6 =< y
      BY <1>1, <2>4, SMT
    <3> QED BY <1>1, <3>1
  <2> QED
    BY <2>1, <2>2, <2>3, <2>4
<1>4. first \in S /\ \A y \in S : first =< y
  BY <1>3 DEF Min
<1> HIDE DEF first
<1>5. first \in 3..6 /\ \A i \in 3..(first - 1) : fields[i] = 0
  BY <1>1, <1>4, SMT
<1>6. /\ Len(Shown(fields)) = 8 - first
      /\ \A i \in 1..(8 - first) : Shown(fields)[i] = fields[i + first - 1]
  <2>1. /\ Len(SubSeq(fields, first, 7)) = 7 - first + 1
        /\ \A i \in 1..(7 - first + 1) : SubSeq(fields, first, 7)[i] = fields[first + i - 1]
    <3>1. first \in Int /\ 7 \in Int /\ 7 - first + 1 = IF first <= 7 THEN 7 - first + 1 ELSE 0
      BY <1>5, SMT
    <3>2. \A i \in 1..7 : fields[i] \in Int
      BY SMT
    <3>3. \A i \in first..7 : fields[i] \in Int
      BY <1>5, <3>2, SMT
    <3> QED
      <4> DEFINE s == fields
                 m == first
                 n == 7
      <4> HIDE DEF s, m, n
      <4>1. m \in Int /\ n \in Int /\ m <= n /\ \A i \in m..n : s[i] \in Int
        BY <1>5, <3>1, <3>3 DEF s, m, n
      <4>2. /\ Len(SubSeq(s, m, n)) = IF m <= n THEN n - m + 1 ELSE 0
            /\ \A i \in 1..(n - m + 1) : SubSeq(s, m, n)[i] = s[m + i - 1]
        BY <4>1, SubSeqProperties
      <4> QED
        BY <4>1, <4>2 DEF s, m, n
  <2> QED
    BY <1>2, <1>5, <2>1, SMT
<1> QED
  BY <1>5, <1>6, Zenon

(* A text of ms reads as ms. *)
LEMMA ShownReads ==
  ASSUME NEW ms \in Int, 0 <= ms, ms <= MaxLong
  PROVE  InRange(Shown(Fields(ms))) /\ Value(Shown(Fields(ms))) = ms
<1> DEFINE fields == Fields(ms)
           shown == Shown(fields)
<1>1. SplitsInto(ms, fields)
  BY FieldsOf, Zenon
<1> HIDE DEF fields
<1>2. PICK first \in 3..6 :
        /\ Len(shown) = 8 - first
        /\ \A i \in 1..(8 - first) : shown[i] = fields[i + first - 1]
        /\ \A i \in 3..(first - 1) : fields[i] = 0
  <2>1. fields \in [1..7 -> Int] /\ fields[1] = 0 /\ fields[2] = 0
    BY <1>1, SMT DEF SplitsInto
  <2> QED
    BY <2>1, ShownIs, Zenon
<1> HIDE DEF shown
<1>3. InRange(shown)
  <2> DEFINE below == <<1, 1, 30, 24, 60, 60, 1000>>
  <2>0. /\ fields[3] \in 0..29 /\ fields[4] \in 0..23 /\ fields[5] \in 0..59
        /\ fields[6] \in 0..59 /\ fields[7] \in 0..999
    BY <1>1, SMT DEF SplitsInto
  <2>5. /\ below[3] = 30 /\ below[4] = 24 /\ below[5] = 60 /\ below[6] = 60
        /\ below[7] = 1000
    BY SMT
  <2>1. ASSUME NEW i \in 1..Len(shown)
        PROVE  shown[i] \in 0..(below[7 - Len(shown) + i] - 1)
    <3> DEFINE p == i + first - 1
    <3>1. p \in 3..7 /\ shown[i] = fields[p] /\ 7 - Len(shown) + i = p
      BY <1>2, SMT
    <3> HIDE DEF p, below
    <3>2. fields[p] \in 0..(below[p] - 1)
      <4>1. CASE p = 3
        <5>1. fields[3] \in 0..(below[3] - 1)
          BY <2>0, <2>5, SMT
        <5> QED
          BY <4>1, <5>1, Zenon
      <4>2. CASE p = 4
        <5>1. fields[4] \in 0..(below[4] - 1)
          BY <2>0, <2>5, SMT
        <5> QED
          BY <4>2, <5>1, Zenon
      <4>3. CASE p = 5
        <5>1. fields[5] \in 0..(below[5] - 1)
          BY <2>0, <2>5, SMT
        <5> QED
          BY <4>3, <5>1, Zenon
      <4>4. CASE p = 6
        <5>1. fields[6] \in 0..(below[6] - 1)
          BY <2>0, <2>5, SMT
        <5> QED
          BY <4>4, <5>1, Zenon
      <4>5. CASE p = 7
        <5>1. fields[7] \in 0..(below[7] - 1)
          BY <2>0, <2>5, SMT
        <5> QED
          BY <4>5, <5>1, Zenon
      <4> QED
        BY <3>1, <4>1, <4>2, <4>3, <4>4, <4>5, SMT
    <3> QED
      BY <3>1, <3>2, SMT
  <2> QED
    BY <2>1, SMT DEF InRange
<1>4. Value(shown) = ms
  <2> DEFINE n == Len(shown)
             at(i) == IF i < n THEN shown[n - i] ELSE 0
  <2>1. /\ at(0) = fields[7] /\ at(1) = fields[6] /\ at(2) = fields[5]
        /\ at(3) = fields[4] /\ at(4) = fields[3]
    <3>1. /\ 0 < n => n - 0 \in 1..(8 - first) /\ n - 0 + first - 1 = 7
          /\ 1 < n => n - 1 \in 1..(8 - first) /\ n - 1 + first - 1 = 6
          /\ 2 < n => n - 2 \in 1..(8 - first) /\ n - 2 + first - 1 = 5
          /\ 3 < n => n - 3 \in 1..(8 - first) /\ n - 3 + first - 1 = 4
          /\ 4 < n => n - 4 \in 1..(8 - first) /\ n - 4 + first - 1 = 3
          /\ 0 < n /\ 1 < n
      BY <1>2, SMT
    <3>2. /\ ~(2 < n) => fields[5] = 0
          /\ ~(3 < n) => fields[4] = 0
          /\ ~(4 < n) => fields[3] = 0
      BY <1>2, SMT
    <3> QED
      BY <1>2, <3>1, <3>2, SMT
  <2>2. Value(shown) = at(0) + at(1) * Second + at(2) * Minute + at(3) * Hour
                       + at(4) * Day
    BY Zenon DEF Value
  <2> HIDE DEF at, n
  <2>3. /\ ms = fields[3] * 86400000 + fields[4] * 3600000 + fields[5] * 60000
                + fields[6] * 1000 + fields[7]
        /\ fields[3] \in Int /\ fields[4] \in Int /\ fields[5] \in Int
        /\ fields[6] \in Int /\ fields[7] \in Int
    BY <1>1, SMT DEF SplitsInto
  <2>4. Value(shown) = fields[7] + fields[6] * 1000 + fields[5] * 60000
                       + fields[4] * 3600000 + fields[3] * 86400000
    <3>1. /\ at(1) * Second = fields[6] * 1000
          /\ at(2) * Minute = fields[5] * 60000
          /\ at(3) * Hour = fields[4] * 3600000
          /\ at(4) * Day = fields[3] * 86400000
      BY <2>1, Units, SMT
    <3> QED
      BY <2>1, <2>2, <3>1, SMT
  <2> QED
    BY <2>3, <2>4, SMT
<1> QED
  BY <1>3, <1>4, Zenon DEF shown, fields

(* A text is of the time that the last stop has measured. *)
WatchInvariant ==
  /\ _elapsed \in Clock \cup {Unset}
  /\ text # Unset =>
       /\ _elapsed \in Clock
       /\ \/ text = [shown |-> Shown(Fields(IF _elapsed.frac >= 5000
                                            THEN _elapsed.ms + 1 ELSE _elapsed.ms)),
                     micro |-> Unset]
          \/ text = [shown |-> Shown(Fields(_elapsed.ms)),
                     micro |-> (_elapsed.frac + 5) \div 10]

(* WatchInvariant holds for any times. *)
LEMMA WatchInductive == WatchSpec => []WatchInvariant
<1>1. WatchInit => WatchInvariant
  BY DEF WatchInit, WatchInvariant
<1>2. WatchInvariant /\ [WatchNext]_watchVars => WatchInvariant'
  <2> SUFFICES ASSUME WatchInvariant, [WatchNext]_watchVars
               PROVE  WatchInvariant'
    OBVIOUS
  <2>1. CASE Begin
    BY <2>1 DEF Begin, WatchInvariant
  <2>2. CASE Stop
    BY <2>2 DEF Stop, WatchInvariant
  <2>3. CASE Readable
    BY <2>3 DEF Readable, WatchInvariant
  <2>4. CASE Readable2
    BY <2>4 DEF Readable2, WatchInvariant
  <2>5. CASE UNCHANGED watchVars
    BY <2>5 DEF watchVars, WatchInvariant
  <2> QED
    BY <2>1, <2>2, <2>3, <2>4, <2>5 DEF WatchNext
<1> QED
  BY <1>1, <1>2, PTL DEF WatchSpec

(* Every text of readable and readable2 (src/util/impl/stopwatch.hpp) adds up *)
(* to the time measured, for every time below 2^31 milliseconds.              *)
THEOREM TextsAlwaysAddUp == WatchSpec => []TextsAddUp
<1>1. WatchInvariant => TextsAddUp
  <2> SUFFICES ASSUME WatchInvariant, text # Unset
               PROVE  /\ InRange(text.shown)
                      /\ IF text.micro = Unset
                         THEN ToMillisecond(Value(text.shown), _elapsed.ms, _elapsed.frac)
                         ELSE /\ Value(text.shown) = _elapsed.ms
                              /\ ToMicrosecond(text.micro, _elapsed.frac)
    BY DEF TextsAddUp
  <2> DEFINE ms == _elapsed.ms
             frac == _elapsed.frac
  <2>1. ms \in Times /\ frac \in Fractions
    BY DEF WatchInvariant, Clock
  <2>2. /\ ms \in Int /\ 0 <= ms /\ ms <= MaxLong /\ ms + 1 <= MaxLong
        /\ frac \in Int /\ 0 <= frac /\ frac <= 9999
    <3> HIDE DEF ms, frac
    <3>1. ms \in 0..(MaxLong - 1) /\ frac \in 0..9999
      BY <2>1, WatchAssumption, SMT
    <3>2. MaxLong \in Int
      BY Units, SMT
    <3> QED
      BY <3>1, <3>2, SMT
  <2>3. CASE text = [shown |-> Shown(Fields(IF frac >= 5000 THEN ms + 1 ELSE ms)),
                     micro |-> Unset]
    <3> DEFINE rounded == IF frac >= 5000 THEN ms + 1 ELSE ms
    <3>1. /\ rounded \in Int /\ 0 <= rounded /\ rounded <= MaxLong
          /\ ToMillisecond(rounded, ms, frac)
      <4> HIDE DEF ms, frac
      <4>1. CASE frac >= 5000
        <5>1. rounded = ms + 1
          BY <4>1, SMT
        <5> HIDE DEF rounded
        <5> QED
          BY <2>2, <4>1, <5>1, SMT DEF ToMillisecond
      <4>2. CASE frac < 5000
        <5>1. rounded = ms
          BY <2>2, <4>2, SMT
        <5> HIDE DEF rounded
        <5> QED
          BY <2>2, <4>2, <5>1, SMT DEF ToMillisecond
      <4> QED
        BY <2>2, <4>1, <4>2, SMT
    <3>2. text.micro = Unset /\ text.shown = Shown(Fields(rounded))
      BY <2>3, SMT
    <3> HIDE DEF rounded
    <3>3. InRange(Shown(Fields(rounded))) /\ Value(Shown(Fields(rounded))) = rounded
      BY <3>1, ShownReads, SMT
    <3> QED
      BY <3>1, <3>2, <3>3, SMT
  <2>4. CASE text = [shown |-> Shown(Fields(ms)), micro |-> (frac + 5) \div 10]
    <3> DEFINE micro == (frac + 5) \div 10
    <3>1. InRange(Shown(Fields(ms))) /\ Value(Shown(Fields(ms))) = ms
      BY <2>2, ShownReads, SMT
    <3>2. micro \in Int /\ ToMicrosecond(micro, frac)
      <4>1. /\ micro \in Int
            /\ 10 * micro <= frac + 5 /\ frac + 5 < 10 * micro + 10
        <5> HIDE DEF frac
        <5> QED
          BY <2>2, SMT
      <4> HIDE DEF frac, micro
      <4> QED
        BY <2>2, <4>1, SMT DEF ToMicrosecond
    <3>3. micro # Unset
      BY <3>2, WatchAssumption, SMT
    <3>4. text.micro = micro /\ text.shown = Shown(Fields(ms))
      BY <2>4, SMT
    <3> HIDE DEF micro
    <3> QED
      BY <3>1, <3>2, <3>3, <3>4, SMT
  <2> QED
    BY <2>3, <2>4 DEF WatchInvariant
<1> QED
  BY <1>1, WatchInductive, PTL

=============================================================================
