----------------------------- MODULE ByteOrder -----------------------------
(***************************************************************************)
(* ntob and bton (src/util/errno.h): a number written to a buffer byte by   *)
(* byte and read back.  char is signed, as it is for the compilers the code *)
(* is written for, and int wraps around.                                    *)
(***************************************************************************)
EXTENDS Integers

CONSTANTS
  Bits,            \* bits of a char: 8
  prefix_length    \* chars of an int: 4

VARIABLES number, buffer, result, step

byteVars == <<number, buffer, result, step>>

(* x as a two's complement number of so many bits *)
Wrap(x, bits) ==
  LET m == x % 2^bits
  IN  IF m < 2^(bits - 1) THEN m ELSE m - 2^bits

Width == Bits * prefix_length

Chars == -(2^(Bits - 1)) .. 2^(Bits - 1) - 1

Ints == -(2^(Width - 1)) .. 2^(Width - 1) - 1

(* (char)(_number >> (i*8)) *)
CharOf(n, i) == Wrap(n \div 2^(Bits * i), Bits)

(* result = (result<<8) + _buffer[n], from n = prefix_length, one past the  *)
(* end, down to 0                                                           *)
ValueOf(b) ==
  LET from[i \in 0..prefix_length] ==
        IF i = prefix_length THEN b[i]
                             ELSE Wrap(from[i + 1] * 2^Bits + b[i], Width)
  IN  from[0]

(* What is in and after the buffer is any char. *)
ByteInit ==
  /\ number \in Ints
  /\ \E c \in Chars : buffer = [i \in 0..prefix_length |-> c]
  /\ result = 0
  /\ step = "ntob"

Ntob ==
  /\ step = "ntob"
  /\ buffer' = [i \in 0..prefix_length |->
                  IF i < prefix_length THEN CharOf(number, i) ELSE buffer[i]]
  /\ step' = "bton"
  /\ UNCHANGED <<number, result>>

Bton ==
  /\ step = "bton"
  /\ result' = ValueOf(buffer)
  /\ step' = "done"
  /\ UNCHANGED <<number, buffer>>

ByteNext == Ntob \/ Bton

ByteSpec == ByteInit /\ [][ByteNext]_byteVars

-----------------------------------------------------------------------------
(* Properties *)

(* "Convert number to bytes, and vice versa" (errno.h): what bton makes of   *)
(* the bytes of ntob is the number.  It fails, since bton adds signed chars. *)
ComesBack == step = "done" => result = number

(* What is lost of n on the way: each char that is negative takes one from  *)
(* the next, the last from past the end.                                    *)
Lost(n) ==
  LET Borrow(i) == IF CharOf(n, i) < 0 THEN 2^(Bits * (i + 1)) ELSE 0
      lost[i \in 0..prefix_length] ==
        IF i = 0 THEN 0 ELSE lost[i - 1] + Borrow(i - 1)
  IN  lost[prefix_length]

(* What the code does instead: the number comes back without what is lost,   *)
(* and so ComesBack is true of those numbers, and only those, in which no    *)
(* char but the last is negative.  The char past the end is read and never   *)
(* matters.                                                                 *)
ComesBackLess ==
  step = "done" =>
    LET whole == \A i \in 0..(prefix_length - 2) : CharOf(number, i) >= 0
    IN  /\ result = Wrap(number - Lost(number), Width)
        /\ result = number <=> whole

=============================================================================
