----------------------------- MODULE Stopwatch -----------------------------
(***************************************************************************)
(* Stopwatch (src/util): begin, stop, and what readable and readable2       *)
(* print, as numbers.  A time is a number of milliseconds and a fraction in *)
(* tenths of microseconds; long has 32 bits, as the Windows build has it,   *)
(* which keeps the milliseconds below 2^31.                                 *)
(***************************************************************************)
EXTENDS Integers, Sequences, FiniteSetsExt

CONSTANTS
  Times,      \* milliseconds between a begin and its stop
  Fractions,  \* and what follows the point, in tenths of microseconds
  Unset       \* no text, or a member that no constructor sets

MaxLong == 2^30 + (2^30 - 1)

ASSUME WatchAssumption ==
  /\ Times \subseteq 0..(MaxLong - 1)
  /\ Fractions \subseteq 0..9999
  /\ Unset \notin Int

VARIABLES _elapsed, _started, text

watchVars == <<_elapsed, _started, text>>

Clock == [ms : Times, frac : Fractions]

Second == 1000
Minute == 60 * Second
Hour   == 60 * Minute
Day    == 24 * Hour

(* Faulty: the hours are converted but not subtracted. *)
FieldsHoursKept(msec) ==
  LET month == (msec \div Day) \div 30
      rest  == msec - month * 30 * Day
  IN  << (msec \div Day) \div 365, month, rest \div Day,
         (rest % Day) \div Hour, (rest % Day) \div Minute,
         (rest % Minute) \div Second, rest % Second >>

(* convert, unit after unit: years, months, days, hours, minutes, seconds   *)
(* and what is left.  A month has 30 days, and more milliseconds than TLC   *)
(* can count.                                                               *)
Fields(msec) ==
  LET month == (msec \div Day) \div 30
      rest  == msec - month * 30 * Day
  IN  << (msec \div Day) \div 365, month, rest \div Day,
         (rest % Day) \div Hour, (rest % Hour) \div Minute,
         (rest % Minute) \div Second, rest % Second >>

(* The first field that is not 0 and all after it; never less than seconds. *)
Shown(fields) ==
  SubSeq(fields, Min({i \in 1..5 : fields[i] # 0} \cup {6}), 7)

WatchInit ==
  /\ _elapsed = Unset
  /\ _started = FALSE
  /\ text = Unset

Begin ==
  /\ _started' = TRUE
  /\ UNCHANGED <<_elapsed, text>>

(* A stop without a begin measures from 0. *)
Stop ==
  /\ _elapsed' \in Clock
  /\ _started' = FALSE
  /\ text' = Unset

(* (long)(_elapsed + 0.5); nothing is said of a text before the first stop. *)
Readable ==
  /\ _elapsed # Unset
  /\ LET msec == IF _elapsed.frac >= 5000 THEN _elapsed.ms + 1 ELSE _elapsed.ms
     IN  text' = [shown |-> Shown(Fields(msec)), micro |-> Unset]
  /\ UNCHANGED <<_elapsed, _started>>

Readable2 ==
  /\ _elapsed # Unset
  /\ text' = [shown |-> Shown(Fields(_elapsed.ms)),
              micro |-> (_elapsed.frac + 5) \div 10]
  /\ UNCHANGED <<_elapsed, _started>>

WatchNext == Begin \/ Stop \/ Readable \/ Readable2

WatchSpec == WatchInit /\ [][WatchNext]_watchVars

-----------------------------------------------------------------------------
(* What a text reads as, field by field from the right.  Years and months   *)
(* have no weight: see TextsAddUp.                                          *)
Value(shown) ==
  LET n     == Len(shown)
      at(i) == IF i < n THEN shown[n - i] ELSE 0
  IN  at(0) + at(1) * Second + at(2) * Minute + at(3) * Hour + at(4) * Day

(* Every field is below the next unit, and there is no month or year.       *)
InRange(shown) ==
  LET below == <<1, 1, 30, 24, 60, 60, 1000>>
      n     == Len(shown)
  IN  \A i \in 1..n : shown[i] \in 0..(below[7 - n + i] - 1)

(* The value is the time ms.frac, to the nearest millisecond.               *)
ToMillisecond(value, ms, frac) == 10000 * (value - ms) - frac \in -4999..5000

(* So many microseconds are the fraction, to the nearest one; the last half *)
(* microsecond rounds up to a thousand.                                     *)
ToMicrosecond(micro, frac) ==
  /\ 10 * micro - frac \in -4..5
  /\ micro = 1000 <=> frac >= 9995

(* A text says the elapsed time, with every field below the next unit, to   *)
(* the nearest millisecond or microsecond.  One text of readable2 does not: *)
(* it prints a thousand microseconds in place of three digits.              *)
TextsAddUp ==
  text # Unset =>
    /\ InRange(text.shown)
    /\ IF text.micro = Unset
       THEN ToMillisecond(Value(text.shown), _elapsed.ms, _elapsed.frac)
       ELSE /\ Value(text.shown) = _elapsed.ms
            /\ ToMicrosecond(text.micro, _elapsed.frac)

=============================================================================
