------------------------------- MODULE CdTime -------------------------------
(* Times on a CD (cdrom/src/cdtime.rs): minutes, seconds and frames, a frame  *)
(* being a sector, added and subtracted digit by digit.                       *)
EXTENDS Integers

CONSTANTS FRAMES_PER_SECOND,    \* 75
          SECONDS_PER_MINUTE,   \* 60
          MAX_MINUTES           \* 80

BasesAssumption ==
  /\ FRAMES_PER_SECOND \in Nat \ {0}
  /\ SECONDS_PER_MINUTE \in Nat \ {0}
  /\ MAX_MINUTES \in Nat \ {0}

MAX_SECTORS == MAX_MINUTES * SECONDS_PER_MINUTE * FRAMES_PER_SECOND

Times == [minutes : 0 .. MAX_MINUTES - 1, seconds : 0 .. SECONDS_PER_MINUTE - 1,
          frames : 0 .. FRAMES_PER_SECOND - 1]

ZERO == [minutes |-> 0, seconds |-> 0, frames |-> 0]

ToSector(time) == (SECONDS_PER_MINUTE * time.minutes + time.seconds) * FRAMES_PER_SECOND + time.frames

FromSector(n) ==
  [minutes |-> n \div (FRAMES_PER_SECOND * SECONDS_PER_MINUTE),
   seconds |-> (n \div FRAMES_PER_SECOND) % SECONDS_PER_MINUTE,
   frames |-> n % FRAMES_PER_SECOND]

\* A digit of a sum or a difference, and what it carries or borrows.
AddDigit(a, b, carry, base) ==
  LET sum == a + b + carry
  IN [digit |-> sum % base, carry |-> IF sum >= base THEN 1 ELSE 0]

SubDigit(a, b, borrow, base) ==
  LET operand == b + borrow
  IN IF a < operand THEN [digit |-> base - (operand - a), carry |-> 1]
     ELSE [digit |-> a - operand, carry |-> 0]

Plus(a, b) ==
  LET frames  == AddDigit(a.frames, b.frames, 0, FRAMES_PER_SECOND)
      seconds == AddDigit(a.seconds, b.seconds, frames.carry, SECONDS_PER_MINUTE)
      minutes == AddDigit(a.minutes, b.minutes, seconds.carry, MAX_MINUTES)
  IN [minutes |-> minutes.digit, seconds |-> seconds.digit, frames |-> frames.digit]

Minus(a, b) ==
  LET frames  == SubDigit(a.frames, b.frames, 0, FRAMES_PER_SECOND)
      seconds == SubDigit(a.seconds, b.seconds, frames.carry, SECONDS_PER_MINUTE)
      minutes == SubDigit(a.minutes, b.minutes, seconds.carry, MAX_MINUTES)
  IN [minutes |-> minutes.digit, seconds |-> seconds.digit, frames |-> frames.digit]

Before(a, b) ==
  \/ a.minutes < b.minutes
  \/ a.minutes = b.minutes /\ a.seconds < b.seconds
  \/ a.minutes = b.minutes /\ a.seconds = b.seconds /\ a.frames < b.frames
=============================================================================
