------------------------------- MODULE Limits -------------------------------
(***************************************************************************)
(* src/limits.go: the counters of concurrent requests, and how long a      *)
(* requester that was turned away is told to wait.                         *)
(*                                                                         *)
(* Durations are numbers; a wait is a uint32 of milliseconds.              *)
(***************************************************************************)
EXTENDS Integers

CONSTANTS
  Width,          \* number of values of a uint32
  Millisecond,    \* time.Millisecond
  DefaultMinWait, \* of DefaultLimits, the same for buffers and streams
  DefaultMaxWait

ASSUME WidthAssumption == Width \in Nat \ {0}
ASSUME DurationAssumption ==
  /\ Millisecond \in Nat \ {0}
  /\ DefaultMinWait \in Nat \ {0} /\ DefaultMaxWait \in Nat \ {0}

Unlimited == Width - 1

-----------------------------------------------------------------------------
(* The counters: counted up before they are compared.                       *)

IncStrict(limit, count) ==          \* mutant: one request too few
  IF limit = Unlimited THEN <<TRUE, count>>
  ELSE LET n == (count + 1) % Width
       IN IF n >= limit THEN <<FALSE, (n - 1) % Width>> ELSE <<TRUE, n>>
IncLeaky(limit, count) ==           \* mutant: a refused request stays counted
  IF limit = Unlimited THEN <<TRUE, count>>
  ELSE LET n == (count + 1) % Width IN <<n <= limit, n>>

\* incBufferReq, incStreamReq: whether there was room, and the new count.
Inc(limit, count) ==
  IF limit = Unlimited THEN <<TRUE, count>>
  ELSE LET n == (count + 1) % Width
       IN IF n > limit THEN <<FALSE, (n - 1) % Width>> ELSE <<TRUE, n>>

\* decBufferReq, decStreamReq.
Dec(limit, count) == IF limit = Unlimited THEN count ELSE (count - 1) % Width

-----------------------------------------------------------------------------
(* The wait.                                                                *)

\* makeLimitsImpl: what it makes of a configured minimum and maximum.  Only a
\* maximum that was configured is raised to the minimum.
MinWait(min) == IF min <= 0 THEN DefaultMinWait ELSE min
MaxWait(min, max) ==
  IF max <= 0 THEN DefaultMaxWait
  ELSE IF max < MinWait(min) THEN MinWait(min) ELSE max
Uint32Ms(d) == (d \div Millisecond) % Width

randUint32Wide(min, max) ==         \* mutant: min + rand.Intn(max)
  {(min + r) % Width : r \in 0 .. max - 1}
\* randUint32: min + rand.Intn(max - min), in uint32.  Intn has nothing to choose
\* from, and panics, when the bounds are equal.
randUint32(min, max) ==
  {(min + r) % Width : r \in 0 .. ((max - min) % Width) - 1}

\* waitBufferReq, waitStreamReq: the waits one may return; none is a panic.
Waits(min, max) == randUint32(Uint32Ms(MinWait(min)), Uint32Ms(MaxWait(min, max)))
=============================================================================
