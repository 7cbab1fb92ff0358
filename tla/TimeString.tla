----------------------------- MODULE TimeString -----------------------------
(* The time stamp of a message: UnixTimeString of internal/telem/telem.go,   *)
(* "%d.%d" of Unix() and UnixNano() % Unix(), as the pair of its two numbers. *)
(* A clock is the whole seconds since 1970 and the nanoseconds after them.   *)
EXTENDS Integers, TLAPS

Second == 1000000000    \* in nanoseconds

Clocks == [sec : Nat, nano : 0 .. Second - 1]

UnixNano(t) == Second * t.sec + t.nano

\* Go panics if t.sec = 0.
UnixTimeString(t) == <<t.sec, UnixNano(t) % t.sec>>

\* What a reader makes of it, who takes the string for a decimal number: a
\* number of d digits after the point counts in units of 10^-d seconds.
Unit(frac) == IF frac >= 100000000 THEN 1
              ELSE IF frac >= 10000000 THEN 10
              ELSE IF frac >= 1000000 THEN 100
              ELSE IF frac >= 100000 THEN 1000
              ELSE IF frac >= 10000 THEN 10000
              ELSE IF frac >= 1000 THEN 100000
              ELSE IF frac >= 100 THEN 1000000
              ELSE IF frac >= 10 THEN 10000000
              ELSE 100000000
AsDecimal(str) == [sec |-> str[1], nano |-> str[2] * Unit(str[2])]

\* The bounds that the proofs use of the length of a second.
LEMMA SecondIsLong == Second \in Nat /\ Second > 10
  BY SMT DEF Second

\* A multiple of the divisor does not count in a remainder.
LEMMA RemainderOfSum ==
  ASSUME NEW s \in Nat, s > 0, NEW n \in Nat, n < s, NEW k \in Nat
  PROVE  (k * s + n) % s = n
  BY SMT

\* The remainder by the seconds is that of the nanoseconds alone once there have
\* been more seconds than a second has nanoseconds, which is so since September
\* 2001: the string has both numbers of the clock (telem.go:51-53).
THEOREM StringHasClock ==
  ASSUME NEW t \in Clocks, t.sec >= Second
  PROVE  UnixTimeString(t) = <<t.sec, t.nano>>
<1>1. t.sec \in Nat /\ t.nano \in 0 .. Second - 1
  BY DEF Clocks
<1>2. t.sec > 0 /\ t.nano \in Nat /\ t.nano < t.sec
  BY <1>1, SecondIsLong, SMT
<1>3. (Second * t.sec + t.nano) % t.sec = t.nano
  BY <1>1, <1>2, SecondIsLong, RemainderOfSum
<1>4. QED
  BY <1>3 DEF UnixTimeString, UnixNano

\* So two clocks have the same string only if they are the same.
COROLLARY StringsDiffer ==
  ASSUME NEW t \in Clocks, NEW u \in Clocks, t.sec >= Second, u.sec >= Second,
         UnixTimeString(t) = UnixTimeString(u)
  PROVE  t = u
<1>1. <<t.sec, t.nano>> = <<u.sec, u.nano>>
  BY StringHasClock
<1>2. t.sec = u.sec /\ t.nano = u.nano
  BY <1>1
<1>3. QED
  BY <1>2 DEF Clocks

\* A number of at least nine digits is in nanoseconds; any other but 0 is not.
LEMMA UnitOfLongFractions ==
  ASSUME NEW n \in Nat
  PROVE  n * Unit(n) = n <=> n = 0 \/ n >= 100000000
<1>1. CASE n >= 100000000
  BY <1>1, SMT DEF Unit
<1>2. CASE n < 100000000
  <2>1. /\ Unit(n) \in {10, 100, 1000, 10000, 100000, 1000000, 10000000, 100000000}
        /\ ~(n >= 100000000)
    BY <1>2, SMT DEF Unit
  <2>2. \A k \in {10, 100, 1000, 10000, 100000, 1000000, 10000000, 100000000} :
          n * k = n <=> n = 0
    BY SMT
  <2>3. QED
    BY <2>1, <2>2, SMT
<1>3. QED
  BY <1>1, <1>2, SMT

\* But the nanoseconds are printed without leading zeros.  Who reads the string
\* as a number gets the clock back only in the last nine tenths of a second and
\* at its very beginning; 5 ns read as half a second (telem.go:52).
THEOREM ReaderGetsClock ==
  ASSUME NEW t \in Clocks, t.sec >= Second
  PROVE  AsDecimal(UnixTimeString(t)) = t <=> t.nano = 0 \/ t.nano >= 100000000
<1> DEFINE n == t.nano
<1>1. n \in 0 .. Second - 1 /\ t = [sec |-> t.sec, nano |-> n]
  BY DEF Clocks
<1>2. AsDecimal(UnixTimeString(t)) = [sec |-> t.sec, nano |-> n * Unit(n)]
  BY StringHasClock DEF AsDecimal
<1>3. AsDecimal(UnixTimeString(t)) = t <=> n * Unit(n) = n
  BY <1>1, <1>2
<1>4. n * Unit(n) = n <=> n = 0 \/ n >= 100000000
  <2>1. n \in Nat
    BY <1>1, SecondIsLong, SMT
  <2>2. QED
    BY <2>1, UnitOfLongFractions, SMT
<1>5. QED
  BY <1>3, <1>4, SMT

\* In every second two clocks are read in the wrong order: 5 ns as half a
\* second, and 10 ns, which come later, as a tenth of one (telem.go:52).
THEOREM ReaderMissesOrder ==
  ASSUME NEW s \in Nat, s >= Second
  PROVE  \E t, u \in Clocks :
           /\ t.sec = s /\ u.sec = s /\ UnixNano(t) < UnixNano(u)
           /\ AsDecimal(UnixTimeString(t)).nano > AsDecimal(UnixTimeString(u)).nano
<1> DEFINE t == [sec |-> s, nano |-> 5]
           u == [sec |-> s, nano |-> 10]
<1>1. t \in Clocks /\ u \in Clocks
  <2>1. 5 \in 0 .. Second - 1 /\ 10 \in 0 .. Second - 1
    BY SecondIsLong, SMT
  <2>2. QED
    BY <2>1 DEF Clocks
<1>2. UnixNano(t) < UnixNano(u)
  BY SMT DEF UnixNano, Second
<1>3. UnixTimeString(t) = <<s, 5>> /\ UnixTimeString(u) = <<s, 10>>
  BY <1>1, StringHasClock
<1>4. /\ AsDecimal(UnixTimeString(t)).nano = 500000000
      /\ AsDecimal(UnixTimeString(u)).nano = 100000000
  BY <1>3, SMT DEF AsDecimal, Unit
<1>5. QED
  BY <1>1, <1>2, <1>4, SMT
=============================================================================
