----------------------------- MODULE Arithmetic -----------------------------
(***************************************************************************)
(* Division of 64-bit integers on a machine that divides 64 bits by 32     *)
(* (libk/src/arch/i386/arithmetic.c).  HalfBits is 32 in the code, where   *)
(* nlz shifts 5 times; a machine of fewer shifts is narrow enough to try   *)
(* every pair of operands.  Signed integers are TLA+ integers in the range *)
(* of the type; -(int64_t)q_abs wraps, as the instructions of the build do.*)
(***************************************************************************)
EXTENDS Integers

CONSTANT Shifts  \* the steps of nlz: 5 in the code

ASSUME ShiftsAssumption == Shifts \in Nat /\ Shifts >= 2

\* b^k, spelled out for the proofs.
Power(b, k) ==
  LET power[i \in 0..k] == IF i = 0 THEN 1 ELSE b * power[i - 1]
  IN power[k]

HalfBits == Power(2, Shifts)
Half == Power(2, HalfBits)
Whole == Half * Half

Unsigned == 0..(Whole - 1)
Signed(w, size) ==
  IF w % size < size \div 2 THEN w % size ELSE (w % size) - size

Trap == -1  \* the divide error: never a quotient, nor turned into one below

divl(m, e) == IF e = 0 \/ m \div e >= Half THEN Trap ELSE m \div e

(* The number of leading zero bits, with the shifts 16, 8, 4, 2, 1 of the  *)
(* code: the operand and the count after i of them.                        *)
nlz(x) ==
  LET after[i \in 0..Shifts] ==
        IF i = 0 THEN <<x, 0>>
        ELSE LET k == Power(2, Shifts - i)
                 y == after[i - 1][1]
             IN IF y < Power(2, HalfBits - k)
                  THEN <<y * Power(2, k), after[i - 1][2] + k>>
                  ELSE after[i - 1]
  IN after[Shifts][2]

(* The last correction of udiv64.  Bad... are the mistakes the properties  *)
(* are tried on.                                                           *)
BadCorrected(m, e, q) == q  \* no correction: q is one too large at times

Corrected(m, e, q) ==
  IF (m - (q - 1) * e) % Whole < e THEN (q - 1) % Whole ELSE q

udiv64(m, e) ==
  IF e = 0 THEN Trap
  ELSE IF e \div Half = 0
    THEN LET m1 == m \div Half
             m0 == m % Half
         IN (divl(Half * (m1 % e) + m0, e) + Half * (m1 \div e)) % Whole
  ELSE IF m < e THEN 0
  ELSE LET s == nlz(e \div Half)
       IN Corrected(m, e, divl(m \div 2, ((e * Power(2, s)) % Whole) \div Half)
                            \div Power(2, HalfBits - 1 - s))

\* Its type is uint32_t: only half of the remainder is returned.
umod64(m, e) == ((m - e * udiv64(m, e)) % Whole) % Half

Abs(x) == IF x >= 0 THEN x ELSE -x

sdiv64(m, e) ==
  LET q == udiv64(Abs(m), Abs(e))
  IN Signed(IF (m < 0) = (e < 0) THEN q ELSE -q, Whole)

smod64(m, e) == Signed(Signed(m - e * sdiv64(m, e), Whole), Half)

=============================================================================
