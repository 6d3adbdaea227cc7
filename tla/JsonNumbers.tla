----------------------------- MODULE JsonNumbers ----------------------------
(***************************************************************************)
(* JSON numbers as the engine reads them: never as machine numbers, always *)
(* as the digits that were written.  1, 1.0 and 10e-1 are one value, and   *)
(* whether two spellings are equal, or are integers, is decided without    *)
(* writing their digits out.                                               *)
(*                                                                         *)
(* A number is what a JSON text spells: sign, digits before and after the  *)
(* point, exponent.  A scalar is [kind |-> "null"] or [kind |-> "number",  *)
(* ..], [kind |-> "string", text |-> ..] and so on; a structured value has *)
(* the kind "array" or "object" and is compared as it stands.              *)
(***************************************************************************)
EXTENDS Integers, Sequences, FiniteSetsExt

CONSTANTS
  MaxExponent,    \* the largest exponent a machine integer holds (i64)
  MaxIndex,       \* the largest length a machine word holds (usize)
  MaxIndexDigits  \* the number of its digits

(* Powers of ten, and the natural number a sequence of digits spells.      *)
TenTo(n) ==
  LET power[k \in Nat] == IF k = 0 THEN 1 ELSE 10 * power[k - 1] IN power[n]

Leading(d) ==
  LET spelled[k \in 0..Len(d)] == IF k = 0 THEN 0 ELSE 10 * spelled[k - 1] + d[k]
  IN spelled

Natural(d) == Leading(d)[Len(d)]

ASSUME JsonNumbersAssumption ==
  /\ MaxExponent \in Nat
  /\ MaxIndex \in Nat
  /\ MaxIndexDigits \in Nat \ {0}
  /\ TenTo(MaxIndexDigits - 1) <= MaxIndex /\ MaxIndex < TenTo(MaxIndexDigits)
-----------------------------------------------------------------------------
Digits(n) == n.whole \o n.fraction

NonZero(d) == {i \in DOMAIN d : d[i] # 0}

Zeros(k) == [i \in 1..k |-> 0]

Zero == [negative |-> FALSE, digits |-> <<0>>, scale |-> 0]

(* Mutant: trailing zeros are kept.                                        *)
NormalFormUntrimmed(n) ==
  LET d == Digits(n)
      significant == NonZero(d)
  IN IF significant = {} THEN Zero
     ELSE [ negative |-> n.negative,
            digits   |-> SubSeq(d, Min(significant), Len(d)),
            scale    |-> n.exponent - Len(n.fraction) ]

(* The significant digits, without zeros at either end, and the power of   *)
(* ten they are multiplied by.  Every zero has the same normal form.       *)
NormalForm(n) ==
  LET d == Digits(n)
      significant == NonZero(d)
  IN IF significant = {} THEN Zero
     ELSE [ negative |-> n.negative,
            digits   |-> SubSeq(d, Min(significant), Max(significant)),
            scale    |-> n.exponent - Len(n.fraction)
                           + (Len(d) - Max(significant)) ]

NumbersEqual(m, n) == NormalForm(m) = NormalForm(n)

NumberIsInteger(n) == NormalForm(n).scale >= 0

(* An integer as the form stores it: all its digits, at most maximum of    *)
(* them.  Which of the two refusals an exponent beyond a machine integer   *)
(* gets depends on its sign.                                               *)
Stored(negative, digits) == [refusal |-> "none", negative |-> negative, digits |-> digits]
Refused(refusal)         == [refusal |-> refusal, negative |-> FALSE, digits |-> <<>>]

CanonicalInteger(n, maximum) ==
  LET d      == Digits(n)
      digits == SubSeq(d, Min(NonZero(d)), Len(d))
      shift  == n.exponent - Len(n.fraction)
      kept   == Len(digits) + shift
  IN IF NonZero(d) = {}
     THEN IF maximum = 0 THEN Refused("limit") ELSE Stored(FALSE, <<0>>)
     ELSE IF n.exponent < -MaxExponent THEN Refused("invalid")
     ELSE IF n.exponent > MaxExponent THEN Refused("limit")
     ELSE IF shift < 0 /\ (kept <= 0 \/ \E i \in kept + 1..Len(digits) : digits[i] # 0)
     THEN Refused("invalid")
     ELSE IF kept > maximum THEN Refused("limit")
     ELSE Stored(n.negative, IF shift < 0 THEN SubSeq(digits, 1, kept)
                                          ELSE digits \o Zeros(shift))

NoBound == -1

(* Mutant: the scale is left out.                                          *)
BoundByDigits(n) ==
  LET normal == NormalForm(n)
  IN IF normal.negative \/ normal.scale < 0 THEN NoBound
     ELSE Min({Natural(normal.digits), MaxIndex})

(* minItems and maxItems: an integer, however it is spelled, cut at the    *)
(* largest length; anything else bounds nothing.                           *)
Bound(n) ==
  LET normal == NormalForm(n)
      digits == normal.digits \o Zeros(normal.scale)
  IN IF normal.negative \/ normal.scale < 0 THEN NoBound
     ELSE IF Len(normal.digits) + normal.scale > MaxIndexDigits THEN MaxIndex
          ELSE Min({Natural(digits), MaxIndex})
-----------------------------------------------------------------------------
(* What a spelling means: an integer over a power of ten.                  *)
IsSpelling(n) ==
  /\ n.negative \in BOOLEAN /\ n.exponent \in Int
  /\ n.whole \in Seq(0..9) /\ n.fraction \in Seq(0..9)

Signed(negative, n) == IF negative THEN -n ELSE n

Numerator(n, places) ==
  Signed(n.negative, Natural(Digits(n)) * TenTo(n.exponent - Len(n.fraction) + places))

Places(n) == IF n.exponent < Len(n.fraction) THEN Len(n.fraction) - n.exponent ELSE 0

LessThan(m, n) ==
  LET places == Max({Places(m), Places(n)})
  IN Numerator(m, places) < Numerator(n, places)

IsWhole(n) == Numerator(n, Places(n)) % TenTo(Places(n)) = 0

WholeOf(n) == Numerator(n, Places(n)) \div TenTo(Places(n))

(* Two spellings are equal, one is an integer, one bounds a length, and    *)
(* one is stored with some digits, as they mean it; what is refused has    *)
(* too many digits, is no integer, or has an exponent beyond a machine     *)
(* integer.                                                                *)
EqualAsMeant(m, n) == NumbersEqual(m, n) <=> ~LessThan(m, n) /\ ~LessThan(n, m)

IntegerAsMeant(n) == NumberIsInteger(n) <=> IsWhole(n)

BoundAsMeant(n) ==
  Bound(n) = IF IsWhole(n) /\ WholeOf(n) >= 0 THEN Min({WholeOf(n), MaxIndex}) ELSE NoBound

StoredAsMeant(n, maximum) ==
  LET canonical == CanonicalInteger(n, maximum)
      readable  == NonZero(Digits(n)) = {} \/ n.exponent \in -MaxExponent..MaxExponent
      fits      == /\ maximum > 0
                   /\ WholeOf(n) < TenTo(maximum) /\ -WholeOf(n) < TenTo(maximum)
      invalid   == IF readable THEN ~IsWhole(n) ELSE n.exponent < 0
  IN IF readable /\ IsWhole(n) /\ fits
     THEN /\ canonical.refusal = "none"
          /\ Signed(canonical.negative, Natural(canonical.digits)) = WholeOf(n)
          /\ Len(canonical.digits) = 1 \/ canonical.digits[1] # 0
     ELSE canonical.refusal = IF invalid THEN "invalid" ELSE "limit"
-----------------------------------------------------------------------------
JsonEqual(v, w) ==
  \/ v = w
  \/ v.kind = "number" /\ w.kind = "number" /\ NumbersEqual(v.number, w.number)

(* A value of one of the kinds a schema's "type" names.                    *)
HasType(v, kind) ==
  IF kind = "integer" THEN v.kind = "number" /\ NumberIsInteger(v.number)
                      ELSE v.kind = kind
=============================================================================
