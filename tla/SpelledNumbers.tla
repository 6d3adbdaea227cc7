--------------------------- MODULE SpelledNumbers ---------------------------
(***************************************************************************)
(* The spelled numbers a compilation meets: one is read where the data     *)
(* schema has one and where a user types one.  A run looks at the numbers  *)
(* of its input.                                                           *)
(***************************************************************************)
EXTENDS Resources, JsonNumbers

ASSUME SpelledNumbersAssumption ==
  \A i \in Input : \A n \in i.numbers : IsSpelling(n)

(* The most digits a stored integer may have, up to a bound of the model.  *)
MostDigits == 3

(* Whether two spellings are one number, whether one is an integer, which  *)
(* length one bounds and which digits an integer is stored with is decided *)
(* without writing all digits out, and agrees with what the spellings      *)
(* mean; an integer is refused only for having too many digits or an       *)
(* exponent beyond a machine integer (number_normal_form, numbers_equal,   *)
(* number_is_integer, nonnegative_integer_as_usize,                        *)
(* canonical_integer_with_limit).                                          *)
NumbersMeanWhatTheySpell ==
  outcome = "admitting" =>
    \A m \in input.numbers :
      /\ \A n \in input.numbers : EqualAsMeant(m, n)
      /\ IntegerAsMeant(m) /\ BoundAsMeant(m)
      /\ \A maximum \in 0..MostDigits : StoredAsMeant(m, maximum)
=============================================================================
