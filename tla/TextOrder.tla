----------------------------- MODULE TextOrder -----------------------------
(***************************************************************************)
(* Every number of the database is stored in a VARCHAR column, and the two *)
(* cleaning statements compare `block_number <= ?` with the parameter      *)
(* bound as text.  SQLite then orders the decimal spellings character by   *)
(* character: "10" comes before "9".  This module gives that order on the  *)
(* numbers themselves, without spelling them out.                          *)
(***************************************************************************)
EXTENDS Integers

\* A u64 has at most twenty decimal digits.
MaxWidth == 20

\* How many digits n is written with (no leading zero; "0" has one).
Width(n) ==
  CHOOSE w \in 1..MaxWidth : n < 10^w /\ (w = 1 \/ 10^(w - 1) <= n)

\* a's text is not after b's.  Texts of one length compare as the numbers do;
\* otherwise the shorter one is padded on the right, and it is the smaller of
\* the two when it is a prefix of the longer.
TextLe(a, b) ==
  IF Width(a) = Width(b) THEN a <= b
  ELSE IF Width(a) < Width(b)
       THEN a * 10^(Width(b) - Width(a)) <= b
       ELSE a < b * 10^(Width(a) - Width(b))
============================================================================
