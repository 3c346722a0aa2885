---------------------------- MODULE MCCityNames -----------------------------
(* Instances of CityNames for TLC. *)
EXTENDS CityNames

E5 == <<14, 5>>
A8 == <<10, 8>>
BF == <<11, 15>>

\* The ASCII characters that look like A8.
LetterA == <<4, 1>>
Digit8 == <<3, 8>>

\* Short and long names, one with a digit f, one with a blank, one that
\* begins like another, one whose ASCII characters look like a byte, and at
\* last one that overruns str and one that overruns buf too.
SomeNames ==
  {<<E5>>, <<A8>>, <<E5, A8>>, <<A8, E5>>, <<E5, BF>>, <<E5, Blank>>, <<E5, LetterA, Digit8>>,
   <<E5, A8, E5>>, <<A8, E5, A8, E5>>}
=============================================================================
