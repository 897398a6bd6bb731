------------------------------ MODULE Lexemes ------------------------------
(***************************************************************************)
(* How the source text of a formula is written down in this model: as the  *)
(* sequence of its lexemes.                                                *)
(***************************************************************************)

Num(n) == <<"num", n>>
Ident(name) == <<"ident", name>>
Op(o) == <<"op", o>>
EofToken == <<"eof", "">>
Illegal == <<"illegal", "">>          \* a character or a number that no token takes

\* What compiling answers to a source that is no formula.
NoFormula == <<"none">>
=============================================================================
