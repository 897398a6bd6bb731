------------------------------ MODULE Kernels ------------------------------
(***************************************************************************)
(* All the pure kernels: those of Figures, and a formula to compile.       *)
(***************************************************************************)
EXTENDS Figures, Formula

CONSTANT Formulas      \* syntax trees to write down and compile

KernelInit ==
  \/ FiguresInit
  \/ kernel = "formula" /\ question \in Formulas /\ result = <<>>

CompileFormula ==
  /\ kernel = "formula"
  /\ kernel' = "formula.done"
  /\ result' = compile(Written(question))
  /\ UNCHANGED question

KernelNext == CompileFormula \/ FiguresNext

KernelSpec == KernelInit /\ [][KernelNext]_kernelVars

-----------------------------------------------------------------------------
(* Properties.                                                             *)

\* Precedence and associativity: a formula written with no more parentheses than its
\* tree needs is read back as that tree, signs, calls and nested arguments included.
FormulaRoundTrip == kernel = "formula.done" => result = question
=============================================================================
