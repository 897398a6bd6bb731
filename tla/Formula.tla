------------------------------- MODULE Formula -------------------------------
(***************************************************************************)
(* The expression language of pay elements (payroll-core/src/formula.ts):  *)
(* tokens, recursive-descent parser, evaluator.  Values are rationals; an  *)
(* undefined one stands for a FormulaError (unknown name, wrong arity,     *)
(* division by zero, a result that is not finite).                         *)
(***************************************************************************)
EXTENDS Lexemes, Rationals, Sequences, SequencesExt

-----------------------------------------------------------------------------
(* Tokens.                                                                 *)

Operators == {"+", "-", "*", "/", "(", ")", ","}

\* The tokens of a source and the end marker; <<>> when a lexeme is no token.
tokenize(source) ==
  IF \E i \in DOMAIN source : source[i] = Illegal THEN <<>> ELSE Append(source, EofToken)

-----------------------------------------------------------------------------
(* Parser.  A result is the node read and the position after it, 0 when    *)
(* the input is refused.                                                   *)

Parsed(node, next) == [node |-> node, next |-> next]
Refused == Parsed(<<"none">>, 0)
Failed(result) == result.next = 0

IsOp(tokens, i, ops) == tokens[i][1] = "op" /\ tokens[i][2] \in ops

\* eatOp: the result, moved past the expected operator.
Eat(tokens, result, o) ==
  IF ~Failed(result) /\ IsOp(tokens, result.next, {o})
  THEN Parsed(result.node, result.next + 1) ELSE Refused

RECURSIVE Additive(_, _), AdditiveTail(_, _), Multiplicative(_, _), MultiplicativeTail(_, _),
          Unary(_, _), Primary(_, _), Arguments(_, _, _)

Binary(tokens, left, right) ==
  IF Failed(right) THEN Refused
  ELSE Parsed(<<"binary", tokens[left.next][2], left.node, right.node>>, right.next)

Additive(tokens, i) == AdditiveTail(tokens, Multiplicative(tokens, i))

\* Faulty variant: sums associate to the right.
RightAssociative(tokens, left) ==
  IF Failed(left) \/ ~IsOp(tokens, left.next, {"+", "-"}) THEN left
  ELSE Binary(tokens, left, Additive(tokens, left.next + 1))

AdditiveTail(tokens, left) ==
  IF Failed(left) \/ ~IsOp(tokens, left.next, {"+", "-"}) THEN left
  ELSE AdditiveTail(tokens, Binary(tokens, left, Multiplicative(tokens, left.next + 1)))

Multiplicative(tokens, i) == MultiplicativeTail(tokens, Unary(tokens, i))

MultiplicativeTail(tokens, left) ==
  IF Failed(left) \/ ~IsOp(tokens, left.next, {"*", "/"}) THEN left
  ELSE MultiplicativeTail(tokens, Binary(tokens, left, Unary(tokens, left.next + 1)))

Unary(tokens, i) ==
  IF ~IsOp(tokens, i, {"+", "-"}) THEN Primary(tokens, i)
  ELSE LET operand == Unary(tokens, i + 1)
       IN IF Failed(operand) THEN Refused
          ELSE Parsed(<<"unary", tokens[i][2], operand.node>>, operand.next)

Primary(tokens, i) ==
  CASE tokens[i][1] = "num" -> Parsed(<<"num", tokens[i][2]>>, i + 1)
    [] tokens[i][1] = "ident" ->
         IF ~IsOp(tokens, i + 1, {"("}) THEN Parsed(<<"var", tokens[i][2]>>, i + 1)
         ELSE IF IsOp(tokens, i + 2, {")"}) THEN Parsed(<<"call", tokens[i][2], <<>> >>, i + 3)
         ELSE LET args == Arguments(tokens, i + 2, <<>>)
              IN IF Failed(args) THEN Refused
                 ELSE Parsed(<<"call", tokens[i][2], args.node>>, args.next)
    [] IsOp(tokens, i, {"("}) -> Eat(tokens, Additive(tokens, i + 1), ")")
    [] OTHER -> Refused

\* The arguments of a call up to its closing parenthesis.
Arguments(tokens, i, read) ==
  LET arg == Additive(tokens, i)
  IN IF Failed(arg) THEN Refused
     ELSE IF IsOp(tokens, arg.next, {","})
     THEN Arguments(tokens, arg.next + 1, Append(read, arg.node))
     ELSE Eat(tokens, Parsed(Append(read, arg.node), arg.next), ")")

\* compile: the whole input is one expression.
compile(source) ==
  LET tokens == tokenize(source)
      result == Additive(tokens, 1)
  IN IF tokens = <<>> THEN NoFormula
     ELSE IF Failed(result) \/ tokens[result.next] # EofToken THEN NoFormula ELSE result.node

-----------------------------------------------------------------------------
(* Evaluator.                                                              *)

Lower(x, y) == IF Below(y, x) THEN y ELSE x
Higher(x, y) == IF Below(x, y) THEN y ELSE x

\* A quotient keeps its denominator positive.
Quotient(x, y) ==
  IF y[1] = 0 THEN Undefined
  ELSE IF y[1] < 0 THEN <<-(x[1] * y[2]), -(x[2] * y[1])>> ELSE <<x[1] * y[2], x[2] * y[1]>>

Arithmetic(o, x, y) ==
  CASE o = "+" -> <<x[1] * y[2] + y[1] * x[2], x[2] * y[2]>>
    [] o = "-" -> <<x[1] * y[2] - y[1] * x[2], x[2] * y[2]>>
    [] o = "*" -> <<x[1] * y[1], x[2] * y[2]>>
    [] o = "/" -> Quotient(x, y)

\* The whitelisted functions: the numbers of arguments they take, and their values.
Arities(name) ==
  CASE name \in {"min", "max"} -> Nat \ {0}
    [] name \in {"abs", "floor", "ceil", "round"} -> {1}
    [] name = "clamp" -> {3}
    [] OTHER -> {}

Apply(name, args) ==
  CASE name = "min" -> FoldLeft(Lower, args[1], args)
    [] name = "max" -> FoldLeft(Higher, args[1], args)
    [] name = "abs" -> Magnitude(args[1])
    [] name = "floor" -> Whole(FloorOf(args[1]))
    [] name = "ceil" -> Whole(CeilOf(args[1]))
    [] name = "round" -> Whole(HalfUp(args[1]))
    [] name = "clamp" -> Lower(Higher(args[1], args[2]), args[3])

RECURSIVE evalNode(_, _)
evalNode(node, context) ==
  CASE node[1] = "num" -> Whole(node[2])
    [] node[1] = "var" -> IF node[2] \in DOMAIN context THEN context[node[2]] ELSE Undefined
    [] node[1] = "unary" ->
         LET x == evalNode(node[3], context) IN IF node[2] = "-" THEN Negate(x) ELSE x
    [] node[1] = "binary" ->
         LET x == evalNode(node[3], context)
             y == evalNode(node[4], context)
         IN IF Defined(x) /\ Defined(y) THEN Arithmetic(node[2], x, y) ELSE Undefined
    [] node[1] = "call" ->
         LET args == [i \in DOMAIN node[3] |-> evalNode(node[3][i], context)]
         IN IF Len(args) \in Arities(node[2]) /\ \A i \in DOMAIN args : Defined(args[i])
            THEN Apply(node[2], args) ELSE Undefined
    [] OTHER -> Undefined

evaluate(formula, context) == evalNode(formula, context)

-----------------------------------------------------------------------------
(* Reference: how a tree is written, with the fewest parentheses.          *)

Level(node) ==
  CASE node[1] = "binary" -> IF node[2] \in {"+", "-"} THEN 1 ELSE 2
    [] node[1] = "unary" -> 3
    [] OTHER -> 4

RECURSIVE Written(_), Separated(_)
Within(node, level) ==
  IF Level(node) >= level THEN Written(node) ELSE <<Op("(")>> \o Written(node) \o <<Op(")")>>

Separated(nodes) ==
  IF nodes = <<>> THEN <<>>
  ELSE IF Len(nodes) = 1 THEN Written(nodes[1])
  ELSE Written(nodes[1]) \o <<Op(",")>> \o Separated(Tail(nodes))

\* Operators of one level associate to the left; a sign binds tighter than a product.
Written(node) ==
  CASE node[1] = "num" -> <<Num(node[2])>>
    [] node[1] = "var" -> <<Ident(node[2])>>
    [] node[1] = "unary" -> <<Op(node[2])>> \o Within(node[3], 3)
    [] node[1] = "binary" ->
         Within(node[3], Level(node)) \o <<Op(node[2])>> \o Within(node[4], Level(node) + 1)
    [] node[1] = "call" ->
         <<Ident(node[2]), Op("(")>> \o Separated(node[3]) \o <<Op(")")>>
=============================================================================
