------------------------------- MODULE Values -------------------------------
(***************************************************************************)
(* Values of queries and what operators do with them (eval.rs).            *)
(*                                                                         *)
(* A value is a pair of its type and its contents.  Integers have a width: *)
(* they lie in -Half .. Half - 1.  Floats are whole numbers here, and      *)
(* divided only where the quotient is one; what a comparison adds for      *)
(* fractions (cmp_f64 takes values closer than EPSILON as equal) is left   *)
(* out.  Strings are ordered by Rank.                                      *)
(***************************************************************************)
EXTENDS Integers, Sequences, FiniteSets

CONSTANTS Half,             \* 2^63
          OverflowChecks,   \* the build has overflow checks (a debug build)
          Rank              \* strings, in their order

ASSUME WidthAssumption == Half \in Nat \ {0} /\ OverflowChecks \in BOOLEAN

Null == <<"Null">>
Bool(b) == <<"Bool", b>>
IntV(n) == <<"Int", n>>
List(s) == <<"List", s>>
Error == <<"Error">>        \* an ExecutionError
Panic == <<"Panic">>        \* the process panics

Type(v) == v[1]
Failed(v) == v \in {Error, Panic}
Number(v) == Type(v) \in {"Int", "Float"}
Both(type, a, b) == Type(a) = type /\ Type(b) = type

\* wrapping_add and its like; truncating division and its remainder.
Wrap(n) == ((n + Half) % (2 * Half)) - Half
Abs(n) == IF n < 0 THEN -n ELSE n
Quotient(a, b) == LET q == Abs(a) \div Abs(b) IN IF (a < 0) = (b < 0) THEN q ELSE -q
Remainder(a, b) == a - b * Quotient(a, b)

Result(sym, a, b) == CASE sym = "+" -> a + b [] sym = "-" -> a - b [] sym = "*" -> a * b
                       [] sym = "/" -> Quotient(a, b) [] sym = "%" -> Remainder(a, b)

\* eval_arithmetic, eval_float_arithmetic.  The least integer has no opposite: dividing it by -1
\* panics in every build.
Arithmetic(sym, a, b) ==
    CASE Number(a) /\ Number(b) /\ sym \in {"/", "%"} /\ b[2] = 0 -> Error
      [] Both("Int", a, b) /\ sym \in {"/", "%"} /\ a[2] = -Half /\ b[2] = -1 -> Panic
      [] Both("Int", a, b) -> IntV(Wrap(Result(sym, a[2], b[2])))
      [] Number(a) /\ Number(b) -> <<"Float", Result(sym, a[2], b[2])>>
      [] Null \in {a, b} -> Null
      [] OTHER -> Error

\* compare_values: how ORDER BY orders, -1, 0 or 1.  What it cannot compare is equal.
Sign(a, b) == IF a < b THEN -1 ELSE IF a = b THEN 0 ELSE 1
BoolRank(b) == IF b THEN 1 ELSE 0
CompareValues(a, b) ==
    CASE a = Null \/ b = Null -> Sign(BoolRank(a # Null), BoolRank(b # Null))
      [] Number(a) /\ Number(b) -> Sign(a[2], b[2])
      [] Both("String", a, b) -> Sign(Rank[a[2]], Rank[b[2]])
      [] Both("Bool", a, b) -> Sign(BoolRank(a[2]), BoolRank(b[2]))
      [] Both("DateTime", a, b) -> Sign(a[2], b[2])
      [] OTHER -> 0

\* eval_cmp: what a comparison in a query says.  Null compares as false, <> included.
Holds(sym, sign) == CASE sym = "=" -> sign = 0 [] sym = "<>" -> sign # 0 [] sym = "<" -> sign < 0
                      [] sym = "<=" -> sign <= 0 [] sym = ">" -> sign > 0 [] sym = ">=" -> sign >= 0
Comparison(sym, a, b) ==
    CASE Null \in {a, b} -> Bool(FALSE)
      [] (Number(a) /\ Number(b)) \/ Both("String", a, b) \/ Both("DateTime", a, b) ->
           Bool(Holds(sym, CompareValues(a, b)))
      [] Type(a) = Type(b) /\ Type(a) \in {"Bool", "Node", "Edge"} /\ sym \in {"=", "<>"} ->
           Bool((a = b) = (sym = "="))
      [] OTHER -> Error

\* eval_boolean_op: AND and OR of three values.
Absorbing(sym) == Bool(sym = "OR")
Logic(sym, a, b) ==
    CASE {Type(a), Type(b)} \ {"Bool", "Null"} # {} -> Error
      [] Absorbing(sym) \in {a, b} -> Absorbing(sym)
      [] Null \in {a, b} -> Null
      [] OTHER -> Bool(sym = "AND")

\* eval_binary_op, eval_unary_op.
Binary(sym, a, b) == CASE sym \in {"AND", "OR"} -> Logic(sym, a, b)
                       [] sym \in {"=", "<>", "<", "<=", ">", ">="} -> Comparison(sym, a, b)
                       [] OTHER -> Arithmetic(sym, a, b)
Unary(sym, a) ==
    CASE a = Null -> Null
      [] sym = "NOT" /\ Type(a) = "Bool" -> Bool(~ a[2])
      [] sym = "-" /\ Type(a) = "Float" -> <<"Float", -a[2]>>
      [] sym = "-" /\ Type(a) = "Int" -> IF a[2] = -Half /\ OverflowChecks THEN Panic ELSE IntV(Wrap(-a[2]))
      [] OTHER -> Error
=============================================================================
