----------------------------- MODULE QueryText -----------------------------
(***************************************************************************)
(* How a query is written: from the loosest operator to the tightest, with *)
(* no more parentheses than Cypher asks for.  A comparison or IS NULL that *)
(* is an operand of another stands in parentheses on either side: Cypher   *)
(* reads a < b = c as a < b AND b = c, expression.rs:13 calls comparisons  *)
(* non-associative, and the parser reads (a < b) = c.                      *)
(***************************************************************************)
EXTENDS Parser, SequencesExt

Compared == 4       \* the level of comparisons
Level(e) == CASE e.op = "bin" -> (CASE e.sym = "OR" -> 1 [] e.sym = "AND" -> 2
                                    [] e.sym \in {"=", "<>", "<", "<=", ">", ">="} -> Compared
                                    [] e.sym \in {"+", "-"} -> 5 [] e.sym \in {"*", "/", "%"} -> 6)
              [] e.op = "un" -> IF e.sym = "NOT" THEN 3 ELSE 7
              [] e.op = "isnull" -> Compared
              [] OTHER -> 8
\* Operators of one level associate to the left; those of comparison do not.
LeftLevel(e) == IF Level(e) = Compared THEN Compared + 1 ELSE Level(e)

Join(parts, sep) == FoldLeft(LAMBDA text, part : IF text = <<>> THEN part ELSE text \o sep \o part, <<>>, parts)
Each(seq, Show(_)) == Join([k \in DOMAIN seq |-> Show(seq[k])], <<",">>)
NameText(name) == <<IF name \in Ident THEN name ELSE CHOOSE t \in Quoted : QuotedOf[t] = name>>
Option(opt, before) == IF opt = <<>> THEN <<>> ELSE before \o NameText(opt[1])
OptionOf(opt, Show(_)) == IF opt = <<>> THEN <<>> ELSE Show(opt[1])
Flag(b, word) == IF b THEN <<word>> ELSE <<>>

RECURSIVE ExprText(_, _)
ExprText(e, level) ==
    LET Plain(x) == ExprText(x, 1)
        text == CASE e.op = "lit" -> <<CHOOSE t \in DOMAIN Constants : Constants[t] = e.value>>
                  [] e.op = "var" -> NameText(e.name)
                  [] e.op = "param" -> <<e.name>>
                  [] e.op = "prop" -> ExprText(e.of, 8) \o <<".">> \o NameText(e.key)
                  [] e.op = "bin" -> ExprText(e.left, LeftLevel(e)) \o <<e.sym>> \o ExprText(e.right, Level(e) + 1)
                  [] e.op = "un" -> <<e.sym>> \o ExprText(e.arg, Level(e))
                  [] e.op = "isnull" -> ExprText(e.arg, Compared + 1) \o <<"IS">> \o Flag(e.negated, "NOT") \o <<"NULL">>
                  [] e.op = "count*" -> <<"COUNT", "(", "*", ")">>
                  [] e.op = "call" -> <<IF e.name = "count" THEN "COUNT" ELSE e.name, "(">>
                                      \o Flag(e.distinct, "DISTINCT") \o Each(e.args, Plain) \o <<")">>
                  [] e.op = "list" -> <<"[">> \o Each(e.items, Plain) \o <<"]">>
    IN  IF Level(e) < level THEN <<"(">> \o text \o <<")">> ELSE text
Text(e) == ExprText(e, 1)

MapText(m) == <<"{">> \o Each(m.entries, LAMBDA x : NameText(x.key) \o <<":">> \o Text(x.value)) \o <<"}">>
LabelText(labels) == FoldLeft(LAMBDA text, l : text \o <<":">> \o NameText(l), <<>>, labels)
NodeText(n) == <<"(">> \o Option(n.variable, <<>>) \o LabelText(n.labels) \o OptionOf(n.properties, MapText)
               \o <<")">>
NumberText(k) == <<CHOOSE t \in Numbers : LiteralOf[t][2] = k>>
HopText(h) == <<"*">> \o NumberText(h.min) \o
              IF h.max = <<h.min>> THEN <<>> ELSE <<"..">> \o OptionOf(h.max, NumberText)
RelText(r) ==
    (IF r.direction = "in" THEN <<"<-", "[">> ELSE <<"-", "[">>)
    \o Option(r.variable, <<>>) \o (IF r.types = <<>> THEN <<>> ELSE <<":">> \o Join([k \in DOMAIN r.types |-> NameText(r.types[k])], <<"|">>))
    \o OptionOf(r.hops, HopText) \o OptionOf(r.properties, MapText)
    \o (IF r.direction = "out" THEN <<"]", "->">> ELSE <<"]", "-">>)
ChainText(c) == FoldLeft(LAMBDA text, s : text \o RelText(s.rel) \o NodeText(s.node), NodeText(c.first), c.steps)
PatternText(chains) == Each(chains, ChainText)

AtText(opt) == OptionOf(opt, LAMBDA e : <<"AT", "TIME">> \o Text(e))
TemporalText(t) == IF t.op = "as of" THEN AtText(<<t.time>>)
                   ELSE <<"BETWEEN", "TIME">> \o ExprText(t.start, 3) \o <<"AND">> \o ExprText(t.end, 3)
ItemText(x) == Text(x.expr) \o Option(x.alias, <<"AS">>)
SetText(x) == FoldLeft(LAMBDA text, key : text \o <<".">> \o NameText(key), NameText(x.name), x.path) \o <<"=">>
              \o Text(x.value)
PartText(p) == NameText(p.name) \o AtText(p.time)
MatchText(c) == Flag(c.optional, "OPTIONAL") \o <<"MATCH">> \o PatternText(c.pattern)
                \o OptionOf(c.temporal, TemporalText) \o OptionOf(c.where, LAMBDA e : <<"WHERE">> \o Text(e))

ClauseText(c) ==
    CASE c.op = "MATCH" -> MatchText(c)
      [] c.op = "RETURN" ->
           <<"RETURN">> \o Flag(c.distinct, "DISTINCT") \o Each(c.items, ItemText)
           \o (IF c.order = <<>> THEN <<>>
               ELSE <<"ORDER", "BY">> \o Each(c.order, LAMBDA o : Text(o.expr) \o Flag(~ o.ascending, "DESC")))
           \o OptionOf(c.skip, LAMBDA e : <<"SKIP">> \o Text(e))
           \o OptionOf(c.limit, LAMBDA e : <<"LIMIT">> \o Text(e))
      [] c.op = "WITH" -> <<"WITH">> \o Flag(c.distinct, "DISTINCT") \o Each(c.items, ItemText)
                          \o OptionOf(c.where, LAMBDA e : <<"WHERE">> \o Text(e))
      [] c.op = "UNWIND" -> <<"UNWIND">> \o Text(c.expr) \o <<"AS">> \o NameText(c.name)
      [] c.op = "CREATE" -> <<"CREATE">> \o PatternText(c.pattern)
      [] c.op = "SET" -> <<"SET">> \o Each(c.items, SetText)
      [] c.op = "REMOVE" ->
           <<"REMOVE">> \o Each(c.items, LAMBDA x : NameText(x.name) \o <<IF x.what.op = "label" THEN ":" ELSE ".">>
                                                \o NameText(x.what.of))
      [] c.op = "DELETE" -> Flag(c.detach, "DETACH") \o <<"DELETE">> \o Each(c.exprs, Text)
      [] c.op = "MERGE" ->
           <<"MERGE">> \o PatternText(c.pattern)
           \o FoldLeft(LAMBDA text, a : text \o <<"ON", IF a.op = "on match" THEN "MATCH" ELSE "CREATE", "SET">>
                                        \o Each(a.items, SetText), <<>>, c.on)
      [] c.op = "CREATE INDEX" ->
           <<"CREATE">> \o Flag(c.target.op = "type", "EDGE") \o <<"INDEX">> \o Option(c.name, <<>>)
           \o <<"ON", ":">> \o NameText(c.target.of) \o <<"(">> \o NameText(c.target.key) \o <<")">>
      [] c.op = "DROP INDEX" -> <<"DROP", "INDEX">> \o NameText(c.name)
      [] c.op = "CREATE SNAPSHOT" ->
           <<"CREATE", "SNAPSHOT">> \o NodeText(c) \o AtText(c.anchor) \o <<"FROM">> \o MatchText(c.from)
           \o <<"RETURN">> \o Each(c.items, ItemText)
      [] c.op = "CREATE HYPEREDGE" ->
           <<"CREATE", "HYPEREDGE">> \o NodeText(c @@ [properties |-> <<>>])
           \o <<"FROM", "(">> \o Each(c.sources.of, PartText)
           \o <<")", "TO", "(">> \o Each(c.targets.of, PartText) \o <<")">>
      [] c.op = "MATCH HYPEREDGE" -> <<"MATCH", "HYPEREDGE">> \o NodeText(c @@ [properties |-> <<>>])

QueryText(clauses) == FoldLeft(LAMBDA text, c : text \o ClauseText(c), <<>>, clauses)
=============================================================================
