------------------------------- MODULE Parser -------------------------------
(***************************************************************************)
(* From text to syntax tree (cypherlite-query lexer/ and parser/).         *)
(*                                                                         *)
(* A token is a string: a keyword, a symbol, a name, a literal.            *)
(* The recursive descent of clause.rs and pattern.rs is a grammar: every   *)
(* function is a rule, and Run reads a rule as the functions do, by one    *)
(* token of lookahead and without going back.  A rule of kind "node"       *)
(* builds the record of its fields, tagged op; what is optional is a       *)
(* sequence of at most one element.  Positions in error messages are left  *)
(* out: a failure is Fail.                                                 *)
(***************************************************************************)
EXTENDS Syntax, TLC

CONSTANTS Ident,        \* names that are no keywords
          QuotedOf,     \* names in backticks, and the names they stand for
          LiteralOf,    \* literal tokens, and the values they stand for
          Param,        \* parameters
          HopRange      \* hop counts are taken modulo this (2^32)

ASSUME HopAssumption == HopRange \in Nat \ {0}

\* Keywords by their lower-case spelling; capitals and small letters are one to the lexer.
KeywordOf ==
    [match |-> "MATCH", return |-> "RETURN", create |-> "CREATE", as |-> "AS", distinct |-> "DISTINCT",
     true |-> "TRUE", false |-> "FALSE", null |-> "NULL", and |-> "AND", or |-> "OR", not |-> "NOT",
     is |-> "IS", count |-> "COUNT", where |-> "WHERE", set |-> "SET", remove |-> "REMOVE",
     delete |-> "DELETE", detach |-> "DETACH", optional |-> "OPTIONAL", merge |-> "MERGE", with |-> "WITH",
     order |-> "ORDER", by |-> "BY", limit |-> "LIMIT", skip |-> "SKIP", asc |-> "ASC", desc |-> "DESC",
     on |-> "ON", unwind |-> "UNWIND", index |-> "INDEX", drop |-> "DROP", edge |-> "EDGE",
     snapshot |-> "SNAPSHOT", from |-> "FROM", hyperedge |-> "HYPEREDGE", at |-> "AT", time |-> "TIME",
     between |-> "BETWEEN", history |-> "HISTORY"]
Keywords == {KeywordOf[word] : word \in DOMAIN KeywordOf}
Quoted == DOMAIN QuotedOf
ASSUME NamesAssumption == Ident \cap DOMAIN KeywordOf = {} /\ Ident \cap Quoted = {}

Constants == ("TRUE" :> Bool(TRUE)) @@ ("FALSE" :> Bool(FALSE)) @@ ("NULL" :> Null) @@ LiteralOf

-----------------------------------------------------------------------------
(* The lexer: words in any case, and the longest symbol that fits.         *)

Symbols == {<<"<", ">">>, <<"<", "=">>, <<">", "=">>, <<"-", ">">>, <<"<", "-">>, <<"-", "-">>,
            <<".", ".">>}
Spelling == [s \in {"<>", "<=", ">=", "->", "<-", "--", ".."} |->
               CASE s = "<>" -> <<"<", ">">> [] s = "<=" -> <<"<", "=">> [] s = ">=" -> <<">", "=">>
                 [] s = "->" -> <<"-", ">">> [] s = "<-" -> <<"<", "-">> [] s = "--" -> <<"-", "-">>
                 [] s = ".." -> <<".", ".">>]

\* A word is a name if it is no keyword; "CONTAINS" and "TO" are names.
Word(key) == IF key \in DOMAIN KeywordOf THEN KeywordOf[key] ELSE key

\* What is typed for a token: one key, or two.
Keys(token) == IF token \in DOMAIN Spelling THEN Spelling[token] ELSE <<token>>

RECURSIVE Typed(_), Lex(_)
Typed(tokens) == IF tokens = <<>> THEN <<>> ELSE Keys(Head(tokens)) \o Typed(Tail(tokens))

\* No spaces but those between words, which are keys of their own here.
Lex(keys) ==
    IF keys = <<>> THEN <<>>
    ELSE IF Len(keys) > 1 /\ <<keys[1], keys[2]>> \in Symbols
         THEN <<CHOOSE s \in DOMAIN Spelling : Spelling[s] = <<keys[1], keys[2]>>>>
              \o Lex(SubSeq(keys, 3, Len(keys)))
         ELSE <<Word(Head(keys))>> \o Lex(Tail(keys))

-----------------------------------------------------------------------------
(* Rules, and how they are read.                                           *)

Peek(tokens, at) == IF at <= Len(tokens) THEN tokens[at] ELSE "end"
Fail == [at |-> 0, val |-> <<>>]
Ok(at, val) == [at |-> at, val |-> val]
Then(result, K(_)) == IF result.at = 0 THEN Fail ELSE K(result)

Tok(t) == <<"tok", t>>                          \* expect
Name == <<"ident">>                             \* expect_ident
ExprBp(minBp) == <<"expr", minBp>>
Expr == ExprBp(0)                               \* parse_expression
Hops == <<"hops">>                              \* what follows the star of a path
Eat(t) == <<"eat", t>>                          \* eat: whether it was there
After(t, g) == <<"after", t, g>>                \* the token, then the rule
If(S, g, h) == <<"if", S, g, h>>                \* by the next token
Maybe(S, g) == <<"maybe", S, g>>                \* the rule, if the next token begins it
Repeat(S, g) == <<"repeat", S, g>>              \* as long as the next token begins it
Pure(v) == <<"pure", v>>
Node(op, parts) == <<"node", op, parts>>
Field(f, g) == <<"field", f, g>>
Separated(t, g) == <<"separated", t, g>>        \* g, g, ...
Comma(g) == Separated(",", g)
One(g) == <<"one", g>>

\* parse_expr_bp: infix_binding_power, prefix_binding_power, token_to_binary_op.  The power to the
\* right is one more: operators of one level associate to the left.
LeftPower == [t \in {"OR", "AND", "=", "<>", "!=", "<", "<=", ">", ">=", "+", "-", "*", "/", "%"} |->
                CASE t = "OR" -> 1 [] t = "AND" -> 3 [] t \in {"+", "-"} -> 7
                  [] t \in {"*", "/", "%"} -> 9 [] OTHER -> 5]
RightPower(t) == LeftPower[t] + 1
IsPower == 5
PrefixPower(t) == IF t = "NOT" THEN 4 ELSE 11
BinarySymbol(t) == IF t = "!=" THEN "<>" ELSE t

\* parse_var_length_spec: *, *N, *N..M, *N.., *..M, and int_to_u32.
Numbers == {t \in DOMAIN LiteralOf : LiteralOf[t][1] = "Int"}
HopCount(t) == LiteralOf[t][2] % HopRange
HopSpec(ts, i) ==
    LET At(k) == Peek(ts, k)
        Upper(k) == IF At(k) \in Numbers THEN <<HopCount(At(k))>> ELSE <<>>
        Spec(min, max, at) == Ok(at, [min |-> min, max |-> max])
    IN  IF At(i) = ".." THEN Spec(1, Upper(i + 1), i + 1 + Len(Upper(i + 1)))
        ELSE IF At(i) \notin Numbers THEN Spec(1, <<>>, i)
        ELSE IF At(i + 1) = ".." THEN Spec(HopCount(At(i)), Upper(i + 2), i + 2 + Len(Upper(i + 2)))
        ELSE Spec(HopCount(At(i)), <<HopCount(At(i))>>, i + 1)

RECURSIVE Run(_, _, _), RunAll(_, _, _, _), Loop(_, _, _, _, _), Pratt(_, _, _), Infix(_, _, _),
          Prefix(_, _)

Run(g, ts, i) ==
    LET t == Peek(ts, i)
    IN  CASE g[1] = "tok" -> IF t = g[2] THEN Ok(i + 1, <<>>) ELSE Fail
          [] g[1] = "ident" -> IF t \in Ident THEN Ok(i + 1, t)
                               ELSE IF t \in Quoted THEN Ok(i + 1, QuotedOf[t]) ELSE Fail
          [] g[1] = "hops" -> HopSpec(ts, i)
          [] g[1] = "expr" -> Pratt(g[2], ts, i)
          [] g[1] = "eat" -> IF t = g[2] THEN Ok(i + 1, TRUE) ELSE Ok(i, FALSE)
          [] g[1] = "after" -> IF t = g[2] THEN Run(g[3], ts, i + 1) ELSE Fail
          [] g[1] = "if" -> Run(IF t \in g[2] THEN g[3] ELSE g[4], ts, i)
          [] g[1] = "maybe" -> IF t \notin g[2] THEN Ok(i, <<>>)
                               ELSE Then(Run(g[3], ts, i), LAMBDA r : Ok(r.at, <<r.val>>))
          [] g[1] = "repeat" -> Loop(g[2], g[3], ts, i, <<>>)
          [] g[1] = "separated" ->
               Then(Run(g[3], ts, i), LAMBDA r : Loop({g[2]}, After(g[2], g[3]), ts, r.at, <<r.val>>))
          [] g[1] = "one" -> Then(Run(g[2], ts, i), LAMBDA r : Ok(r.at, <<r.val>>))
          [] g[1] = "pure" -> Ok(i, g[2])
          [] g[1] = "node" -> RunAll(g[3], ts, i, [op |-> g[2]])

Loop(S, g, ts, i, vals) ==
    IF Peek(ts, i) \notin S THEN Ok(i, vals)
    ELSE Then(Run(g, ts, i), LAMBDA r : Loop(S, g, ts, r.at, Append(vals, r.val)))

RunAll(parts, ts, i, node) ==
    IF parts = <<>> THEN Ok(i, node)
    ELSE LET g == Head(parts)
         IN  IF g[1] = "field"
             THEN Then(Run(g[3], ts, i),
                       LAMBDA r : RunAll(Tail(parts), ts, r.at, node @@ (g[2] :> r.val)))
             ELSE Then(Run(g, ts, i), LAMBDA r : RunAll(Tail(parts), ts, r.at, node))

Pratt(minBp, ts, i) == Then(Prefix(ts, i), LAMBDA r : Infix(minBp, ts, r))

\* Property access binds whatever the power asked for; IS [NOT] NULL like a comparison.
Infix(minBp, ts, lhs) ==
    LET t == Peek(ts, lhs.at)
    IN  CASE t = "." ->
               Then(Run(Name, ts, lhs.at + 1),
                    LAMBDA r : Infix(minBp, ts, Ok(r.at, PropExpr(lhs.val, r.val))))
          [] t = "IS" /\ IsPower >= minBp ->
               Then(Run(Node("isnull", <<Field("negated", Eat("NOT")), Tok("NULL")>>), ts, lhs.at + 1),
                    LAMBDA r : Infix(minBp, ts, Ok(r.at, r.val @@ [arg |-> lhs.val])))
          [] t \in DOMAIN LeftPower /\ LeftPower[t] >= minBp ->
               Then(Pratt(RightPower(t), ts, lhs.at + 1),
                    LAMBDA r : Infix(minBp, ts, Ok(r.at, BinExpr(BinarySymbol(t), lhs.val, r.val))))
          [] OTHER -> lhs

\* parse_prefix, parse_list_literal, parse_primary.
Prefix(ts, i) ==
    LET t == Peek(ts, i)
        Args == If({")"}, Pure(<<>>), Comma(Expr))
    IN  CASE t \in {"NOT", "-"} ->
               Then(Pratt(PrefixPower(t), ts, i + 1),
                    LAMBDA r : Ok(r.at, UnExpr(t, r.val)))
          [] t = "(" -> Then(Pratt(0, ts, i + 1),
                             LAMBDA r : Then(Run(Tok(")"), ts, r.at), LAMBDA s : Ok(s.at, r.val)))
          [] t = "[" -> Run(Node("list", <<Tok("["), Field("items", If({"]"}, Pure(<<>>), Comma(Expr))),
                                          Tok("]")>>), ts, i)
          [] t \in DOMAIN Constants -> Ok(i + 1, LitExpr(Constants[t]))
          [] t \in Param -> Ok(i + 1, ParamExpr(t))
          [] t = "COUNT" /\ Peek(ts, i + 2) = "*" ->
               Run(Node("count*", <<Tok("COUNT"), Tok("("), Tok("*"), Tok(")")>>), ts, i)
          [] t = "COUNT" ->
               Run(Node("call", <<Tok("COUNT"), Tok("("), Field("name", Pure("count")),
                                  Field("distinct", Eat("DISTINCT")), Field("args", One(Expr)),
                                  Tok(")")>>), ts, i)
          [] t \in Ident /\ Peek(ts, i + 1) = "(" ->
               Run(Node("call", <<Field("name", Name), Tok("("), Field("distinct", Eat("DISTINCT")),
                                  Field("args", Args), Tok(")")>>), ts, i)
          [] t \in Ident -> Ok(i + 1, VarExpr(t))
          [] t \in Quoted -> Ok(i + 1, VarExpr(QuotedOf[t]))
          [] OTHER -> Fail
-----------------------------------------------------------------------------
(* Patterns (pattern.rs).                                                  *)

ParseMapLiteral == Node("map", <<Tok("{"),
                Field("entries", If({"}"}, Pure(<<>>),
                   Comma(Node("entry", <<Field("key", Name), Tok(":"), Field("value", Expr)>>)))),
                Tok("}")>>)
Variable == Field("variable", Maybe(Ident \cup Quoted, Name))
Labels == Field("labels", Repeat({":"}, After(":", Name)))
Properties == Field("properties", Maybe({"{"}, ParseMapLiteral))
ParseNodePattern == Node("node", <<Tok("("), Variable, Labels, Properties, Tok(")")>>)

RelationshipContent ==
    <<Variable,
      Field("types", If({":"}, After(":", Separated("|", Name)), Pure(<<>>))),
      Field("hops", Maybe({"*"}, After("*", Hops))),
      Properties>>
FromMinus == Node("rel", <<Tok("-"), Tok("[")>> \o RelationshipContent \o
                <<Tok("]"), Field("direction", If({"->"}, After("->", Pure("out")), After("-", Pure("both"))))>>)
Incoming == Node("rel", <<Tok("<-"), Tok("[")>> \o RelationshipContent \o
                <<Tok("]"), Tok("-"), Field("direction", Pure("in"))>>)
Bare == Node("rel", <<Tok("--"), Field("variable", Pure(<<>>)), Field("types", Pure(<<>>)),
                      Field("hops", Pure(<<>>)), Field("properties", Pure(<<>>)),
                      Field("direction", Pure("both"))>>)

Step == Node("step", <<Field("rel", If({"-"}, FromMinus, If({"<-"}, Incoming, Bare))),
                       Field("node", ParseNodePattern)>>)
ParsePatternChain == Node("chain", <<Field("first", ParseNodePattern),
                                Field("steps", Repeat({"-", "<-", "--"}, Step))>>)
ParsePattern == Comma(ParsePatternChain)

-----------------------------------------------------------------------------
(* Clauses (clause.rs).                                                    *)

\* BETWEEN stops before AND.
ExprNoAndLow == ExprBp(3)       \* a mistake: AND is taken along
ExprNoAnd == ExprBp(4)
AtTime == After("AT", After("TIME", Expr))
Temporal == Field("temporal", Maybe({"AT", "BETWEEN"},
    If({"AT"}, Node("as of", <<Field("time", AtTime)>>),
       Node("between", <<Tok("BETWEEN"), Tok("TIME"), Field("start", ExprNoAnd), Tok("AND"),
                         Field("end", ExprNoAnd)>>))))
Where == Field("where", Maybe({"WHERE"}, After("WHERE", Expr)))
Items == Field("items", Comma(Node("item", <<Field("expr", Expr),
                                             Field("alias", Maybe({"AS"}, After("AS", Name)))>>)))
Distinct == Field("distinct", Eat("DISTINCT"))
ParseOrderItem == Node("order", <<Field("expr", Expr),
                Field("ascending", If({"DESC"}, After("DESC", Pure(FALSE)),
                                      If({"ASC"}, After("ASC", Pure(TRUE)), Pure(TRUE))))>>)

ParseMatch(optional) == Node("MATCH", <<Tok("MATCH"), Field("optional", Pure(optional)),
                                         Field("pattern", ParsePattern), Temporal, Where>>)
ParseReturn == Node("RETURN", <<Tok("RETURN"), Distinct, Items,
    Field("order", If({"ORDER"}, After("ORDER", After("BY", Comma(ParseOrderItem))), Pure(<<>>))),
    Field("skip", Maybe({"SKIP"}, After("SKIP", Expr))),
    Field("limit", Maybe({"LIMIT"}, After("LIMIT", Expr)))>>)
ParseWith == Node("WITH", <<Tok("WITH"), Distinct, Items, Where>>)
ParseUnwind == Node("UNWIND", <<Tok("UNWIND"), Field("expr", Expr), Tok("AS"), Field("name", Name)>>)

ParseCreate == Node("CREATE", <<Tok("CREATE"), Field("pattern", ParsePattern)>>)
Path == Field("path", Repeat({"."}, After(".", Name)))
ParseSetItems == Comma(Node("set", <<Field("name", Name), Path, Tok("="), Field("value", Expr)>>))
ParseSet == Node("SET", <<Tok("SET"), Field("items", ParseSetItems)>>)
ParseRemoveItem == Node("remove", <<Field("name", Name),
    Field("what", If({":"}, Node("label", <<Tok(":"), Field("of", Name)>>),
                            Node("key", <<Tok("."), Field("of", Name)>>)))>>)
ParseRemove == Node("REMOVE", <<Tok("REMOVE"), Field("items", Comma(ParseRemoveItem))>>)
ParseDelete(detach) == Node("DELETE", <<Tok("DELETE"), Field("detach", Pure(detach)),
                                         Field("exprs", Comma(Expr))>>)
ParseMerge == Node("MERGE", <<Tok("MERGE"), Field("pattern", ParsePattern),
    Field("on", Repeat({"ON"}, After("ON",
       If({"MATCH"}, Node("on match", <<Tok("MATCH"), Tok("SET"), Field("items", ParseSetItems)>>),
          Node("on create", <<Tok("CREATE"), Tok("SET"), Field("items", ParseSetItems)>>)))))>>)
Target(kind) == Node(kind, <<Tok("ON"), Tok(":"), Field("of", Name), Tok("("), Field("key", Name), Tok(")")>>)
IndexName == Field("name", If({"ON"}, Pure(<<>>), One(Name)))
ParseCreateIndex == Node("CREATE INDEX", <<Tok("CREATE"), Tok("INDEX"), IndexName,
                                            Field("target", Target("label"))>>)
ParseCreateEdgeIndex == Node("CREATE INDEX", <<Tok("CREATE"), Tok("EDGE"), Tok("INDEX"), IndexName,
                                                Field("target", Target("type"))>>)
ParseDropIndex == Node("DROP INDEX", <<Tok("DROP"), Tok("INDEX"), Field("name", Name)>>)

ParseCreateSnapshot == Node("CREATE SNAPSHOT",
    <<Tok("CREATE"), Tok("SNAPSHOT"), Tok("("), Variable, Labels, Properties, Tok(")"),
      Field("anchor", Maybe({"AT"}, AtTime)), Tok("FROM"), Field("from", ParseMatch(FALSE)),
      Tok("RETURN"), Items>>)

\* parse_hyperedge_participant_list, expect_to_keyword: TO is a name like any other.
ParseParticipant == Node("participant", <<Field("name", Name), Field("time", Maybe({"AT"}, AtTime))>>)
ParseParticipants == Node("participants", <<Tok("("), Field("of", If({")"}, Pure(<<>>), Comma(ParseParticipant))),
                                       Tok(")")>>)
ParseCreateHyperedge == Node("CREATE HYPEREDGE",
    <<Tok("CREATE"), Tok("HYPEREDGE"), Tok("("), Variable, Labels, Tok(")"), Tok("FROM"),
      Field("sources", ParseParticipants), Tok("TO"), Field("targets", ParseParticipants)>>)
ParseMatchHyperedge == Node("MATCH HYPEREDGE",
    <<Tok("MATCH"), Tok("HYPEREDGE"), Tok("("), Variable, Labels, Tok(")")>>)

-----------------------------------------------------------------------------
(* Queries (parser/mod.rs): clauses by their first tokens, up to the end.  *)

Clause(ts, i) ==
    LET t == Peek(ts, i)  next == Peek(ts, i + 1)
        rule == CASE t = "OPTIONAL" -> After("OPTIONAL", ParseMatch(TRUE))
                  [] t = "MATCH" -> IF next = "HYPEREDGE" THEN ParseMatchHyperedge ELSE ParseMatch(FALSE)
                  [] t = "RETURN" -> ParseReturn
                  [] t = "CREATE" /\ next = "INDEX" -> ParseCreateIndex
                  [] t = "CREATE" /\ next = "EDGE" -> ParseCreateEdgeIndex
                  [] t = "CREATE" /\ next = "HYPEREDGE" -> ParseCreateHyperedge
                  [] t = "CREATE" /\ next = "SNAPSHOT" -> ParseCreateSnapshot
                  [] t = "CREATE" -> ParseCreate
                  [] t = "SET" -> ParseSet
                  [] t = "REMOVE" -> ParseRemove
                  [] t = "DELETE" -> ParseDelete(FALSE)
                  [] t = "DETACH" -> After("DETACH", ParseDelete(TRUE))
                  [] t = "WITH" -> ParseWith
                  [] t = "MERGE" -> ParseMerge
                  [] t = "UNWIND" -> ParseUnwind
                  [] t = "DROP" -> ParseDropIndex
                  [] OTHER -> Tok("a clause")
    IN  Run(rule, ts, i)

RECURSIVE ClausesFrom(_, _, _)
ClausesFrom(ts, i, clauses) ==
    IF i > Len(ts) THEN Ok(i, clauses)
    ELSE Then(Clause(ts, i), LAMBDA r : ClausesFrom(ts, r.at, Append(clauses, r.val)))

\* parse_query: the clauses, <<>> for an error.  An empty query is one.
ParseQuery(ts) == ClausesFrom(ts, 1, <<>>).val
=============================================================================
