------------------------------- MODULE Grammar -------------------------------
(***************************************************************************)
(* grammar.rs: the GBNF grammar a turn's tools are compiled to, so that a  *)
(* constrained decoder can only produce calls of tools that were offered.  *)
(*                                                                         *)
(* An expression is [op, arg]: a literal or a shared terminal, a sequence, *)
(* alternatives, an optional, a repetition or the name of a rule.  White   *)
(* space is left out, and property names need no escaping.  A schema is    *)
(* [type, choices, properties, required, items]: properties in the order   *)
(* of their keys as <<key, schema>>, items and the rest empty when absent. *)
(***************************************************************************)
EXTENDS Naturals, Sequences, SequencesExt, FiniteSetsExt

MaxRepeat == 2     \* bound on the repetitions of a star in Words

Lit(t) == [op |-> "lit", arg |-> t]
InOrder(es) == [op |-> "all", arg |-> es]
OneOf(es) == [op |-> "one", arg |-> es]
Maybe(e) == [op |-> "maybe", arg |-> e]
Many(e) == [op |-> "many", arg |-> e]
Named(n) == [op |-> "rule", arg |-> n]

Comma(e) == InOrder(<<Lit(","), e>>)

-----------------------------------------------------------------------------
\* Each optional inside the one before it.
ChainedBody(required, optional) ==
  LET chain == FoldRight(LAMBDA part, rest : Maybe(Comma(InOrder(<<part, rest>>))),
                         optional, InOrder(<< >>))
  IN  IF required = << >> /\ optional = << >> THEN InOrder(<<Lit("{"), Lit("}")>>)
      ELSE InOrder(<<Lit("{")>> \o <<Head(required \o optional)>>
                   \o [k \in 1..(Len(required) - 1) |-> Comma(required[k + 1])]
                   \o <<chain, Lit("}")>>)

object_body(required, optional) ==
  LET from(k) == InOrder(<<optional[k]>> \o
                   [j \in 1..(Len(optional) - k) |-> Maybe(Comma(optional[k + j]))])
      pairs ==
        CASE required = << >> /\ optional = << >> -> << >>
          [] required = << >> /\ optional # << >> ->
               <<Maybe(OneOf([k \in DOMAIN optional |-> from(k)]))>>
          [] required # << >> ->
               <<Head(required)>> \o [k \in 1..(Len(required) - 1) |-> Comma(required[k + 1])]
               \o [k \in DOMAIN optional |-> Maybe(Comma(optional[k]))]
  IN  InOrder(<<Lit("{")>> \o pairs \o <<Lit("}")>>)

\* SubCompiler: the rules so far, whether anything was widened, and the
\* counter and the tool's index that name its next rule.  Both return the
\* state with the expression for the schema in out.
Widen(sub, to) == [sub EXCEPT !.widened = TRUE, !.out = Lit(to)]

\* fresh, and the push of the rule it names.
Push(sub, kind, body) ==
  LET name == <<sub.index, kind, sub.counter + 1>>
  IN  [sub EXCEPT !.counter = @ + 1, !.out = Named(name),
                  !.rules = Append(@, [name |-> name, body |-> body])]

SimpleTypes == {"string", "integer", "number", "boolean", "null"}

RECURSIVE value(_, _)
value(sub, schema) ==
  CASE schema.type = "not an object" -> Widen(sub, "json")
    [] schema.choices # << >> ->
         [sub EXCEPT !.out = OneOf([k \in DOMAIN schema.choices |-> Lit(schema.choices[k])])]
    [] schema.choices = << >> /\ schema.type \in SimpleTypes ->
         [sub EXCEPT !.out = Lit(schema.type)]
    [] schema.choices = << >> /\ schema.type = "array" ->
         LET item == IF schema.items = << >> THEN Widen(sub, "json")
                     ELSE value(sub, schema.items[1])
         IN  Push(item, "array",
                  InOrder(<<Lit("["), Maybe(InOrder(<<item.out, Many(Comma(item.out))>>)),
                            Lit("]")>>))
    [] schema.choices = << >> /\ schema.type = "object" ->
         LET visit(at, p) ==
               LET s == value(at.sub, p[2])
                   pair == InOrder(<<Lit(p[1]), Lit(":"), s.out>>)
               IN  IF p[1] \in schema.required
                   THEN [at EXCEPT !.sub = s, !.required = Append(@, pair)]
                   ELSE [at EXCEPT !.sub = s, !.optional = Append(@, pair)]
             seen == FoldLeft(visit, [sub |-> sub, required |-> << >>, optional |-> << >>],
                              schema.properties[1])
         IN  IF schema.properties = << >> THEN Widen(sub, "object")
             ELSE Push(seen.sub, "obj", object_body(seen.required, seen.optional))
    [] schema.choices = << >> /\ schema.type = "other" -> Widen(sub, "json")

\* The grammar of a list of tools [name, schema]; an empty list and a name
\* that is no plain identifier are refused.
compile(tools) ==
  LET tool(done, k) ==
        LET sub == value([done EXCEPT !.counter = 0, !.index = k], tools[k].schema)
            args == <<k, "args", 0>>
            call == <<k, "call", 0>>
        IN  [sub EXCEPT !.rules = @ \o
               <<[name |-> args, body |-> sub.out],
                 [name |-> call, body |->
                    InOrder(<<Lit("{"), Lit("name"), Lit(":"), Lit(tools[k].name), Lit(","),
                              Lit("arguments"), Lit(":"), Named(args), Lit("}")>>)]>>]
      all == FoldLeft(tool, [rules |-> << >>, widened |-> FALSE, counter |-> 0, index |-> 0,
                             out |-> << >>], [k \in DOMAIN tools |-> k])
  IN  [refused |-> tools = << >> \/ \E k \in DOMAIN tools : tools[k].name = "not plain",
       root |-> OneOf([k \in DOMAIN tools |-> Named(<<k, "call", 0>>)]),
       rules |-> all.rules, widened |-> all.widened]

-----------------------------------------------------------------------------
(* What a grammar says, and what it should say.                            *)

Joined(A, B) == {a \o b : a \in A, b \in B}

\* The sentences of an expression, up to MaxRepeat rounds of a repetition.
RECURSIVE Words(_, _)
Words(rules, e) ==
  CASE e.op = "lit" -> {<<e.arg>>}
    [] e.op = "all" -> FoldLeft(LAMBDA W, x : Joined(W, Words(rules, x)), {<< >>}, e.arg)
    [] e.op = "one" -> UNION {Words(rules, e.arg[k]) : k \in DOMAIN e.arg}
    [] e.op = "maybe" -> {<< >>} \cup Words(rules, e.arg)
    [] e.op = "many" ->
         LET W == Words(rules, e.arg)
         IN  UNION {FoldLeft(LAMBDA V, k : Joined(V, W), {<< >>}, [k \in 1..n |-> k]) :
                      n \in 0..MaxRepeat}
    [] e.op = "rule" ->
         UNION {Words(rules, rules[k].body) : k \in {j \in DOMAIN rules : rules[j].name = e.arg}}

Listed(ws) ==
  FoldLeft(LAMBDA text, k : text \o (IF k = 1 THEN << >> ELSE <<",">>) \o ws[k],
           << >>, [k \in DOMAIN ws |-> k])

\* The values a schema permits, written out: every set of properties with the
\* required ones in it, required first.  Whatever is beyond the subset is any
\* JSON value.
RECURSIVE Permits(_)
Permits(schema) ==
  CASE schema.type = "not an object" -> {<<"json">>}
    [] schema.choices # << >> -> {<<c>> : c \in ToSet(schema.choices)}
    [] schema.choices = << >> /\ schema.type = "other" -> {<<"json">>}
    [] schema.choices = << >> /\ schema.type = "array" ->
         LET of == IF schema.items = << >> THEN {<<"json">>} ELSE Permits(schema.items[1])
         IN  {<<"[">> \o Listed(ws) \o <<"]">> : ws \in SeqOf(of, MaxRepeat + 1)}
    [] schema.choices = << >> /\ schema.type = "object" /\ schema.properties = << >> ->
         {<<"object">>}
    [] schema.choices = << >> /\ schema.type = "object" /\ schema.properties # << >> ->
         LET ps == schema.properties[1]
             keys == {ps[k][1] : k \in DOMAIN ps}
             of(key) == Permits(ps[CHOOSE k \in DOMAIN ps : ps[k][1] = key][2])
             order(K) == SelectSeq(ps, LAMBDA p : p[1] \in K \cap schema.required)
                         \o SelectSeq(ps, LAMBDA p : p[1] \in K \ schema.required)
             written(K) ==
               {<<"{">> \o Listed([k \in DOMAIN order(K) |->
                                     <<order(K)[k][1], ":">> \o val[order(K)[k][1]]])
                 \o <<"}">> : val \in {v \in [K -> UNION {of(key) : key \in K}] :
                                         \A key \in K : v[key] \in of(key)}}
         IN  UNION {written(K) : K \in {S \in SUBSET keys : schema.required \cap keys \subseteq S}}
    [] OTHER -> {<<schema.type>>}

RECURSIVE Beyond(_)
Beyond(schema) ==
  \/ schema.type = "not an object"
  \/ /\ schema.choices = << >>
     /\ \/ schema.type = "other"
        \/ /\ schema.type = "array"
           /\ schema.items = << >> \/ Beyond(schema.items[1])
        \/ /\ schema.type = "object"
           /\ \/ schema.properties = << >>
              \/ \E k \in DOMAIN schema.properties[1] : Beyond(schema.properties[1][k][2])

\* A grammar produces exactly the calls the schemas permit, defines each of
\* its rules once, and says it was widened exactly when it was.
GrammarMeans(tools) ==
  LET g == compile(tools)
  IN  g.refused \/
      /\ Words(g.rules, g.root) =
           UNION {{<<"{", "name", ":", tools[k].name, ",", "arguments", ":">> \o args \o <<"}">> :
                     args \in Permits(tools[k].schema)} : k \in DOMAIN tools}
      /\ \A j, k \in DOMAIN g.rules : g.rules[j].name = g.rules[k].name => j = k
      /\ g.widened = \E k \in DOMAIN tools : Beyond(tools[k].schema)
=============================================================================
