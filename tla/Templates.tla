----------------------------- MODULE Templates -----------------------------
(***************************************************************************)
(* render_string (builtins.go, "Template engine"): tokens become a tree of *)
(* text, interpolations, if, each and partials, which is rendered against  *)
(* a stack of scopes.  A text is not cut into tokens here.                 *)
(***************************************************************************)
EXTENDS Integers, Sequences, FiniteSets, FiniteSetsExt, SequencesExt

CONSTANTS Templates,  \* sequences of tokens [kind, body]; a body is a path or names a partial
          PartialSets, \* functions from names to sequences of tokens
          Vars,       \* objects, as functions from names to values
          MaxDepth    \* partials within partials

\* Values: [kind, is]: a text, an array (sequence) or an object (function).
Missing == [kind |-> "null", is |-> "null"]
Object(fields) == [kind |-> "object", is |-> fields]

-----------------------------------------------------------------------------
(* tmplParse *)

Malformed == [ok |-> FALSE, nodes |-> <<>>, next |-> 0]
Parsed(nodes, next) == [ok |-> TRUE, nodes |-> nodes, next |-> next]
Node(kind, body, nodes, others) == [kind |-> kind, body |-> body, nodes |-> nodes, others |-> others]

Stops(token, stopAt) == token.kind = stopAt \/ (stopAt = "endif" /\ token.kind = "else")
EndsAt(parse, tokens, kinds) == parse.ok /\ parse.next <= Len(tokens) /\ tokens[parse.next].kind \in kinds

\* The nodes from token i up to the one that stops, and where that is.  Without a stop
\* the tokens may end, as they may where one is missing: the caller looks.
RECURSIVE ParseFrom(_, _, _)
Prepend(node, tokens, i, stopAt) ==
    LET rest == ParseFrom(tokens, i, stopAt)
    IN  IF rest.ok THEN Parsed(<<node>> \o rest.nodes, rest.next) ELSE Malformed

ParseFrom(tokens, i, stopAt) ==
    IF i > Len(tokens) \/ (i <= Len(tokens) /\ Stops(tokens[i], stopAt)) THEN Parsed(<<>>, i)
    ELSE LET t == tokens[i]
             first == ParseFrom(tokens, i + 1, IF t.kind = "if" THEN "endif" ELSE "endeach")
             other == ParseFrom(tokens, first.next + 1, "endif")
         IN  CASE t.kind \in {"text", "interp", "raw", "partial"} ->
                    Prepend(Node(t.kind, t.body, <<>>, <<>>), tokens, i + 1, stopAt)
               [] t.kind = "if" /\ EndsAt(first, tokens, {"endif"}) ->
                    Prepend(Node("if", t.body, first.nodes, <<>>), tokens, first.next + 1, stopAt)
               [] t.kind = "if" /\ EndsAt(first, tokens, {"else"}) /\ EndsAt(other, tokens, {"endif"}) ->
                    Prepend(Node("if", t.body, first.nodes, other.nodes), tokens, other.next + 1, stopAt)
               [] t.kind = "each" /\ EndsAt(first, tokens, {"endeach"}) ->
                    Prepend(Node("each", t.body, first.nodes, <<>>), tokens, first.next + 1, stopAt)
               [] OTHER -> Malformed

ParseTemplate(tokens) == ParseFrom(tokens, 1, "")

-----------------------------------------------------------------------------
(* tmplRender *)

RECURSIVE WalkPath(_, _)
WalkPath(v, path) ==
    IF path = <<>> THEN v
    ELSE IF v.kind # "object" \/ (v.kind = "object" /\ Head(path) \notin DOMAIN v.is) THEN Missing
    ELSE WalkPath(v.is[Head(path)], Tail(path))

\* Mutant: the outermost frame that has the name.
LookupOutermost(scope, path) ==
    LET having == {k \in DOMAIN scope : path[1] \in DOMAIN scope[k]}
    IN  IF having = {} THEN Missing ELSE WalkPath(scope[Min(having)][path[1]], Tail(path))

\* The innermost frame that has the first name decides.
Lookup(scope, path) ==
    LET having == {k \in DOMAIN scope : path[1] \in DOMAIN scope[k]}
    IN  IF having = {} THEN Missing ELSE WalkPath(scope[Max(having)][path[1]], Tail(path))

IsTruthy(v) ==
    CASE v.kind = "null" -> FALSE
      [] v.kind = "text" -> v.is # ""
      [] v.kind = "array" -> v.is # <<>>
      [] v.kind = "object" -> DOMAIN v.is # {}

Over(fields, others) == [n \in DOMAIN fields \cup DOMAIN others |-> IF n \in DOMAIN others THEN others[n] ELSE fields[n]]
FieldsOf(item) == IF item.kind = "object" THEN item.is ELSE [n \in {} |-> Missing]
Frame(item) == Over([n \in {"this"} |-> item], FieldsOf(item))
KeyedFrame(key, item) == Over([n \in {"this", "@key"} |-> IF n = "this" THEN item ELSE [kind |-> "text", is |-> key]], FieldsOf(item))

\* The frames of an each, in order; what is no array or object has none.
FramesOf(v) ==
    CASE v.kind = "array"  -> [k \in DOMAIN v.is |-> Frame(v.is[k])]
      [] v.kind = "object" -> LET keys == SetToSeq(DOMAIN v.is)
                              IN  [k \in DOMAIN keys |-> KeyedFrame(keys[k], v.is[keys[k]])]
      [] OTHER -> <<>>

\* Output is a sequence of [value, escaped]; the first failure ends it.
Chunk(v, escaped) == [value |-> v, escaped |-> escaped]
Failure == Chunk(Missing, "failure")
Failed(out) == Failure \in ToSet(out)
Joined(outs) == IF \E k \in DOMAIN outs : Failed(outs[k]) THEN <<Failure>> ELSE FlattenSeq(outs)

RECURSIVE RenderNodes(_, _, _, _)
RenderNode(node, scope, partials, depth) ==
    CASE node.kind = "text" -> <<Chunk(Missing, "text")>>
      [] node.kind \in {"interp", "raw"} -> <<Chunk(Lookup(scope, node.body), node.kind)>>
      [] node.kind = "partial" ->
            LET child == ParseTemplate(partials[node.body[1]])
            IN  IF node.body[1] \notin DOMAIN partials THEN <<Failure>>
                ELSE IF child.ok THEN RenderNodes(child.nodes, scope, partials, depth + 1) ELSE <<Failure>>
      [] node.kind = "if" -> RenderNodes(IF IsTruthy(Lookup(scope, node.body)) THEN node.nodes ELSE node.others, scope, partials, depth)
      [] node.kind = "each" ->
            LET frames == FramesOf(Lookup(scope, node.body))
            IN  Joined([k \in DOMAIN frames |-> RenderNodes(node.nodes, Append(scope, frames[k]), partials, depth)])

RenderNodes(nodes, scope, partials, depth) ==
    IF depth > MaxDepth THEN <<Failure>>
    ELSE Joined([k \in DOMAIN nodes |-> RenderNode(nodes[k], scope, partials, depth)])

-----------------------------------------------------------------------------
(* A rendering *)

VARIABLES template, partials, vars, stage, tree, output

templateVars == <<template, partials, vars, stage, tree, output>>

TemplatesInit ==
    /\ template \in Templates /\ partials \in PartialSets /\ vars \in Vars
    /\ stage = "given" /\ tree = Malformed /\ output = <<>>

Parse ==
    /\ stage = "given"
    /\ tree' = ParseTemplate(template)
    /\ stage' = IF tree'.ok THEN "parsed" ELSE "refused"
    /\ UNCHANGED <<template, partials, vars, output>>

Render ==
    /\ stage = "parsed"
    /\ output' = RenderNodes(tree.nodes, <<vars>>, partials, 0)
    /\ stage' = IF Failed(output') THEN "refused" ELSE "rendered"
    /\ UNCHANGED <<template, partials, vars, tree>>

TemplatesNext == Parse \/ Render

-----------------------------------------------------------------------------
(* Properties *)

\* What stays open after a token; a mark of its own once one did not fit.
Opened(open, t) ==
    LET top == IF open = <<>> THEN "nothing" ELSE open[Len(open)]
        ends(kinds) == IF top \in kinds THEN Front(open) ELSE <<"misfit">>
    IN  CASE top = "misfit" -> open
          [] t.kind \in {"if", "each"} -> Append(open, t.kind)
          [] t.kind = "else" /\ top = "if" -> Append(Front(open), "else")
          [] t.kind = "else" /\ top # "if" -> <<"misfit">>
          [] t.kind = "endif" -> ends({"if", "else"})
          [] t.kind = "endeach" -> ends({"each"})
          [] OTHER -> open
Nested(tokens) == FoldLeft(Opened, <<>>, tokens) = <<>>

\* The text is read from left to right, without a tree and with one set of names.
DepthAt(tokens, k) ==
    Cardinality({j \in 1 .. k : tokens[j].kind \in {"if", "each"}}) - Cardinality({j \in 1 .. k : tokens[j].kind \in {"endif", "endeach"}})
Close(tokens) == Min({k \in DOMAIN tokens : DepthAt(tokens, k) = 0})
Middle(tokens) ==
    LET elses == {k \in 2 .. Close(tokens) : tokens[k].kind = "else" /\ DepthAt(tokens, k) = 1}
    IN  IF elses = {} THEN Close(tokens) ELSE Min(elses)

RECURSIVE Reading(_, _, _)
Reading(tokens, names, depth) ==
    IF tokens = <<>> THEN <<>>
    ELSE LET t == Head(tokens)
             after(k) == Reading(SubSeq(tokens, k + 1, Len(tokens)), names, depth)
             value == IF t.body[1] \in DOMAIN names THEN WalkPath(names[t.body[1]], Tail(t.body)) ELSE Missing
         IN  CASE t.kind = "text" -> <<Chunk(Missing, "text")>> \o after(1)
               [] t.kind \in {"interp", "raw"} -> <<Chunk(value, t.kind)>> \o after(1)
               [] t.kind = "partial" ->
                    (IF t.body[1] \in DOMAIN partials /\ depth < MaxDepth
                     THEN IF Nested(partials[t.body[1]]) THEN Reading(partials[t.body[1]], names, depth + 1) ELSE <<Failure>>
                     ELSE <<Failure>>) \o after(1)
               [] t.kind = "if" ->
                    Reading(IF IsTruthy(value) THEN SubSeq(tokens, 2, Middle(tokens) - 1)
                            ELSE SubSeq(tokens, Middle(tokens) + 1, Close(tokens) - 1), names, depth) \o after(Close(tokens))
               [] t.kind = "each" ->
                    LET frames == FramesOf(value)
                        body == SubSeq(tokens, 2, Close(tokens) - 1)
                    IN  FlattenSeq([k \in DOMAIN frames |-> Reading(body, Over(names, frames[k]), depth)]) \o after(Close(tokens))

\* A template is refused exactly when its tags are not nested, a partial it reaches is
\* missing, not nested by itself, or too deep (so that none goes on for ever); else each
\* tag stands for what it says in the scope it is in, those of partials in the scope of
\* the place that includes them, and every interpolation but a raw one is escaped.
RendersAsRead ==
    stage \in {"rendered", "refused"} =>
       LET reading == IF Nested(template) THEN Reading(template, vars, 0) ELSE <<Failure>>
       IN  IF stage = "refused" THEN Failed(reading) ELSE output = reading
=============================================================================
