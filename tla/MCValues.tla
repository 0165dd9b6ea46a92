------------------------------ MODULE MCValues ------------------------------
(***************************************************************************)
(* Arrays and functions for Collections, templates for Templates, bodies   *)
(* and schemas for Validation.                                             *)
(***************************************************************************)
EXTENDS Integers, Sequences, TLC

(* Arrays of up to two of these elements, and longer ones for sort. *)

N(n) == [kind |-> "number", n |-> n]
S(n) == [kind |-> "string", n |-> n]
TheElements == { N(0), N(1), S(1), [kind |-> "array", items |-> <<N(2)>>] }
TheArrays == UNION { [1 .. n -> TheElements] : n \in 0 .. 2 }
             \cup { <<N(1), N(0), e>> : e \in TheElements } \cup { <<S(1), S(0), S(1)>> }
TheReplies == { N(0), N(1), S(1) }

VARIABLES op, cells, walked, k, acc, result, shown

collectionVars == <<op, cells, walked, k, acc, result, shown>>
Coll == INSTANCE Collections WITH Arrays <- TheArrays, Replies <- TheReplies, Assigned <- {N(2)}

(* Every template of three of these tags, and an if with both branches in an each. *)

Tag(kind, name) == [kind |-> kind, body |-> name]
TheTags == { Tag("interp", <<"name">>), Tag("if", <<"none">>), Tag("if", <<"this", "name">>), Tag("else", <<>>),
             Tag("endif", <<>>), Tag("each", <<"kids">>), Tag("endeach", <<>>), Tag("partial", <<"p">>) }
TheTemplates ==
    UNION { [1 .. n -> TheTags] : n \in 0 .. 3 }
    \cup { <<Tag("each", <<"kids">>), Tag("raw", <<"this", "name">>), Tag("if", <<"kids">>), t, Tag("else", <<>>), u,
             Tag("endif", <<>>), Tag("endeach", <<>>)>> : t, u \in TheTags }
Word(s) == [kind |-> "text", is |-> s]
Obj(fields) == [kind |-> "object", is |-> fields]
Many(items) == [kind |-> "array", is |-> items]
Kids == Many(<<Obj("name" :> Word("x")), Obj("kids" :> Many(<<Obj("name" :> Word("z"))>>)), Word("y")>>)
TheVars == { "name" :> Word("root") @@ "none" :> Word("") @@ "kids" :> Kids,
             "kids" :> Obj("name" :> Obj("name" :> Word("k"))) }
ThePartials ==
    { "q" :> <<>>, "p" :> <<Tag("text", <<>>), Tag("interp", <<"name">>)>>, "p" :> <<Tag("endif", <<>>)>>,
      "p" :> <<Tag("interp", <<"this">>), Tag("partial", <<"p">>)>>,
      "p" :> <<Tag("interp", <<"@key">>), Tag("if", <<"kids">>), Tag("each", <<"kids">>), Tag("partial", <<"p">>),
               Tag("endeach", <<>>), Tag("endif", <<>>)>> }

VARIABLES template, partials, names, stage, tree, output

templateVars == <<template, partials, names, stage, tree, output>>
Tmpl == INSTANCE Templates
          WITH Templates <- TheTemplates, PartialSets <- ThePartials, Vars <- TheVars, MaxDepth <- 2, vars <- names

(* Bodies with a and b, where b is a list, of objects with a at the most. *)

Num(halves) == [kind |-> "number", is |-> halves]
Str(size, fits) == [kind |-> "string", is |-> [size |-> size, fits |-> fits]]
Leaves == { Num(1), Num(4), Str(0, TRUE), Str(2, FALSE), [kind |-> "null", is |-> 0] }
Lists == { Many(s) : s \in UNION { [1 .. n -> Leaves] : n \in 0 .. 2 } }
         \cup { Many(<<Obj("a" :> l), Obj(<<>>)>>) : l \in Leaves }
TheBodies ==
    { Num(1), Obj(<<>>) } \cup { Obj("a" :> l) : l \in Leaves }
    \cup { Obj(f @@ ("b" :> l)) : f \in {<<>>, "a" :> Num(4)}, l \in Lists }

Kind(type) == "type" :> type
LeafSchemas ==
    { <<>>, Kind("integer") @@ "minimum" :> 4 @@ "maximum" :> 4, Kind("any") @@ "enum" :> {Num(1), Str(2, FALSE)},
      Kind("string") @@ "min_length" :> 1 @@ "form" :> "email", "minimum" :> 2 @@ "max_length" :> 1 }
ItemSchemas ==
    LeafSchemas \cup { Kind("object") @@ "required" :> <<"a", "b">> @@ "properties" :> ("a" :> s) : s \in LeafSchemas }
TheSchemas ==
    { Kind(t) @@ "required" :> <<"a">>
      @@ "properties" :> ("a" :> s @@ "b" :> ("items" :> i @@ "min_items" :> 1 @@ "max_items" :> 1))
      : t \in {"object", "any"}, s \in LeafSchemas, i \in ItemSchemas }

VARIABLES given, schema, answer

validationVars == <<given, schema, answer>>
Valid == INSTANCE Validation WITH Bodies <- TheBodies, Schemas <- TheSchemas, NameOrder <- <<"a", "b">>, body <- given
=============================================================================
