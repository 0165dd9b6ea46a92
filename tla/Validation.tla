----------------------------- MODULE Validation -----------------------------
(***************************************************************************)
(* validate and body_validate (builtins.go, body_validate.go): a value is  *)
(* held against a schema, and every fault is reported with its path.  The  *)
(* tests of a text's form (pattern, format) are one test here, whose       *)
(* verdict comes with the text.                                            *)
(***************************************************************************)
EXTENDS Integers, Sequences, FiniteSets, SequencesExt

CONSTANTS Bodies,   \* values [kind, is]: numbers, texts [size, fits], arrays, objects
          Schemas,  \* functions from keywords; properties is a function from names; one
                    \* without keywords also stands for what is no schema
          NameOrder \* names of properties, in the order a schema gives them

\* A path is a sequence of names and places in arrays.
Named(n) == [name |-> n]
Nth(k)   == [item |-> k]
Fault(path, why) == [path |-> path, why |-> why]

\* Numbers are counted in halves: an odd one is no integer.
HasType(v, type) ==
    \/ type = "any" \/ v.kind = type
    \/ type = "integer" /\ v.kind = "number" /\ v.is % 2 = 0
Size(v) == CASE v.kind = "number" -> v.is [] v.kind = "string" -> v.is.size [] v.kind = "array" -> Len(v.is)
Least == [number |-> "minimum", string |-> "min_length", array |-> "min_items"]
Most  == [number |-> "maximum", string |-> "max_length", array |-> "max_items"]
Among(v, values) == \E e \in values : e.kind = v.kind /\ e.is = v.is
Sized(v) == v.kind \in {"number", "string", "array"}

When(condition, path, why) == IF condition THEN <<Fault(path, why)>> ELSE <<>>
Below(v, s, path) == When(Sized(v) /\ Least[v.kind] \in DOMAIN s /\ Size(v) < s[Least[v.kind]], path, "small")
Above(v, s, path) == When(Sized(v) /\ Most[v.kind] \in DOMAIN s /\ Size(v) > s[Most[v.kind]], path, "large")

\* A schema whose type fails is not looked at further; a keyword of another kind than
\* the value's says nothing.
RECURSIVE FaultsOf(_, _, _)

\* Mutant: an item's faults are reported at its array.
InnerUnplaced(v, s, path) ==
    CASE v.kind = "array" /\ "items" \in DOMAIN s ->
            FlattenSeq([k \in DOMAIN v.is |-> FaultsOf(v.is[k], s.items, path)])
      [] v.kind = "object" /\ "properties" \in DOMAIN s ->
            LET given == SelectSeq(NameOrder, LAMBDA n : n \in DOMAIN s.properties /\ n \in DOMAIN v.is)
            IN  FlattenSeq([k \in DOMAIN given |-> FaultsOf(v.is[given[k]], s.properties[given[k]], Append(path, Named(given[k])))])
      [] OTHER -> <<>>

Inner(v, s, path) ==
    CASE v.kind = "array" /\ "items" \in DOMAIN s ->
            FlattenSeq([k \in DOMAIN v.is |-> FaultsOf(v.is[k], s.items, Append(path, Nth(k)))])
      [] v.kind = "object" /\ "properties" \in DOMAIN s ->
            LET given == SelectSeq(NameOrder, LAMBDA n : n \in DOMAIN s.properties /\ n \in DOMAIN v.is)
            IN  FlattenSeq([k \in DOMAIN given |-> FaultsOf(v.is[given[k]], s.properties[given[k]], Append(path, Named(given[k])))])
      [] OTHER -> <<>>
Lacking(v, s, path) ==
    IF v.kind = "object" /\ "required" \in DOMAIN s
    THEN FlattenSeq([k \in DOMAIN s.required |-> When(s.required[k] \notin DOMAIN v.is, path, s.required[k])])
    ELSE <<>>

FaultsOf(v, s, path) ==
    IF "type" \in DOMAIN s /\ ~HasType(v, s.type) THEN <<Fault(path, "type")>>
    ELSE When("enum" \in DOMAIN s /\ ~Among(v, s.enum), path, "enum")
         \o (IF v.kind = "array"
             THEN Inner(v, s, path) \o Below(v, s, path) \o Above(v, s, path)
             ELSE Below(v, s, path) \o Above(v, s, path)
                  \o When(v.kind = "string" /\ "form" \in DOMAIN s /\ ~v.is.fits, path, "form")
                  \o Lacking(v, s, path) \o Inner(v, s, path))

-----------------------------------------------------------------------------
(* A call *)

VARIABLES body, schema, answer

validationVars == <<body, schema, answer>>

Unanswered == [kind |-> "none", errors |-> <<>>]
ValidationInit == body \in Bodies /\ schema \in Schemas /\ answer = Unanswered

\* The handler gets the body, or a response 400 that lists the faults.
Validate ==
    /\ answer = Unanswered
    /\ LET faults == FaultsOf(body, schema, <<>>)
       IN  answer' = [kind |-> IF faults = <<>> THEN "body" ELSE "response", errors |-> faults]
    /\ UNCHANGED <<body, schema>>

-----------------------------------------------------------------------------
(* Property *)

\* The value and the schema at a path; nothing where either has none, or where a wrong
\* type stopped the look.
Nowhere == [some |-> FALSE, v |-> Fault(<<>>, ""), s |-> <<>>]
To(v, s) == [some |-> TRUE, v |-> v, s |-> s]
StepTo(at, step) ==
    CASE ~at.some \/ (at.some /\ "type" \in DOMAIN at.s /\ ~HasType(at.v, at.s.type)) -> Nowhere
      [] OTHER ->
           CASE "item" \in DOMAIN step /\ at.v.kind = "array" /\ "items" \in DOMAIN at.s /\ step.item \in DOMAIN at.v.is ->
                    To(at.v.is[step.item], at.s.items)
             [] "name" \in DOMAIN step /\ at.v.kind = "object" /\ "properties" \in DOMAIN at.s
                /\ step.name \in DOMAIN at.v.is \cap DOMAIN at.s.properties ->
                    To(at.v.is[step.name], at.s.properties[step.name])
             [] OTHER -> Nowhere
At(path) == FoldLeft(StepTo, To(body, schema), path)

\* What a value breaks of its own schema, its parts aside.
Breaks(v, s) ==
    IF "type" \in DOMAIN s /\ ~HasType(v, s.type) THEN {"type"}
    ELSE {why \in {"enum", "small", "large", "form"} :
            CASE why = "enum"  -> "enum" \in DOMAIN s /\ ~Among(v, s.enum)
              [] why = "small" -> Sized(v) /\ Least[v.kind] \in DOMAIN s /\ s[Least[v.kind]] > Size(v)
              [] why = "large" -> Sized(v) /\ Most[v.kind] \in DOMAIN s /\ s[Most[v.kind]] < Size(v)
              [] why = "form"  -> v.kind = "string" /\ "form" \in DOMAIN s /\ ~v.is.fits}
         \cup (IF v.kind = "object" /\ "required" \in DOMAIN s THEN ToSet(s.required) \ DOMAIN v.is ELSE {})

\* The places of a body that nests a list of objects, at most.
Names == {Named(n) : n \in ToSet(NameOrder)}
Numbered == {Nth(k) : k \in 1 .. 2}
Places == {<<>>} \cup {<<n>> : n \in Names} \cup {<<n, k>> : n \in Names, k \in Numbered}
                 \cup {<<n, k, m>> : n \in Names, k \in Numbered, m \in Names}

\* A body goes through exactly when no part of it that the schema reaches breaks its own
\* piece of the schema, and each broken piece is reported once, at its place.
FaultsReported ==
    answer # Unanswered =>
       LET reached == {p \in Places : At(p).some}
           faults == UNION {{Fault(p, why) : why \in Breaks(At(p).v, At(p).s)} : p \in reached}
       IN  /\ ToSet(answer.errors) = faults
           /\ Len(answer.errors) = Cardinality(faults)
           /\ (answer.kind = "body") = (faults = {})
=============================================================================
