---------------------------- MODULE Collections ----------------------------
(***************************************************************************)
(* The builtins on arrays (builtins.go, "Array ops").  Those that take a   *)
(* function call it for one element after the other; the function may fail *)
(* or assign to an element of the array that is walked, which they share   *)
(* with the program.  The others are operators.                            *)
(***************************************************************************)
EXTENDS Integers, Sequences, FiniteSets, FiniteSetsExt, SequencesExt, Functions

CONSTANTS Arrays,    \* the arrays a program starts with
          Replies,   \* what its functions return: no arrays
          Assigned   \* what they assign

\* Values: [kind, n] for numbers and strings (n stands for the text), [kind, items] for
\* arrays.
Number(n) == [kind |-> "number", n |-> n]
Text(n)   == [kind |-> "string", n |-> n]
Array(items) == [kind |-> "array", items |-> items]
Nil == [kind |-> "null", n |-> 0]

\* A number and its text are displayed alike.
Display(v) == [form |-> IF v.kind \in {"number", "string"} THEN "text" ELSE v.kind, n |-> v.n]
Truthy(v) == ~(v.kind = "null" \/ v = Number(0))
Less(v, w) == v.kind = w.kind /\ v.kind \in {"number", "string"} /\ v.n < w.n

-----------------------------------------------------------------------------
(* Without a function.  Error is what refuses, Panic what ends the caller. *)

Error == [kind |-> "error", n |-> 0]
Panic == [kind |-> "panic", n |-> 0]

Push(a, v) == Append(a, v)
Pop(a) == IF a = <<>> THEN Nil ELSE a[Len(a)]

Clamped(n, len) == IF n < 0 THEN 0 ELSE IF n > len THEN len ELSE n
SliceIndex(i, len) == Clamped(IF i < 0 THEN i + len ELSE i, len)
Slice(a, start, end) == SubSeq(a, SliceIndex(start, Len(a)) + 1, SliceIndex(end, Len(a)))
Take(a, n) == SubSeq(a, 1, Clamped(n, Len(a)))
Drop(a, n) == SubSeq(a, Clamped(n, Len(a)) + 1, Len(a))
Reversed(a) == [k \in DOMAIN a |-> a[Len(a) + 1 - k]]

\* make with a negative capacity panics.
RangeOf(start, end) == IF end < start THEN Panic ELSE Array([k \in 1 .. end - start |-> Number(start + k - 1)])

Unique(a) == FoldLeft(LAMBDA out, v : IF v \in Range(out) THEN out ELSE Append(out, v), <<>>, a)
Flatten(a) == FlattenSeq([k \in DOMAIN a |-> IF a[k].kind = "array" THEN a[k].items ELSE <<a[k]>>])
Zipped(a, b) == [k \in 1 .. Min({Len(a), Len(b)}) |-> Array(<<a[k], b[k]>>)]
Sum(a) == IF \A k \in DOMAIN a : a[k].kind = "number"
          THEN Number(FoldLeft(LAMBDA n, v : n + v.n, 0, a)) ELSE Error

\* The insertion sort of sort and sort_by, on pairs of a key and its element: one that
\* is not less than the one before it stays.
Pair(key, el) == [key |-> key, el |-> el]
\* Mutant: equal keys change places.
InsertedBefore(sorted, p) ==
    LET at == Max({0} \cup {k \in DOMAIN sorted : Less(sorted[k].key, p.key)})
    IN  SubSeq(sorted, 1, at) \o <<p>> \o SubSeq(sorted, at + 1, Len(sorted))

Inserted(sorted, p) ==
    LET at == Max({0} \cup {k \in DOMAIN sorted : ~Less(p.key, sorted[k].key)})
    IN  SubSeq(sorted, 1, at) \o <<p>> \o SubSeq(sorted, at + 1, Len(sorted))

InsertionSort(pairs) == FoldLeft(LAMBDA sorted, p : Inserted(sorted, p), <<>>, pairs)
SortedBy(keys, els) ==
    LET done == InsertionSort([k \in DOMAIN els |-> Pair(keys[k], els[k])]) IN [k \in DOMAIN els |-> done[k].el]

Sorted(a) ==
    CASE Len(a) < 2 -> Array(a)
      [] Len(a) >= 2 /\ \E k \in DOMAIN a : a[k].kind # a[1].kind \/ a[k].kind \notin {"number", "string"} -> Error
      [] OTHER -> Array(SortedBy(a, a))

-----------------------------------------------------------------------------
(* With a function *)

VARIABLES op,      \* the builtin that runs
          cells,   \* the program's array
          walked,  \* sort_by works on a copy; the others on cells
          k,       \* elements done
          acc,     \* what the builtin has made so far
          result,  \* Running, or what it returns
          shown    \* history: [el, reply], the calls of the function

collectionVars == <<op, cells, walked, k, acc, result, shown>>

Running == [kind |-> "running", n |-> 0]
WithFunction == {"map", "filter", "find", "reduce", "avg", "sort_by", "count_by", "group_by", "partition"}

CollectionsInit ==
    /\ op \in WithFunction
    /\ cells \in Arrays /\ walked = cells
    /\ k = 0 /\ shown = <<>>
    /\ acc = CASE op = "partition" -> << <<>>, <<>> >>
               [] op \in {"reduce", "avg"} -> Number(0)
               [] OTHER -> <<>>
    /\ result = Running

Element == IF op = "sort_by" THEN walked[k + 1] ELSE cells[k + 1]

\* group_by and count_by: buckets [key, els] in the order of their first element.
Bucketed(buckets, key, el) ==
    LET at == {j \in DOMAIN buckets : buckets[j].key = key}
    IN  IF at = {} THEN Append(buckets, [key |-> key, els |-> <<el>>])
        ELSE [j \in DOMAIN buckets |-> IF j \in at THEN [buckets[j] EXCEPT !.els = Append(@, el)] ELSE buckets[j]]

Combined(el, reply) ==
    CASE op \in {"map", "sort_by"} -> Append(acc, reply)
      [] op = "filter" -> IF Truthy(reply) THEN Append(acc, el) ELSE acc
      [] op = "find" -> acc
      [] op = "reduce" -> reply
      [] op = "avg" -> IF reply.kind = "number" THEN Number(acc.n + reply.n) ELSE Error
      [] op \in {"group_by", "count_by"} -> Bucketed(acc, Display(reply), el)
      [] op = "partition" -> IF Truthy(reply) THEN << Append(acc[1], el), acc[2] >> ELSE << acc[1], Append(acc[2], el) >>

\* The function is called with the next element.  It may assign to one of the array,
\* once in a walk (a bound).
Apply(reply) ==
    /\ result = Running /\ k < Len(walked)
    /\ \/ UNCHANGED cells
       \/ cells = walked /\ \E j \in DOMAIN cells, v \in Assigned : cells' = [cells EXCEPT ![j] = v]
    /\ shown' = Append(shown, [el |-> Element, reply |-> reply])
    /\ IF reply = Error THEN result' = Error /\ UNCHANGED <<acc, k>>
       ELSE /\ acc' = Combined(Element, reply)
            /\ k' = k + 1
            /\ result' = CASE op = "find" /\ Truthy(reply) -> Element
                           [] op = "avg" /\ reply.kind # "number" -> Error
                           [] OTHER -> Running
    /\ UNCHANGED <<op, walked>>

\* The quotient that avg makes of its sum is left out.
Finish ==
    /\ result = Running /\ k = Len(walked)
    /\ result' = CASE op = "find" -> Nil
                   [] op = "sort_by" -> Array(SortedBy(acc, walked))
                   [] op \in {"reduce", "avg"} -> acc
                   [] OTHER -> Array(acc)
    /\ UNCHANGED <<op, cells, walked, k, acc, shown>>

CollectionsNext == Finish \/ \E reply \in Replies \cup {Error} : Apply(reply)

-----------------------------------------------------------------------------
(* Properties *)

\* The elements of the calls whose reply satisfies a test, in order.
Els(Test(_)) == LET chosen == SelectSeq(shown, LAMBDA s : Test(s.reply)) IN [j \in DOMAIN chosen |-> chosen[j].el]
Numbers == {j \in DOMAIN shown : shown[j].reply.kind = "number"}

\* The only order of the elements that puts no key before a smaller one and leaves equal
\* ones as they were; keys of several kinds have no order.
StablySorted(out) ==
    LET kinds == {s.reply.kind : s \in Range(shown)}
        before(i) == {j \in DOMAIN shown : \/ Less(shown[j].reply, shown[i].reply)
                                           \/ j < i /\ ~Less(shown[i].reply, shown[j].reply)}
    IN  /\ Len(out) = Len(walked)
        /\ \A v \in Range(walked) : Cardinality({j \in DOMAIN out : out[j] = v}) = Cardinality({j \in DOMAIN walked : walked[j] = v})
        /\ kinds \in {{"number"}, {"string"}} => \A i \in DOMAIN walked : out[Cardinality(before(i)) + 1] = walked[i]

\* A builtin returns what the function said of the elements it was shown, each of them
\* once and in order, whatever the function does to the array meanwhile; the first
\* failure is the last call.
FollowsCalls ==
    result # Running =>
      LET fails == {j \in DOMAIN shown : shown[j].reply = Error \/ (op = "avg" /\ j \notin Numbers)}
          keys  == {Display(s.reply) : s \in Range(shown)}
          items == result.items
      IN  IF fails # {} THEN result = Error /\ fails = {Len(shown)}
          ELSE /\ op = "find" =>
                    LET hits == {j \in DOMAIN shown : Truthy(shown[j].reply)}
                    IN  IF hits = {} THEN result = Nil /\ Len(shown) = Len(walked)
                        ELSE hits = {Len(shown)} /\ result = shown[Len(shown)].el
               /\ op # "find" => Len(shown) = Len(walked)
               /\ op = "map" => items = [j \in DOMAIN shown |-> shown[j].reply]
               /\ op = "filter" => items = Els(Truthy)
               /\ op = "reduce" => result = IF shown = <<>> THEN Number(0) ELSE shown[Len(shown)].reply
               /\ op = "avg" => result = Sum([j \in DOMAIN shown |-> shown[j].reply])
               /\ op = "partition" => items = << Els(Truthy), Els(LAMBDA r : ~Truthy(r)) >>
               /\ op = "sort_by" => StablySorted(items)
               /\ op \in {"group_by", "count_by"} =>
                    /\ {b.key : b \in Range(items)} = keys /\ Len(items) = Cardinality(keys)
                    /\ \A b \in Range(items) : b.els = Els(LAMBDA r : Display(r) = b.key)

\* How the builtins without a function fit together, on the array before a walk.
Fits ==
    LET n == Len(cells)
    IN  /\ \A i \in -n - 1 .. n + 1 :
             /\ Take(cells, i) \o Drop(cells, i) = cells
             /\ i >= 0 => Slice(cells, 0, i) = Take(cells, i) /\ Slice(cells, i, n) = Drop(cells, i)
             /\ i < 0  => Slice(cells, i, n) = Reversed(Take(Reversed(cells), -i))
             /\ \A j \in -n - 1 .. n + 1 : Len(Slice(cells, i, j)) <= n
             /\ i >= 0 => Len(RangeOf(0, i).items) = i /\ Zipped(RangeOf(0, n).items, cells) = Zipped(RangeOf(0, n + i).items, cells)
        /\ Pop(Push(cells, Nil)) = Nil /\ Take(Push(cells, Nil), n) = cells
        /\ Flatten(Zipped(cells, cells)) = Flatten([j \in 1 .. 2 * n |-> Array(<<cells[(j + 1) \div 2]>>)])
        /\ Range(Unique(cells)) = Range(cells) /\ IsInjective(Unique(cells))
        /\ Unique(Reversed(Unique(cells))) = Reversed(Unique(cells))
        /\ Sorted(cells) # Error =>
              LET s == Sorted(cells).items
              IN  /\ Sorted(s) = Sorted(Reversed(cells)) /\ Sorted(s) = Sorted(cells)
                  /\ \A j \in 1 .. n - 1 : ~Less(s[j + 1], s[j])

\* Arrays come out of the builtins as their elements and functions say.
CollectionsAgree == FollowsCalls /\ (shown = <<>> => Fits)
=============================================================================
