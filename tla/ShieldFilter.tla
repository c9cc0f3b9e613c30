---------------------------- MODULE ShieldFilter ----------------------------
(***************************************************************************)
(* The field filter of the shield (shield.py): what a call returns is      *)
(* walked along a tree of dotted paths, once to filter it and once more to *)
(* name what was removed.                                                  *)
(*                                                                         *)
(* A path is the sequence of its segments, a key of a record too: the key  *)
(* <<"card", "cvv">> is literally "card.cvv".  A value is a record of one  *)
(* shape for every kind, so that values of different kinds compare:        *)
(*   kind  none, str, num, dict, list, tuple (in Node: a Set), gen (a      *)
(*         generator), data (a dataclass; in Node: a class instance),      *)
(*         model (Pydantic), named (a named tuple), broken (an object      *)
(*         whose conversion raises)                                        *)
(*   val   the content of a str or num, 0 for "" and for 0                 *)
(*   f     the fields of a record;  e  the elements of a container         *)
(***************************************************************************)
EXTENDS Naturals, Sequences, FiniteSets, SequencesExt

NoFields == [k \in {} |-> 0]
Value(kind, n, fields, elems) == [kind |-> kind, val |-> n, f |-> fields, e |-> elems]

None         == Value("none", 0, NoFields, <<>>)
Str(n)       == Value("str", n, NoFields, <<>>)
Num(n)       == Value("num", n, NoFields, <<>>)
Dict(fields) == Value("dict", 0, fields, <<>>)
List(elems)  == Value("list", 0, NoFields, elems)
Empty        == Str(0)

Collections == {"list", "tuple", "gen"}
Objects     == {"data", "model", "named", "broken"}

-----------------------------------------------------------------------------
\* The tree of a list of paths: a segment leads to the subtree of what follows
\* it, the tree with no segment is a leaf.  A longer path is merged into a
\* shorter one, which then is no leaf any more.
RECURSIVE TreeOf(_)
TreeOf(paths) ==
    [s \in {p[1] : p \in paths} |->
        TreeOf({Tail(p) : p \in {q \in paths : Len(q) > 1 /\ q[1] = s}})]

IsLeaf(tree) == DOMAIN tree = {}

\* A path with a shorter one in the list adds nothing to a list of denials.
Broadest(paths) ==
    {p \in paths : ~ \E q \in paths : q # p /\ IsPrefix(q, p)}

\* Fault: the denials are merged as the permissions are.
ParsePathsMerged(paths, broaderWins) == TreeOf(paths)
ParsePaths(paths, broaderWins) ==
    TreeOf(IF broaderWins THEN Broadest(paths) ELSE paths)

\* Does a key that literally contains dots lead to a leaf of the tree?
RECURSIVE WalkHitsLeaf(_, _)
WalkHitsLeaf(key, tree) ==
    /\ key # <<>>
    /\ key[1] \in DOMAIN tree
    /\ \/ IsLeaf(tree[key[1]])
       \/ WalkHitsLeaf(Tail(key), tree[key[1]])
FlatKeyHitsDenyLeaf(key, tree) == Len(key) > 1 /\ WalkHitsLeaf(key, tree)

InTree(key, tree) == Len(key) = 1 /\ key[1] \in DOMAIN tree

-----------------------------------------------------------------------------
\* Shapes.  A model yields pairs when it is iterated, a named tuple its values.
IsRecordLike(v)  == v.kind \in {"dict"} \cup Objects
IsTraversable(v) == v.kind \in Collections \cup {"model", "named"}

Materialize(v) ==
    CASE v.kind = "model" -> [i \in 1..Cardinality(DOMAIN v.f) |->
                                 Value("tuple", 0, NoFields, <<Str(1)>>)]
      [] v.kind = "named" -> LET keys == SetToSeq(DOMAIN v.f)
                             IN [i \in DOMAIN keys |-> v.f[keys[i]]]
      [] OTHER            -> v.e

\* What the filter takes for a record with fields, and what it cannot convert.
\* asdict and model_dump convert what is inside as well, _asdict does not.
RECURSIVE Dumped(_)
Dumped(v) ==
    [v EXCEPT !.kind = IF @ \in {"data", "model"} THEN "dict" ELSE @,
              !.f    = [k \in DOMAIN @ |-> Dumped(@[k])],
              !.e    = [i \in DOMAIN @ |-> Dumped(@[i])]]
ToFilterable(v) ==
    CASE v.kind \in {"data", "model"} -> Dumped(v)
      [] v.kind = "named"             -> Dict(v.f)
      [] v.kind = "broken"            -> Empty
      [] OTHER                                 -> v

\* Generators become lists, wherever they stand; objects stay as they are.
\* Fault: a generator stays one, and the second walk finds nothing in it.
FreezeNothing(v) == v
RECURSIVE FreezeSinglePass(_)
FreezeSinglePass(v) ==
    CASE v.kind = "dict"           -> Dict([k \in DOMAIN v.f |-> FreezeSinglePass(v.f[k])])
      [] v.kind \in {"list", "gen"} -> List([i \in DOMAIN v.e |-> FreezeSinglePass(v.e[i])])
      [] v.kind = "tuple"          -> [v EXCEPT !.e = [i \in DOMAIN @ |-> FreezeSinglePass(@[i])]]
      [] OTHER                     -> v

\* A record at any depth of a collection: a bare path cannot filter it.
RECURSIVE HoldsRecord(_)
HoldsRecord(v) == IsRecordLike(v) \/ \E i \in DOMAIN v.e : HoldsRecord(v.e[i])

-----------------------------------------------------------------------------
\* The two filters.  A record keeps what the tree says, a list is filtered
\* element by element, anything else leaves an empty string.
RECURSIVE FilterDict(_, _), DenyFilterDict(_, _)

EachElement(v, Filter(_)) == [i \in DOMAIN Materialize(v) |-> Filter(Materialize(v)[i])]

RECURSIVE FilterResult(_, _)
FilterResult(data, tree) ==
    LET v == ToFilterable(data)
        Inner(x) == FilterResult(x, tree)
    IN CASE v.kind = "dict" -> FilterDict(v, tree)
         [] v.kind = "list" -> List(EachElement(v, Inner))
         [] v.kind = "none" -> None
         [] OTHER           -> Empty

\* A leaf of the scope keeps a value without records in it; a longer path
\* keeps a record or a collection, and drops a scalar.
FilterDict(v, tree) ==
    LET Sub(k) == tree[k[1]]
        kept   == {k \in DOMAIN v.f :
                      /\ InTree(k, tree)
                      /\ IF IsLeaf(Sub(k)) THEN ~HoldsRecord(v.f[k])
                         ELSE v.f[k].kind = "dict" \/ IsTraversable(v.f[k])}
        Field(k) ==
            LET x == v.f[k]
                Inner(y) == FilterResult(y, Sub(k))
            IN CASE IsLeaf(Sub(k))  -> x
                 [] x.kind = "dict" -> FilterDict(x, Sub(k))
                 [] OTHER           -> List(EachElement(x, Inner))
    IN Dict([k \in kept |-> Field(k)])

RECURSIVE DenyFilterResult(_, _)
DenyFilterResult(data, tree) ==
    LET v == ToFilterable(data)
        Inner(x) == DenyFilterResult(x, tree)
    IN CASE v.kind = "dict" -> DenyFilterDict(v, tree)
         [] v.kind = "list" -> List(EachElement(v, Inner))
         [] v.kind = "none" -> None
         [] OTHER           -> Empty

\* A key outside the tree stays, unless it is a flattened denied path; a leaf
\* goes; a scalar where a record was expected goes too.
DenyFilterDict(v, tree) ==
    LET Sub(k) == tree[k[1]]
        kept   == {k \in DOMAIN v.f :
                      IF InTree(k, tree)
                      THEN /\ ~IsLeaf(Sub(k))
                           /\ v.f[k].kind = "dict" \/ IsTraversable(v.f[k])
                      ELSE ~FlatKeyHitsDenyLeaf(k, tree)}
        Field(k) ==
            LET x == v.f[k]
                Inner(y) == DenyFilterResult(y, Sub(k))
            IN CASE ~InTree(k, tree) -> x
                 [] x.kind = "dict"  -> DenyFilterDict(x, Sub(k))
                 [] OTHER            -> List(EachElement(x, Inner))
    IN Dict([k \in kept |-> Field(k)])

-----------------------------------------------------------------------------
\* The paths that the second walk finds removed.  Two records are compared key
\* by key, two collections position by position; any other pair says nothing.
\* A generator that is still one was exhausted by the filter.
Left(v) == IF v.kind = "gen" THEN <<>> ELSE Materialize(v)
RECURSIVE CollectRemoved(_, _, _)
CollectRemoved(original, filtered, prefix) ==
    IF original.kind = "dict" /\ filtered.kind = "dict"
    THEN UNION {IF k \notin DOMAIN filtered.f THEN {prefix \o k}
                ELSE CollectRemoved(original.f[k], filtered.f[k], prefix \o k) :
                    k \in DOMAIN original.f}
    ELSE IF IsTraversable(original) /\ IsTraversable(filtered)
    THEN LET o == Left(original)
             g == Left(filtered)
         IN UNION {CollectRemoved(o[i], g[i], prefix) : i \in DOMAIN o \cap DOMAIN g}
    ELSE {}
DiffKeys(original, filtered) == CollectRemoved(original, filtered, <<>>)

-----------------------------------------------------------------------------
\* A specification of a call: whether each list was given, and its paths.
ValidPath(p) == \A i \in DOMAIN p : p[i] # ""

Refused == [data |-> None, keys |-> {}, refused |-> TRUE]
Released(data, keys) == [data |-> data, keys |-> keys, refused |-> FALSE]

\* Exactly one of the two lists, the denials not empty, every path valid: what
\* the decorator asks of its spec, and wrap of its own.
WrapAdmits(spec) ==
    /\ spec.hasScope # spec.hasDeny
    /\ spec.hasDeny => spec.deny # {}
    /\ \A p \in spec.scope \cup spec.deny : ValidPath(p)

Wrapped(value, spec) ==
    LET normalized == FreezeSinglePass(ToFilterable(value))
        filtered   == IF spec.hasDeny
                      THEN DenyFilterResult(normalized, ParsePaths(spec.deny, TRUE))
                      ELSE FilterResult(normalized, ParsePaths(spec.scope, FALSE))
    IN Released(filtered, DiffKeys(normalized, filtered))

Wrap(value, spec) == IF WrapAdmits(spec) THEN Wrapped(value, spec) ELSE Refused

-----------------------------------------------------------------------------
(***************************************************************************)
(* The reference: a value is the set of its facts, the path and content of *)
(* every scalar in it, lists left out of the path.                         *)
(***************************************************************************)
RECURSIVE FactsAt(_, _)
FactsAt(v, p) ==
    CASE v.kind \in {"str", "num"} -> IF v.val = 0 THEN {} ELSE {<<p, v.val>>}
      [] v.kind = "dict" \/ v.kind \in Objects ->
            UNION {FactsAt(v.f[k], p \o k) : k \in DOMAIN v.f}
      [] OTHER -> UNION {FactsAt(v.e[i], p) : i \in DOMAIN v.e}
Facts(v) == FactsAt(v, <<>>)

RECURSIVE RecordsAt(_, _)
RecordsAt(v, p) ==
    (IF IsRecordLike(v) THEN {p} ELSE {})
        \cup UNION {RecordsAt(v.f[k], p \o k) : k \in DOMAIN v.f}
        \cup UNION {RecordsAt(v.e[i], p) : i \in DOMAIN v.e}

\* Every node of a value, and values of records, lists and scalars only.
RECURSIVE Nodes(_)
Nodes(v) == {v} \cup UNION {Nodes(v.f[k]) : k \in DOMAIN v.f}
                \cup UNION {Nodes(v.e[i]) : i \in DOMAIN v.e}
IsJson(v)   == \A n \in Nodes(v) : n.kind \in {"none", "str", "num", "dict", "list"}
IsPlain(v)  == \A n \in Nodes(v) : \A k \in DOMAIN n.f : Len(k) = 1

Comparable(p, q) == IsPrefix(p, q) \/ IsPrefix(q, p)
=============================================================================
