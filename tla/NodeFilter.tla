----------------------------- MODULE NodeFilter -----------------------------
(***************************************************************************)
(* The field filter of the Node SDK (filter.ts, paths.ts, and the wrap and *)
(* runFilter of shield.ts), over the same values as ShieldFilter, whose    *)
(* path trees it shares.  Where it differs from the Python filter:         *)
(*  - a scalar that cannot be filtered leaves the empty value of its own   *)
(*    type, not always an empty string;                                    *)
(*  - at the top, a list is filtered one level deep;                       *)
(*  - a scope and a deny list may be given together;                       *)
(*  - a class instance is converted in the second walk as in the first,    *)
(*    and a generator counts as a record.                                  *)
(***************************************************************************)
EXTENDS ShieldFilter

NodeKinds == {"none", "str", "num", "dict", "list", "tuple", "gen", "data"}

\* paths.ts is a line by line port, on trees without a prototype.
NodeParsePaths(paths, broaderWins) == ParsePaths(paths, broaderWins)
NodeFlatKeyHits(key, tree)         == FlatKeyHitsDenyLeaf(key, tree)

NodeIsRecordLike(v)  == v.kind \in {"dict", "data", "gen"}
NodeIsTraversable(v) == v.kind \in Collections

RECURSIVE NodeFreeze(_)
NodeFreeze(v) ==
    IF v.kind \in {"dict", "list", "tuple"}
    THEN [v EXCEPT !.f = [k \in DOMAIN @ |-> NodeFreeze(@[k])],
                   !.e = [i \in DOMAIN @ |-> NodeFreeze(@[i])]]
    ELSE v

\* A class instance becomes its own properties; a generator has none.
NodeToFilterable(v) == IF v.kind \in {"data", "gen"} THEN Dict(v.f) ELSE v

RECURSIVE NodeHoldsRecord(_)
NodeHoldsRecord(v) == NodeIsRecordLike(v) \/ \E i \in DOMAIN v.e : NodeHoldsRecord(v.e[i])

EmptyFor(v) ==
    CASE v.kind = "str"  -> Str(0)
      [] v.kind = "num"  -> Num(0)
      [] v.kind = "list" -> List(<<>>)
      [] v.kind = "dict" -> Dict(NoFields)
      [] OTHER           -> None

Mapped(v, Filter(_)) == List([i \in DOMAIN v.e |-> Filter(v.e[i])])

RECURSIVE NodeFilterDict(_, _), NodeFilterResult(_, _)
NodeFilterResult(data, tree) ==
    LET v == NodeToFilterable(data)
        Inner(x) == NodeFilterResult(x, tree)
    IN CASE v.kind = "dict" -> NodeFilterDict(v, tree)
         [] v.kind = "list" -> Mapped(v, Inner)
         [] OTHER           -> EmptyFor(data)

NodeFilterDict(v, tree) ==
    LET Sub(k) == tree[k[1]]
        kept   == {k \in DOMAIN v.f :
                      /\ InTree(k, tree)
                      /\ IF IsLeaf(Sub(k)) THEN ~NodeHoldsRecord(v.f[k])
                         ELSE v.f[k].kind = "dict" \/ NodeIsTraversable(v.f[k])}
        Field(k) ==
            LET x == v.f[k]
                Inner(y) == NodeFilterResult(y, Sub(k))
            IN CASE IsLeaf(Sub(k))  -> IF NodeIsTraversable(x) THEN List(x.e) ELSE x
                 [] x.kind = "dict" -> NodeFilterDict(x, Sub(k))
                 [] OTHER           -> Mapped(x, Inner)
    IN Dict([k \in kept |-> Field(k)])

RECURSIVE NodeDenyFilterDict(_, _), NodeDenyFilterResult(_, _)
NodeDenyFilterResult(data, tree) ==
    LET v == NodeToFilterable(data)
        Inner(x) == NodeDenyFilterResult(x, tree)
    IN CASE v.kind = "dict" -> NodeDenyFilterDict(v, tree)
         [] v.kind = "list" -> Mapped(v, Inner)
         [] OTHER           -> EmptyFor(data)

NodeDenyFilterDict(v, tree) ==
    LET Sub(k) == tree[k[1]]
        kept   == {k \in DOMAIN v.f :
                      IF InTree(k, tree)
                      THEN /\ ~IsLeaf(Sub(k))
                           /\ v.f[k].kind = "dict" \/ NodeIsTraversable(v.f[k])
                      ELSE ~NodeFlatKeyHits(k, tree)}
        Field(k) ==
            LET x == v.f[k]
                Inner(y) == NodeDenyFilterResult(y, Sub(k))
            IN CASE ~InTree(k, tree) -> x
                 [] x.kind = "dict"  -> NodeDenyFilterDict(x, Sub(k))
                 [] OTHER            -> Mapped(x, Inner)
    IN Dict([k \in kept |-> Field(k)])

\* One of the two filters at the top: a record, or the records of a list.
TopLevel(v, Filter(_), otherwise) ==
    LET Item(x) == LET it == NodeToFilterable(x)
                   IN IF it.kind = "dict" THEN Filter(it) ELSE EmptyFor(it)
    IN CASE v.kind = "dict" -> Filter(v)
         [] v.kind = "list" -> Mapped(v, Item)
         [] OTHER           -> otherwise

\* Fault: an empty scope counts as no scope.
RunFilterByLength(data, spec) ==
    LET v == NodeToFilterable(data)
        Allowed(x) == NodeFilterDict(x, NodeParsePaths(spec.scope, FALSE))
        Undenied(x) == NodeDenyFilterDict(x, NodeParsePaths(spec.deny, TRUE))
        scoped == IF spec.scope # {} THEN TopLevel(v, Allowed, Empty) ELSE v
    IN IF spec.deny # {} THEN TopLevel(scoped, Undenied, EmptyFor(scoped)) ELSE scoped
RunFilter(data, spec) ==
    LET v == NodeToFilterable(data)
        Allowed(x) == NodeFilterDict(x, NodeParsePaths(spec.scope, FALSE))
        Undenied(x) == NodeDenyFilterDict(x, NodeParsePaths(spec.deny, TRUE))
        scoped == IF spec.hasScope THEN TopLevel(v, Allowed, Empty) ELSE v
    IN IF spec.deny # {} THEN TopLevel(scoped, Undenied, EmptyFor(scoped)) ELSE scoped

\* The second walk goes into records and lists, and converts on the way.
RECURSIVE NodeDiff(_, _, _)
NodeDiff(original, filtered, prefix) ==
    LET o == NodeToFilterable(original)
        g == NodeToFilterable(filtered)
        fields == IF g.kind = "dict" THEN g.f ELSE NoFields
    IN CASE o.kind = "dict" ->
              UNION {CASE k \notin DOMAIN fields -> {prefix \o k}
                       [] o.f[k].kind \in {"dict", "list"} ->
                             NodeDiff(o.f[k], fields[k], prefix \o k)
                       [] OTHER -> {} : k \in DOMAIN o.f}
         [] o.kind = "list" /\ g.kind = "list" ->
              UNION {NodeDiff(o.e[i], g.e[i], prefix) : i \in DOMAIN o.e \cap DOMAIN g.e}
         [] OTHER -> {}

NodeWrap(value, spec) ==
    IF ~spec.hasScope /\ spec.deny = {} THEN Refused
    ELSE LET filtered == RunFilter(value, spec)
         IN Released(filtered, NodeDiff(NodeFreeze(value), filtered, <<>>))
=============================================================================
