----------------------------- MODULE FilterCalls ----------------------------
(***************************************************************************)
(* The wrap of both SDKs called with the same value and the same lists.    *)
(***************************************************************************)
EXTENDS NodeFilter

CONSTANTS Inputs,   \* the values
          Scopes,   \* the sets of paths given as scope
          Denials   \* the sets of paths given as deny list

VARIABLES value, spec,
          python, node   \* the results, Pending before the call
vars == <<value, spec, python, node>>

Pending == [data |-> None, keys |-> {}, refused |-> FALSE, pending |-> TRUE]
Done(r) == r # Pending

Specs == [hasScope: {TRUE}, scope: Scopes, hasDeny: {FALSE}, deny: {{}}]
    \cup [hasScope: {FALSE}, scope: {{}}, hasDeny: {TRUE}, deny: Denials]
    \cup [hasScope: {TRUE}, scope: {{<<"a">>}}, hasDeny: {TRUE}, deny: {{<<"b">>}}]
    \cup [hasScope: {FALSE}, scope: {{}}, hasDeny: {FALSE}, deny: {{}}]

Init ==
    /\ value \in Inputs
    /\ spec \in Specs
    /\ python = Pending /\ node = Pending

PythonWraps ==
    /\ ~Done(python)
    /\ python' = Wrap(value, spec)
    /\ UNCHANGED <<value, spec, node>>

\* Python's object kinds do not occur in a Node program.
NodeWraps ==
    /\ ~Done(node)
    /\ \A n \in Nodes(value) : n.kind \in NodeKinds
    /\ node' = NodeWrap(value, spec)
    /\ UNCHANGED <<value, spec, python>>

Next == PythonWraps \/ NodeWraps
Spec == Init /\ [][Next]_vars

-----------------------------------------------------------------------------
Released1(r) == Done(r) /\ ~r.refused

\* Minimum disclosure under a scope, in both SDKs: every scalar that is
\* released stands at a path of the scope that no longer path of the scope
\* narrows.  (filter and _filter_dict, whatever the nesting of lists, tuples,
\* generators and objects)
ScopeDiscloses ==
    \A r \in {python, node} : Released1(r) /\ spec.hasScope =>
        \A fact \in Facts(r.data) :
            /\ fact \in Facts(value)
            /\ fact[1] \in spec.scope
            /\ ~ \E q \in spec.scope : q # fact[1] /\ IsPrefix(fact[1], q)

\* No scalar at or below a denied path is released, be the path nested in the
\* value or flattened into one key of it, and however the deny list is ordered
\* or overlaps.  Flattened keys lead to scalars here.
DenyHides ==
    \A r \in {python, node} : Released1(r) /\ spec.hasDeny =>
        \A fact \in Facts(r.data) : ~ \E d \in spec.deny : IsPrefix(d, fact[1])

\* Nothing else is lost: of a plain value, what the scope names exactly and
\* what the deny list neither contains nor reaches through is released.
NothingElseIsLost ==
    Released1(python) /\ IsJson(value) /\ IsPlain(value) =>
        \A fact \in Facts(value) :
            fact \in Facts(python.data) \/
            (IF spec.hasDeny
             THEN \E d \in spec.deny : Comparable(d, fact[1])
             ELSE \/ fact[1] \notin spec.scope
                  \/ \E q \in spec.scope : q # fact[1] /\ IsPrefix(fact[1], q)
                  \/ fact[1] \in {p \in spec.scope : p \in RecordsAt(value, <<>>)})

\* What a filter releases, exactly.
ReleaseIsExact == ScopeDiscloses /\ DenyHides /\ NothingElseIsLost

\* The lists of a value hold nothing but records and text.
ListsOfRecords(v) ==
    \A n \in Nodes(v) : \A i \in DOMAIN n.e : n.e[i].kind \in {"dict", "none"} \/ n.e[i] = Empty

\* What was taken away is named: every scalar that did not come through lies
\* at or below a path of the list of removed keys.  For this the lists (and in
\* Python the generators) may hold records only; see README, section 5, for
\* what holds of the others.
RemovedIsNamed ==
    \A r \in {python, node} :
        /\ Released1(r)
        /\ \A n \in Nodes(value) :
               n.kind \in {"none", "str", "num", "dict", "list"}
                             \cup (IF r = python THEN {"gen"} ELSE {})
        /\ value.kind \in {"dict", "list"}
        /\ ListsOfRecords(value)
        => \A fact \in Facts(value) \ Facts(r.data) : \E p \in r.keys : IsPrefix(p, fact[1])

\* The two SDKs give the same answer for a value whose lists hold records.
SameForRecords ==
    Released1(python) /\ Released1(node) /\ IsJson(value)
        /\ value.kind \in {"dict", "list"} /\ ListsOfRecords(value)
        => node = python

\* shared conformance corpus, docs/productization/LITE_CLAIMS.md:36: "The LITE
\* filtering of `wrap()` produces identical output across SDKs (same `data` and
\* same removed-key SET)".  Violated by a number in a list.
SameForAll == Released1(python) /\ Released1(node) /\ IsJson(value) => node = python

\* shield.py:1330: "Normalize once so both the filter and the audit diff see
\* the same dict shape ... [else] silently lose the audit trail".  Violated by
\* a list of objects.
RemovedIsAlwaysNamed ==
    Released1(python) =>
        \A fact \in Facts(value) \ Facts(python.data) : \E p \in python.keys : IsPrefix(p, fact[1])
=============================================================================
