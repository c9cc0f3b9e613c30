---------------------------- MODULE MCFilterCalls ---------------------------
(* Values two records deep, lists of up to two elements, every kind.        *)
EXTENDS FilterCalls

A == <<"a">>
B == <<"b">>
Scalars == {Str(1), Num(2), None}
Flat(x) == [k \in {A} |-> x]
Two(x, y) == [k \in {A, B} |-> IF k = A THEN x ELSE y]

\* Records whose second field is a scalar, a flattened key among them.
Fields == {NoFields} \cup {Flat(x) : x \in Scalars}
    \cup {Two(x, Str(3)) : x \in {Num(2), Dict(Flat(Str(1))), List(<<Dict(Two(Num(1), Str(2)))>>)}}
    \cup {[k \in {A \o B, B} |-> IF k = B THEN Num(4) ELSE Str(1)]}

Objs == {Value(k, 0, Two(Str(1), Num(2)), <<>>) : k \in Objects}
Elements == Scalars \cup {Dict(f) : f \in Fields} \cup Objs
    \cup {List(<<Num(1)>>), List(<<Dict(Flat(Num(2)))>>)}
Containers == {Value(k, 0, NoFields, <<x>>) : k \in Collections, x \in Elements}
    \cup {List(<<x, y>>) : x, y \in {Num(1), Dict(Two(Num(1), Str(2))), None, Dict(Flat(List(<<Num(5)>>)))}}

MCInputs == Elements \cup Containers
    \cup {Dict(Two(x, Str(7))) : x \in Elements \cup Containers}

MCScopes == {{}, {A}, {B}, {A, B}, {A \o A}, {A \o A, B}, {A, A \o B}, {A \o A, A \o B},
             {A \o A \o A, A \o B}, {<<"">>}}
MCDenials == {{}, {A}, {B}, {A \o A}, {A \o B}, {A, A \o B}, {A \o A, B},
              {A \o A \o B, A \o B}, {A \o A \o A}, {<<"a", "">>}}
=============================================================================
