------------------------- MODULE MCFeatureExpansion -------------------------
(* Instances of FeatureExpansion for model checking. *)
EXTENDS FeatureExpansion, TLC

\* 1 is a platform, 2 an element or a second platform, 3 a flag; 4 has no info.yaml.
Others(f) == (1 .. 3) \ {f}

\* Lists of up to two other features; one may include itself, or a feature that does not exist.
ListsOf(f) ==
    {<<>>} \cup {<<g>> : g \in Others(f)} \cup {s \in Others(f) \X Others(f) : s[1] # s[2]}
           \cup (IF f = 3 THEN {<<3>>, <<2, 4>>} ELSE {})

AllIncludes ==
    {(1 :> a) @@ (2 :> b) @@ (3 :> c) @@ (4 :> <<>>) :
        a \in ListsOf(1), b \in ListsOf(2), c \in ListsOf(3)}

SomeExcludes == {[f \in 1 .. 4 |-> {}], [f \in 1 .. 4 |-> IF f = 3 THEN {2} ELSE {}]}

SomeTypes ==
    {(1 :> "platform") @@ (2 :> t) @@ (3 :> "flag") @@ (4 :> "flag") : t \in {"element", "platform"}}

SomeIgnores == {{}, {2}, {3}}

SomeRequests == {<<1>>, <<2, 1>>, <<1, 2>>, <<1, 3, 2>>, <<3, 1, 3>>, <<4>>}
=============================================================================
