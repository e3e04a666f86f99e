------------------------------ MODULE MCServices ------------------------------
(***************************************************************************)
(* Two ModelServices with the names the code gives their children.         *)
(***************************************************************************)
EXTENDS MCModelService, Services

SomePieces == {"a", "epp", "-", "."}

\* All names of up to four pieces.
SomeNames == {n \in UNION {[1..k -> SomePieces] : k \in 1..4} : Subdomain(n)}

NameOf == [m \in ModelServices |-> IF m = m1 THEN <<"a", ".", "a">> ELSE <<"a", "-", "epp">>]

\* The objects that the slots of each ModelService are named after.
NamedObjectOf(used) ==
    [m \in ModelServices |->
       [s \in Slots |-> IF s \in used THEN <<KindOf(s), ChildName(NameOf[m], s)>>
                                      ELSE <<m, "unused">>]]

NamedRoutesOf == NamedObjectOf({"httpRoute"})
NamedRoutes == Names(NamedRoutesOf)
=============================================================================
