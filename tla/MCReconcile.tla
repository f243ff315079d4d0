------------------------------ MODULE MCReconcile ------------------------------
(* Small instances of Reconcile: the documents the cloud may ask for in each   *)
(* run.                                                                        *)
EXTENDS Reconcile

CONSTANTS V1, V2, V3

TwoVersions   == {V1, V2}
ThreeVersions == {V1, V2, V3}

\* A package alone, a bundle alone, and both.
Pkg(v)     == [package |-> v, revision |-> 0]
Bnd(r)     == [package |-> NoVersion, revision |-> r]
Both(v, r) == [package |-> v, revision |-> r]

PackagesAndBundles == {Pkg(V2), Both(V1, 2), Both(V2, 1)}
WithEmpty          == PackagesAndBundles \cup {Pkg(NoVersion)}
Packages           == {Pkg(V1), Pkg(V2)}
ThreePackages      == {Pkg(V1), Pkg(V2), Pkg(V3)}
PackageThenBoth    == {Pkg(V2), Both(V2, 1)}
BothThenBundle     == {Both(V2, 1), Bnd(2)}
OnePackage         == {Pkg(V2)}
Bundles            == {Bnd(1), Bnd(2)}
===============================================================================
