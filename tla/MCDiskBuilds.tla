----------------------------- MODULE MCDiskBuilds -----------------------------
(* Two entries that fit, data that may outgrow the image, and two programs   *)
(* that are built under one stem.                                            *)
EXTENDS DiskBuilds, TLC

E(s, n) == [src |-> s, name |-> n]

MCManifests == {<<E("left.s", "a"), E("data", "b")>>,
                <<E("data", "b"), E("right.s", "a")>>,
                <<E("right.s", "a"), E("right.bas", "b")>>}

Interchangeable == Permutations(Builders)
=============================================================================
