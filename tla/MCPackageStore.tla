--------------------------- MODULE MCPackageStore ---------------------------
(* PackageStore on small instances: the symmetry of the TLC configurations. *)
EXTENDS PackageStore, TLC

MCSymmetry == Permutations(Packages) \union Permutations(Blobs)
                \union Permutations(Uploads) \union Permutations(Deletions)
=============================================================================
