--------------------------- MODULE MCPackageCache ---------------------------
(* PackageCache on small instances: the constants of the TLC               *)
(* configurations.                                                         *)
EXTENDS PackageCache

CONSTANTS a, b, c

(* The cache has room for two of the packages a and b and c. *)
MCSizes == [pkg \in Packages |-> IF pkg = c THEN 2 ELSE 1]
=============================================================================
