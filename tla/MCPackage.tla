----------------------------- MODULE MCPackage -----------------------------
(* Instances of Package: two files that share a name in the archive, a     *)
(* resource table that is generated, and a class.                          *)
EXTENDS Package, TLC

CONSTANTS x, xgz, table, class

MCFiles == {x, xgz, table}
MCGenerated == {table}
MCClasses == {class}
MCNameOf == x :> "x" @@ xgz :> "x" @@ table :> "table"
=============================================================================
