----------------------------- MODULE MCZipFile -----------------------------
(* Instances of ZipFile: contents of one and of two cells.                 *)
EXTENDS ZipFile, TLC

CONSTANTS a, b, short, long

MCNames == {a, b}
MCContents == {short, long}
MCSpan == short :> 1 @@ long :> 2
=============================================================================
