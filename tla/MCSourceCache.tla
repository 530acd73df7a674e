--------------------------- MODULE MCSourceCache ---------------------------
(***************************************************************************)
(* Instances of SourceCache for TLC: Source0, which `stage` also writes,   *)
(* and a Source1.                                                          *)
(***************************************************************************)
EXTENDS SourceCache

CONSTANTS tarball, overlay

Main == [i \in Sources |-> IF i = 1 THEN tarball ELSE overlay]
=============================================================================
