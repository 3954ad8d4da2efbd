----------------------------- MODULE MCPropArea -----------------------------
(* Instances of PropArea for TLC.                                           *)
EXTENDS PropArea

CONSTANTS a, b, p1, p2, r1

MCBytes == {a, b}
\* Strings of different lengths that differ in every byte.
MCValues == {<<a>>, <<b, b>>}
MCProps2 == {p1, p2}
MCReaders1 == {r1}

=============================================================================
