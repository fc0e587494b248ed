----------------------------- MODULE MCDownload -----------------------------
EXTENDS Download

CONSTANT MaxLen  \* bound: the length of a body

MCBodies == UNION {[1..n -> Letter \union {SP}] : n \in 1..MaxLen}
=============================================================================
