---------------------------- MODULE MCArchiveStore ----------------------------
(* Small instances of ArchiveStore for TLC: a document per name, and another   *)
(* one of the same name.                                                       *)
EXTENDS ArchiveStore
MCNameFour == [d1 |-> 1, d2 |-> 2, d3 |-> 3, d4 |-> 4, e3 |-> 3]
MCNameFive == [d1 |-> 1, d2 |-> 2, d3 |-> 3, d4 |-> 4, d5 |-> 5]
=============================================================================
