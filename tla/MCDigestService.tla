--------------------------- MODULE MCDigestService ---------------------------
(* Small instances of DigestService for TLC. *)
EXTENDS DigestService
MCUpdates == 1..3
MCTied == <<1, 2, 2>>
MCDistinct == <<1, 2, 3>>
=============================================================================
