----------------------------- MODULE MCDigestRun -----------------------------
(* Small instance of DigestRun for TLC: five targets, two of them published *)
(* in the same second and the last one without a date.                      *)
EXTENDS DigestRun
MCDate == <<1, 2, 2, 3, 0>>
=============================================================================
