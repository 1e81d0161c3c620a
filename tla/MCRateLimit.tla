---------------------------- MODULE MCRateLimit ----------------------------
(***************************************************************************)
(* The rate limiter with short windows: the proportions of the shipped     *)
(* limits are kept where they matter (scopes of different lengths, enroll  *)
(* the longest, the two limits of pay different).                          *)
(***************************************************************************)
EXTENDS RateLimit, TLC

Limit(max_hits, window_seconds) ==
  [max_hits |-> max_hits, window_seconds |-> window_seconds]

ShortLimits ==
  [scope \in Scopes |->
     CASE scope = "pay_by_hint" -> Limit(1, 2)
       [] scope = "pay_by_terminal" -> Limit(2, 1)
       [] scope = "enroll" -> Limit(1, 3)
       [] scope = "capture_check" -> Limit(1, 1)]

Symmetry == Permutations(Workers)
=============================================================================
