---------------------------- MODULE MCCheckQueue ----------------------------
(* Batches of one and of three checks, with or without a failure.          *)
EXTENDS CheckQueue

CONSTANTS w1, w2

MCBatches == {<<>>, <<TRUE>>, <<FALSE>>, <<TRUE, TRUE, TRUE>>, <<TRUE, FALSE, TRUE>>}
=============================================================================
