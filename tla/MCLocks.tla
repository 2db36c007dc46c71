------------------------------ MODULE MCLocks ------------------------------
(* Two commands at a time over keys that share a stripe and keys that do   *)
(* not.                                                                    *)
EXTENDS Locks, TLC

CONSTANTS a, b, c, t1, t2

MCThread2 == {t1, t2}
MCKey == {a, b, c}
MCStripe == 0..1
MCSpread == (a :> 0 @@ b :> 1 @@ c :> 0)
=============================================================================
