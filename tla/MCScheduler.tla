---------------------------- MODULE MCScheduler ----------------------------
(* One job, one or two concurrent requests.                                *)
EXTENDS Scheduler

CONSTANTS j1, h1, h2, g1, g2, e1, e2, e3

MCJob1 == {j1}
MCHandler == {h1, h2}
MCHandler1 == {h1}
MCRoutine1 == {g1}
MCRoutine == {g1, g2}
MCElem == {e1, e2, e3}
AllOps == {"create", "run", "update", "enable", "disable", "remove"}
=============================================================================
