---------------------------- MODULE MCWorkerPool ----------------------------
(* A small instance of WorkerPool: two workers, one poller, and beside the *)
(* writer three other users of the store (say purge, wipe and an insert),  *)
(* so that the store alone can take both workers.                          *)
EXTENDS WorkerPool

CONSTANTS cpu, c1, c2, c3
OnePoller == {cpu}
ThreeCallers == {c1, c2, c3}
=============================================================================
