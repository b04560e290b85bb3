---------------------------- MODULE MCThreadPool ----------------------------
(* TLC instance of ThreadPool: the pool of init_thread_pool(2)             *)
(* (PiVisAlgoCtrl.c:66) with more queue items than threads, so that jobs   *)
(* wait, threads are reused and sched_job finds the pool full.             *)
EXTENDS ThreadPool

CONSTANTS j1, j2, j3

MCJobs == {j1, j2, j3}
=============================================================================
