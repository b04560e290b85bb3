----------------------------- MODULE MCAlgoCtrl -----------------------------
(* TLC instance of AlgoCtrl: init_thread_pool(2) (PiVisAlgoCtrl.c:66), two *)
(* queue items (a worker may still hold the finished one when the next is  *)
(* submitted) and images of two parts, the least that can be torn.         *)
EXTENDS AlgoCtrl, TLC

CONSTANTS j1, j2, f1, f2

MCJobs == {j1, j2}
MCFrames == {f1, f2}
MCOneFrame == {f1}
MCSymmetry == Permutations(MCJobs) \cup Permutations(MCFrames)
=============================================================================
