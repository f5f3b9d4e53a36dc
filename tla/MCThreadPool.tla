---------------------------- MODULE MCThreadPool ----------------------------
(* Model-checking instance of ThreadPool: two workers, three session keys  *)
(* (keys 1 and 3 share worker 1, key 2 goes to worker 0), four tasks.      *)
EXTENDS ThreadPool

MCKeys == {1, 2, 3}
=============================================================================
