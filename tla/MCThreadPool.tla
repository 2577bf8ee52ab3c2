---------------------------- MODULE MCThreadPool ----------------------------
(* Three tasks on two threads: one thread must take two of them, and both  *)
(* can be parked, running or being joined when a task arrives.             *)
EXTENDS ThreadPool
=============================================================================
