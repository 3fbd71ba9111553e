---------------------------- MODULE MCBenchSetup ----------------------------
(* Three of the nine programs, all of them built.                          *)
EXTENDS BenchSetup

MCAll == Programs
=============================================================================
