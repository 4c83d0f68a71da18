---------------------------- MODULE MCCompileCache ----------------------------
(* A small instance of CompileCache: models, programs and schedulers are      *)
(* interchangeable.  Five programs are enough for two models, with two texts  *)
(* each, and a program that is still paired or current.                       *)
EXTENDS CompileCache, TLC

CONSTANTS m1, m2, p1, p2, p3, p4, p5, s1, s2

Interchangeable ==
    Permutations({m1, m2}) \cup Permutations({p1, p2, p3, p4, p5}) \cup Permutations({s1, s2})
=============================================================================
