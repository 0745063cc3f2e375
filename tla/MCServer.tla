-------------------------------- MODULE MCServer --------------------------------
(* Server for TLC: workers and connections are interchangeable.              *)
EXTENDS Server, TLC

Symmetry == Permutations(Worker) \cup Permutations(Conn)
================================================================================
