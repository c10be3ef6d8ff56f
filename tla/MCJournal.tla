----------------------------- MODULE MCJournal -----------------------------
(* A small instance of Journal for TLC. *)
EXTENDS Journal, TLC

CONSTANTS p1, p2, c1, c2, o1, o2, s1, s2

Symmetric == Permutations(Proc) \cup Permutations(Config) \cup Permutations(Op) \cup
             Permutations(State)
====
