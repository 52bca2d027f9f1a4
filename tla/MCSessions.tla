---------------------------- MODULE MCSessions ----------------------------
(* Instances of Sessions.  Two names and one request thread show what one  *)
(* session may do to another; one name with a crash shows the start of the *)
(* server and what must eventually happen.                                 *)
EXTENDS Sessions, TLC
CONSTANTS claude, codex, c1, c2
OneAgent  == [c \in Convs |-> claude]
TwoAgents == c1 :> claude @@ c2 :> codex
Symmetric == Permutations(Names) \cup Permutations(Convs) \cup Permutations(Threads)
=============================================================================
