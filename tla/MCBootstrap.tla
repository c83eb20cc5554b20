---------------------------- MODULE MCBootstrap ----------------------------
(* Instances of Bootstrap for TLC: two nodes, the namespace of Flux and    *)
(* one more, a secret file that exists and one that does not.              *)
EXTENDS Bootstrap
=============================================================================
