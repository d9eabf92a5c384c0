--------------------------------- MODULE MCApi ---------------------------------
(* Api for TLC: servers, clients and the goroutines of a client are interchangeable. *)
EXTENDS Api

Symmetry == Permutations(Server) \cup Permutations(Client) \cup Permutations(Goroutine)
================================================================================
