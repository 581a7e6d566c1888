---------------------------- MODULE MCProxyCache ----------------------------
(* The proxy with a few interchangeable connections and URLs. *)
EXTENDS ProxyCache, TLC

HandlerSymmetry == Permutations(Handlers)
BothSymmetry == Permutations(Handlers) \union Permutations(URLs)
=============================================================================
