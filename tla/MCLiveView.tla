----------------------------- MODULE MCLiveView -----------------------------
(***************************************************************************)
(* Instances of LiveView for TLC: symmetry for the safety runs.            *)
(***************************************************************************)
EXTENDS LiveViewInvariant, TLC

Symmetry == Permutations(RequestIds) \cup Permutations(EndpointIds)
                \cup Permutations(Streams) \cup Permutations(Conns)
=============================================================================
