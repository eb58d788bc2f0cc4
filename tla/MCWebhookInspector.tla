------------------------- MODULE MCWebhookInspector -------------------------
(***************************************************************************)
(* Instances of WebhookInspector for TLC: symmetry for the safety runs.    *)
(***************************************************************************)
EXTENDS CoreInvariant, TLC

Symmetry == Permutations(RequestIds) \cup Permutations(EndpointIds)
                \cup Permutations(Cleaners) \cup Permutations(Tokens \ ReservedSlugs)
=============================================================================
