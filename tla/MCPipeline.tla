------------------------------- MODULE MCPipeline -------------------------------
(* Instances of Pipeline for TLC. *)
EXTENDS Pipeline, TLC

CONSTANTS s1, s2, b1, b2, p1, p2, p3, x1

\* All batches have the same content.
MCPieceOf == [b \in Batches |-> x1]

Prepared(rep, providers, carURL) ==
    [rep |-> rep, providers |-> providers, piece |-> x1, carURL |-> carURL]

\* Copies with any provider, or one with a targeted provider; two copies, both with
\* targeted providers.
MCInputs == {Prepared(0, {}, TRUE), Prepared(1, Providers, TRUE)}
MCTargetedInputs == {Prepared(2, Providers, TRUE)}

MCSymmetry == Permutations(Providers) \union Permutations(StorageRequests)
================================================================================
