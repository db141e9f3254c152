------------------------- MODULE MCInferenceService -------------------------
(* InferenceService on small sets. *)
EXTENDS InferenceService, TLC

CONSTANTS archive, model, nodePack, o1, o2

\* A model and a custom node, in the order of the manifest.
ProfileOrder == <<model, nodePack>>

\* The identities of operations are interchangeable: o1 is begun first.
BegunInOrder == Exists(o2) => Exists(o1)
=============================================================================
