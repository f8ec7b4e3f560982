------------------------- MODULE MCRequestPipeline -------------------------
(* Instances of RequestPipeline for TLC: what the flags and the Format1     *)
(* configuration say about the audited resource.                           *)
EXTENDS RequestPipeline

NoMetadata == Blank
FlagNamesNamespace == [name |-> NoValue, namespace |-> "b"]
Format1Names == [name |-> "a", namespace |-> NoValue]
=============================================================================
