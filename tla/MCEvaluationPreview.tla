------------------------- MODULE MCEvaluationPreview -------------------------
(* Two adapters, three loads; the third request of one adapter exhausts it.  *)
EXTENDS EvaluationPreview

CONSTANTS v1, v2
=============================================================================
