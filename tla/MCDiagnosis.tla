----------------------------- MODULE MCDiagnosis ----------------------------
(***************************************************************************)
(* A ring of three keys, one question for the model and one for the rules. *)
(***************************************************************************)
EXTENDS Diagnosis

CONSTANTS opaque, plain

AllQuestions == {opaque, plain}
BlindQuestions == {opaque}
=============================================================================
