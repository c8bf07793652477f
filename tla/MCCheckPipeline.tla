--------------------------- MODULE MCCheckPipeline ---------------------------
(***************************************************************************)
(* Values for the constants of CheckPipeline that a configuration cannot   *)
(* write down.                                                             *)
(***************************************************************************)
EXTENDS CheckPipeline

\* A failure without a body, a body whose status is null, and one that says
\* "Healthy".
MCAnswers == {[status |-> "InternalServerError", inner |-> NoInner],
              [status |-> "OK", inner |-> ""],
              [status |-> "OK", inner |-> "Healthy"]}
=============================================================================
