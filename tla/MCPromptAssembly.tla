--------------------------- MODULE MCPromptAssembly ---------------------------
(* The instance of PromptAssembly that MCSteps has.                            *)
EXTENDS PromptAssembly, TLC

Lengths == "" :> 0 @@ "hi" :> 4 @@ "salam" :> 5
TwoTunings == {[ctx |-> 12, predict |-> 3], [ctx |-> 5, predict |-> -1]}
=============================================================================
