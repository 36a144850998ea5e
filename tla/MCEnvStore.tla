----------------------------- MODULE MCEnvStore -----------------------------
(* Constants for model checking EnvStore: three variables, of which ethaddr *)
(* is write-once, and room beside it for two short entries or a long one.   *)
EXTENDS EnvStore, TLC

MCDefault == "ethaddr" :> "short"
MCLen == "short" :> 2 @@ "long" :> 4 @@ "bad" :> 2
MCUnsupported == {<<"a", "bad">>}
=============================================================================
