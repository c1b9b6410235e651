----------------------------- MODULE MCRpcService -----------------------------
(***************************************************************************)
(* The main thread registers two methods with one builder, another thread  *)
(* a third and, again and differently, the first, then without setting any *)
(* parameters.                                                             *)
(***************************************************************************)
EXTENDS RpcService

MCPlan == [r \in {"main", "late"} |->
  IF r = "main"
  THEN << [name |-> "add", params |-> <<<<"x", "INTERGRAL">>, <<"y", "NUMERIC">>>>,
           type |-> "INTERGRAL", callback |-> {"int"}],
          [name |-> "echo", params |-> <<<<"x", "STRING">>>>,
           type |-> "STRING", callback |-> {"string", "null"}] >>
  ELSE << [name |-> "late", params |-> <<<<"x", "STRING">>>>,
           type |-> "OBJECT", callback |-> {"object"}],
          [name |-> "add", params |-> <<>>, type |-> "BOOL", callback |-> {"bool"}] >>]

MCParamSets ==
  {<<>>,
   [p \in {"x"} |-> "string"],
   [p \in {"x", "y"} |-> IF p = "x" THEN "whole" ELSE "real"],
   [p \in {"x", "y"} |-> IF p = "x" THEN "int" ELSE "null"]}

=============================================================================
