----------------------------- MODULE MCScriptValues -------------------------------
(***********************************************************************************)
(* Instances of ScriptValues: a scalar, a table of two pairs, and a table that     *)
(* holds another.                                                                  *)
(***********************************************************************************)
EXTENDS ScriptValues

MCTables ==
    [colours |-> <<Pair("sky", "blue"), Pair("grass", "green")>>,
     nested  |-> <<Pair("inner", "colours")>>]
MCGlobals == {"number", "colours", "nested"}
===================================================================================
