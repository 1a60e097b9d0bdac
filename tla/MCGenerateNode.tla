---------------------------- MODULE MCGenerateNode ----------------------------
EXTENDS GenerateNode

(* Two names that are array indices, out of numeric order as strings, and  *)
(* two that are not; "" is what a trailing blank leaves in parts[6].       *)
MCTokens == {"n1", "n2", "10", "2", ""}

MCIndexValue ==
  [k \in {"n1", "n2", "10", "2", "", "undefined"} |->
     CASE k = "10" -> 10
       [] k = "2"  -> 2
       [] OTHER    -> -1]
=============================================================================
