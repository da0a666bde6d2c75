------------------------------- MODULE MCMemory -------------------------------
(* An address space of 32 bytes with three regions, words of two bytes, and *)
(* requests that are empty, fit, fill a region or are negative.             *)
EXTENDS Memory, TLC

MCRegion == {"text", "data", "stack"}
MCStart == "text" :> 2 @@ "data" :> 8 @@ "stack" :> 24
MCSize == "text" :> 4 @@ "data" :> 8 @@ "stack" :> 4
===============================================================================
