----------------------------- MODULE MCLinearScan -----------------------------
EXTENDS LinearScan, TLC
MCRanges == {"a", "b", "c"}
MCSize == [r \in MCRanges |-> CASE r = "a" -> 1 [] r = "b" -> 2 [] OTHER -> 3]
MCAlignment == [r \in MCRanges |-> IF r = "b" THEN 1 ELSE 2]
MCReserved == {[begin |-> 3, end |-> 4]}
==============================================================================
