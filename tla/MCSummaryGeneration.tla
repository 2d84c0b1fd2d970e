------------------------ MODULE MCSummaryGeneration ------------------------
EXTENDS SummaryGeneration

MCThreadOf == [t \in Turns |-> IF t < 3 THEN "x" ELSE "y"]
MCOwnerOf == [h \in Threads |-> IF h = "x" THEN "a" ELSE "b"]
============================================================================
