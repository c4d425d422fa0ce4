------------------------ MODULE MCHistorySynchronizer ------------------------
(* A line with a shortcut: 3 follows 2 and 1, so that one of its           *)
(* predecessors may be known, and requested, while the other is not.       *)
EXTENDS HistorySynchronizer

MCPrevOf == <<{}, {1}, {1, 2}>>
=============================================================================
