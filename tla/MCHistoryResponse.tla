--------------------------- MODULE MCHistoryResponse ---------------------------
(* Histories of five headers. For walks and closures: a path of two beside *)
(* a path of one, with one header after the join; two joins of the same    *)
(* pair. For responses: two branches of different height that join, so that*)
(* they meet the starting fragment in different iterations, and a chain    *)
(* with a branch.                                                          *)
EXTENDS HistoryResponse

MCHistories == {
    <<{}, {}, {2}, {1, 3}, {4}>>,
    <<{}, {}, {1, 2}, {1, 2}, {1, 3, 4}>>}

MCInitials == {S \in SUBSET Header : Cardinality(S) <= 2}
MCFilters == {Header, Header \ {3}, Header \ {1}}
MCMaxOps == {2, 9}

MCResponseHistories == {<<{}, {1}, {1}, {2}, {3, 4}>>, <<{}, {1}, {2}, {2}, {3}>>}
MCNamed == {S \in SUBSET Header : Cardinality(S) <= 2}
=============================================================================
