------------------------- MODULE MCHistoryFragment -------------------------
(* Seven headers: two roots, a diamond, a two-step shortcut (h6 follows h1  *)
(* and h5) and a second, conflicting header (h7) for the operation of h6.   *)
EXTENDS HistoryFragment

CONSTANTS h1, h2, h3, h4, h5, h6, h7, o1, o2, o3, o4, o5, o6

MCHeader == {h1, h2, h3, h4, h5, h6, h7}
MCOp     == {o1, o2, o3, o4, o5, o6}

MCPrevOf ==
    [h \in MCHeader |->
        CASE h \in {h1, h2} -> {}
          [] h \in {h3, h4} -> {h1}
          [] h = h5         -> {h2, h3, h4}
          [] h = h6         -> {h1, h5}
          [] h = h7         -> {h5}]

MCOpOf ==
    [h \in MCHeader |->
        CASE h = h1 -> o1 [] h = h2 -> o2 [] h = h3 -> o3 [] h = h4 -> o4
          [] h = h5 -> o5 [] h \in {h6, h7} -> o6]
=============================================================================
