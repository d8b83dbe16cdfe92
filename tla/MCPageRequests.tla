--------------------------- MODULE MCPageRequests ---------------------------
(* Pages and vectors of every relative size up to five elements, lists of  *)
(* one, three and six vectors: vectors that divide the page, straddle it,  *)
(* fill it, and span several pages.  With max_continous_pages 1 every gap  *)
(* cuts the segment, with 2 and 3 some are bridged.                        *)
EXTENDS PageRequests

MCPageElements == 1 .. 5
MCDims         == 1 .. 5
MCListSizes    == {1, 3, 6}
MCPageGaps     == 1 .. 3
=============================================================================
