------------------------------ MODULE MCPanel ------------------------------
(***************************************************************************)
(* Panel for TLC, on two by two pixels: stripes are the whole panel, a     *)
(* row, a column or a pixel.                                               *)
(***************************************************************************)
EXTENDS Panel

FourAreas ==
  {WholePanel,
   [x |-> 0, y |-> 1, w |-> 2, h |-> 1],
   [x |-> 1, y |-> 0, w |-> 1, h |-> 2],
   [x |-> 0, y |-> 0, w |-> 1, h |-> 1]}
===========================================================================
