------------------------------ MODULE MCHeading ------------------------------
(* Heading with headings that lie on and beside the degrees at which the     *)
(* code changes its mind: 45, 225 and 360.                                   *)
EXTENDS Heading

MCHeadings == {-1, 0, 1, 44, 45, 46, 90, 134, 135, 136, 180, 224, 225, 226, 270, 315, 359}
=============================================================================
