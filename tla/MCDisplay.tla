------------------------------- MODULE MCDisplay -------------------------------
(* A screen of three by two pixels: rectangles that overlap, touch, are empty *)
(* or reach past an edge all fit, and so does a terminal of two lines.        *)
EXTENDS Display

=============================================================================
