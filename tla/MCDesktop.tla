------------------------------ MODULE MCDesktop ------------------------------
(* A screen of seven columns whose positions wrap at fourteen, with a dock of *)
(* one column and windows that overlap one another and the dock.  With the    *)
(* three columns of the pointer Files can be dragged, resized, minimized and  *)
(* closed, Settings dragged, maximized and minimized, past both edges, and    *)
(* the terminal all that it can, also resized when its left edge has wrapped. *)
EXTENDS Desktop
=============================================================================
