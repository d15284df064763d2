-------------------------------- MODULE MCInput --------------------------------
(* Enter, shift and its release; packets with a button, without, and with both  *)
(* overflow bits; a first byte and a motion that look like an acknowledge,   *)
(* which has bit 3; a motion that has not.                                   *)
EXTENDS Input

MCKeys == {28, 42, 170}
MCFlags == {8, 9, 250}
MCMotions == {1, 250}
MCConfigs == {97}

=============================================================================
