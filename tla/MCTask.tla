-------------------------------- MODULE MCTask --------------------------------
(* Two services, two correlation ids and payload lengths 0 and 1 tell a       *)
(* matching reply from every mismatch; two capability slots per task suffice  *)
(* for a table to be full, to be compacted and to reissue a handle.           *)
EXTENDS Task

CONSTANTS s1, s2, id1, id2

MCServices == {s1, s2}
MCCorrelationIds == {id1, id2}

=============================================================================
