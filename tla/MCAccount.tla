------------------------------- MODULE MCAccount -------------------------------
(* Three passwords tell the one in force, the one being tried and an older    *)
(* one apart; five generations let both slots be overwritten twice.           *)
EXTENDS Account

CONSTANTS p1, p2, p3

MCPasswords == {p1, p2, p3}

=============================================================================
