---------------------------- MODULE MCSessionFiles ----------------------------
(* Two new names, one of them of two words; the current directory's parent,  *)
(* a child, a sibling and, with the drive, the home directory.  The side bar *)
(* leads as deep as a path may be.                                           *)
EXTENDS SessionFiles

MCNames == {<<"a">>, <<"b", "a">>}

Relative(parts) == [absolute |-> FALSE, parts |-> parts]
MCArguments == {
    Relative(<<Up>>), Relative(<<<<"a">>>>), Relative(<<Up, <<"b", "a">>>>),
    [absolute |-> TRUE, parts |-> <<Home[1], Here, Home[2]>>]}

=============================================================================
