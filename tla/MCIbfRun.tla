------------------------------ MODULE MCIbfRun ------------------------------
(***************************************************************************)
(* IbfRun for TLC: two invocations (a start and a stop can overlap), and   *)
(* every combination of the arguments main() branches on.                 *)
(***************************************************************************)
EXTENDS IbfRun

CONSTANTS i1, i2

MCInvocation == {i1, i2}

\* No command, the two legal ones, an unknown one, and two words.
MCCommands ==
    {<<>>, <<"start">>, <<"stop">>, <<"restart">>, <<"start", "stop">>}

\* -np not given, zero, negative and positive.
MCNp == {None, 0, -1, 2}

MCArgs ==
    [version : BOOLEAN, np : MCNp, command : MCCommands, remote : BOOLEAN]

=============================================================================
