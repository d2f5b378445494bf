---------------------------- MODULE MCPMonDaemon ---------------------------
(* Small instances of PMonDaemon.                                          *)
EXTENDS PMonDaemon, TLC

\* Answers of both channels; every kind of line.
Answers == {Voltage(1, 12), Voltage(2, 12)}
AnyLine == {Voltage(1, 12), BadChannel, Other}

\* Readers are interchangeable.
ClientSymmetry == Permutations(Client)
=============================================================================
