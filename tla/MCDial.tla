------------------------------- MODULE MCDial -------------------------------
EXTENDS Dial

\* The name may resolve to an address of either family, or to both.
MCAddrs == {"v4", "v6"}
MCV6 == {"v6"}

=============================================================================
