---------------------------- MODULE MCLcdConsole ----------------------------
EXTENDS LcdConsole
Lengths(x, h, e, d) == [index |-> x, hashrate |-> h, elapsed |-> e, difficulty |-> d]
\* an easy job of client 3, whose time just fits into its field, and one of client 12
\* that took 100 s or more and was refused
MCResults == {[name |-> "quick", good |-> TRUE, len |-> Lengths(1, 4, 5, 4)],
              [name |-> "slow", good |-> FALSE, len |-> Lengths(2, 5, 6, 6)]}
=============================================================================
