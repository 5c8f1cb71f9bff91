------------------------------ MODULE MCShares ------------------------------
(* Instances of Shares for TLC.                                            *)
EXTENDS Shares, TLC

CONSTANTS m1, m2, m3, s1, s2, b1, b2

\* One file, and a directory that holds the same file and another one.
FileAndFolder == [id \in Ids |-> IF id = s1 THEN <<b1>> ELSE <<b1, b2>>]
File == [id \in Ids |-> <<b1>>]

\* The clock of the reader is ahead of the clock of who shares.
ReaderAhead == [d \in Nodes |-> IF d = m1 THEN 1 ELSE 0]

\* All clocks agree.
NoSkew == [d \in Nodes |-> 0]
=============================================================================
