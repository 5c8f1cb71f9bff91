----------------------------- MODULE MCRegistry ----------------------------
(* Instances of Registry for TLC.                                          *)
EXTENDS Registry, TLC

Agree(file, held, save) ==
  \A b \in Live : file = held[b] /\ save[b] = "saved"

GroupsAgree == Agree(groupsFile, [b \in Boots |-> app[b].groups], [b \in Boots |-> app[b].groupsSave])
BooksAgree == Agree(bookFile, [b \in Boots |-> app[b].book], [b \in Boots |-> app[b].bookSave])

\* The clock moves only where no reload has left two AppStates, and of the two files
\* only one at a time is at odds with what is held in memory: each alone fills the run.
OneAtATime ==
  /\ now = 0 \/ ~forked
  /\ GroupsAgree \/ BooksAgree

Symmetry == Permutations(Namespaces) \cup Permutations(Names)
=============================================================================
