---- MODULE MCFileReader ----
\* Instances of FileReader for TLC.  Inodes are only compared with each other.
EXTENDS FileReader, TLC

Symmetry == Permutations(Inodes)
====
