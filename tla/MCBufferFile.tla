---- MODULE MCBufferFile ----
\* Instances of BufferFile for TLC.
EXTENDS BufferFile
====
