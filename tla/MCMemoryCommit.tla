---------------------------- MODULE MCMemoryCommit ----------------------------
(* Two documents, of which one exists already.                             *)
EXTENDS MemoryCommit

CONSTANTS d1, d2

MCDocs == {d1, d2}
MCExisting == {d1}
=============================================================================
