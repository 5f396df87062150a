---------------------------- MODULE MCCommitStore ----------------------------
(***************************************************************************)
(* A small instance of CommitStore: three entries, one of which has two    *)
(* parts, and a payload that has room for two of them but not for all.     *)
(***************************************************************************)
EXTENDS CommitStore

MCEntry == {1, 2, 3}

MCParts(e) == IF e = 3 THEN 2 ELSE 1
=============================================================================
