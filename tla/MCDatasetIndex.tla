--------------------------- MODULE MCDatasetIndex ---------------------------
(* Small instances of DatasetIndex for TLC. *)
EXTENDS DatasetIndex, TLC

MCColumns == {"private", "state"}
MCParts == {"resources"}

LockingKinds == {"create", "patch", "purge"}
\* Everything but emptying the index, which is meant to leave it behind.
AllButClear == AllKinds \ {"clear"}
UnlockedKinds == AllButClear \ LockingKinds
=============================================================================
