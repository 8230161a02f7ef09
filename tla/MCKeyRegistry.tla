--------------------------- MODULE MCKeyRegistry ---------------------------
(* Snapshots with one key: active, revoked, minted with another pepper,    *)
(* refused for their envelope, their pepper or a row.                      *)
EXTENDS KeyRegistry

Snapshot(p, f, row) == [pepper |-> p, form |-> f, rows |-> [k \in Key |-> row]]
MCPublishable ==
  { Snapshot("same", "ok", "active"), Snapshot("same", "ok", "revoked"),
    Snapshot("unstated", "ok", "foreign"), Snapshot("other", "ok", "active"),
    Snapshot("same", "row", "active"), Snapshot("same", "envelope", "active") }
=============================================================================
