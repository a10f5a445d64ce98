----------------------------- MODULE MCModelStore -----------------------------
(* ModelStore with the ways a project may be replaced. *)
EXTENDS ModelStore

NewOrImport == {"new", "import"}
=============================================================================
