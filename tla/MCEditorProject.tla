---------------------------- MODULE MCEditorProject ----------------------------
(* Two files, one merge key of each kind, three sessions; a full history has  *)
(* two entries.                                                              *)
EXTENDS EditorProject

CONSTANTS k, s, p1, p2

Alike == Permutations({p1, p2})
=============================================================================
