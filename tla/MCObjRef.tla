------------------------------- MODULE MCObjRef -------------------------------
(* Small instances of ObjRef.                                              *)
EXTENDS ObjRef

CONSTANTS a, b

\* An input lies in two lists of obs->data, a scene in one of its canvas.
InputGuard == [list \in Lists |-> "data"]
SceneGuard == [uuid |-> "data", name |-> "canvas"]
=============================================================================
