----------------------------- MODULE MCLibrary ------------------------------
(***************************************************************************)
(* Library on small instances.                                             *)
(***************************************************************************)
EXTENDS Library, TLC

CONSTANTS
    t1, t2,                 \* the threads of RefCountPtr
    a, b, c                 \* their pointers

JumpsDef == {-2, 2}
PtrsOfDef == (t1 :> {a, b}) @@ (t2 :> {c})
=============================================================================
