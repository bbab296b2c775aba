---------------------------- MODULE MCUserPlane ----------------------------
(* A small user plane for model checking: the access network, a UPF, and    *)
(* behind it another one.  Operators delete nodes, and post the first two    *)
(* again with the links they had.                                            *)
EXTENDS UserPlane

CONSTANTS u1, u2, a

LineLinks == {{a, u1}, {u1, u2}}
LineConfigs == {<<{n}, {e \in LineLinks : n \in e}>> : n \in {a, u1}}
=============================================================================
