-------------------------- MODULE MCSessionRules --------------------------
(* Routes of the user plane for model checking: rule r2 may be steered      *)
(* through a second UPF.                                                     *)
EXTENDS SessionRules, TLC

CONSTANTS u1, u2, r1, r2

RouteA == <<u1>>
RouteAB == <<u1, u2>>
SomeRoutes == (r1 :> {RouteA}) @@ (r2 :> {RouteA, RouteAB})
=============================================================================
