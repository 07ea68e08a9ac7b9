------------------------- MODULE MCOrganizationHandoff -------------------------
(* Surfaces are interchangeable: the commands treat each like the others.       *)
EXTENDS OrganizationHandoff, TLC

SurfaceSymmetry == Permutations(Surfaces)
=============================================================================
