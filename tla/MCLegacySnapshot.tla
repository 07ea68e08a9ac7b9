--------------------------- MODULE MCLegacySnapshot ----------------------------
(***************************************************************************)
(* The instance of LegacySnapshot that TLC checks.                         *)
(***************************************************************************)
EXTENDS LegacySnapshot

Shape(source, form, rel, ordered) ==
    [source |-> source, form |-> form, author |-> "app", rel |-> rel, ordered |-> ordered]

\* The words that decide.
MCShapes ==
    {Shape("comment", "clean", "current", TRUE), Shape("comment", "findings", "current", TRUE),
     Shape("review", "approved", "current", TRUE)}

\* Those that mostly end in an error, or are late to decide.
MCRareShapes ==
    {Shape("review", "findings", "ancestor", TRUE), Shape("comment", "clean", "ancestor", TRUE),
     Shape("review", "findings", "nonancestor", TRUE), Shape("comment", "clean", "invalid", TRUE),
     Shape("comment", "findings", "current", FALSE), Shape("comment", "progress", "current", TRUE),
     [Shape("review", "approved", "current", TRUE) EXCEPT !.author = "impostor"]}

=============================================================================
