-------------------------- MODULE MCCatalogueCache --------------------------
(* CatalogueCache for TLC: one restaurant, which exists or not yet. *)
EXTENDS CatalogueCache

CONSTANTS r1, p1, p2

\* The list and the popular items of all are filled and deleted as <<"detail", r1>>.
OwnKeys == {<<"detail", r1>>, <<"menu", r1>>, <<"popular", r1>>}
=============================================================================
