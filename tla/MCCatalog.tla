----------------------------- MODULE MCCatalog -----------------------------
(* Catalog with categories, subcategories and requests that are alike.     *)
EXTENDS Catalog, TLC

Symmetry == Permutations(Category) \cup Permutations(Subcategory) \cup Permutations(Worker)
=============================================================================
