---------------------------- MODULE MCClassifier ----------------------------
(* A small instance of Classifier: two categories or regions whose names may *)
(* differ by a hyphen only, and a word that is in no table.                  *)
EXTENDS Classifier, TLC

CONSTANTS i, j, carpenter, hyphened

Forms == [n \in Name |-> IF n = hyphened THEN carpenter ELSE n]

Some(categories, regions) == [t \in Table |-> IF t = "categories" THEN categories ELSE regions]

Carpenter == [id |-> i, name |-> carpenter]
Hyphened  == [id |-> j, name |-> hyphened]

Stock == { Some({Carpenter}, {Hyphened}) }

Says(kind, category, region) == [kind |-> kind, categories |-> category, regions |-> region]

\* Valid replies with and without a region, and one of each error.
Replies == { Says("valid", carpenter, Null), Says("valid", hyphened, carpenter) }
           \cup { Says(kind, Null, Null) : kind \in {"invalid", "timeout", "api_error", "unknown"} }
=============================================================================
