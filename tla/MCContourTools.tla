---------------------------- MODULE MCContourTools ----------------------------
(***************************************************************************)
(* Two workers with three requests.  The histograms are those of two       *)
(* clusters with three buckets of up to 20 requests.                       *)
(***************************************************************************)
EXTENDS ContourTools

MCWorkers == {"w1", "w2"}

MCClusters == {"c1", "c2"}

MCSamples == {0, 1, 3, 20}
=============================================================================
