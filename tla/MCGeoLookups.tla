---------------------------- MODULE MCGeoLookups ----------------------------
(* An instance of GeoLookups for TLC.                                      *)
EXTENDS GeoLookups
=============================================================================
