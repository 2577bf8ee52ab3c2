---------------------------- MODULE MCScanSizing ----------------------------
(* The code's constants divided by 16 or so, with a port list entry        *)
(* repeated.  Limits: none, below the reserve, at it, just above, and just *)
(* enough for two smallest windows.                                        *)
EXTENDS ScanSizing

MCFastPorts == <<2, 5, 9>>
MCLists == {<<7>>, <<3, 3, 8>>, <<9, 1, 9, 2, 9>>}
=============================================================================
