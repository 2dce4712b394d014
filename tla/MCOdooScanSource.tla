--------------------------- MODULE MCOdooScanSource ---------------------------
(* OdooScanSource with small pages.                                        *)
EXTENDS OdooScanSource
=============================================================================
