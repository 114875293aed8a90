--------------------------- MODULE MCAddressTaken ---------------------------
(* canOutline and hasAddressTaken instantiated for TLC by the .cfg files.  *)
EXTENDS AddressTaken
=============================================================================
