--------------------------- MODULE MCWindowBackend --------------------------
(* Model-checking instance of WindowBackend: see README, run "backend".    *)
EXTENDS WindowBackend

CONSTANTS w1, w2

MCWindows == {w1, w2}
MCRaisedKinds == {"visibility", "geometry"}
=============================================================================
