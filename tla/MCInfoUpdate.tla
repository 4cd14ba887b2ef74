---------------------------- MODULE MCInfoUpdate ----------------------------
(* Instances of InfoUpdate for TLC. *)
EXTENDS InfoUpdate

CONSTANTS paris, denver

OneCity == {denver}
TwoCities == {paris, denver}

(* The services that an application may enable, one instance each.         *)
VisibleServices == {{"METAR", "MET_NO"}, {"NWS", "MET_NO"}}
EveryService == {{"METAR", "MET_NO"}, Provider}
OwmOnly == {{"OWM"}}
=============================================================================
