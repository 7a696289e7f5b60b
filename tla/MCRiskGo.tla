--------------------------------- MODULE MCRiskGo ---------------------------------
(* A small instance of RiskGo for TLC.                                      *)
EXTENDS RiskGo

ErrorsOnly == {"handleError"}
================================================================================
