---------------------------- MODULE MCCollector ----------------------------
(* Collector for TLC.  A behaviour in which nothing can happen to the        *)
(* collector explores EventRouter on its own instead, whose threads attach   *)
(* and detach whatever they like.                                           *)
EXTENDS Collector

MCWaySets == {{}, {"tick"}, {"tick", "cancel"}, {"tick", "cancel", "destroy"}, {"tick", "inside"}}

MCInit ==
    /\ CollectingInit
    /\ IF ways = {} THEN Init ELSE LambdaAttached

MCNext ==
    IF ways = {} THEN Next /\ UNCHANGED collecting ELSE CNext

MCSpec == MCInit /\ [][MCNext]_allVars /\ Fairness
=============================================================================
