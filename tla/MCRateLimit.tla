---------------------------- MODULE MCRateLimit ----------------------------
(***************************************************************************)
(* What stands in front of the handlers: the request limit, for one        *)
(* address and the same under /v1/auth/, and the process that serves.  The *)
(* two share no variable; their steps are interleaved, so that each is     *)
(* checked under its own fairness.                                         *)
(***************************************************************************)
EXTENDS RateLimit, Server, TLC

CONSTANTS address, auth

MCLimit == address :> 3 @@ auth :> 1

FrontInit == Init /\ ServerInit

FrontNext == (Next /\ UNCHANGED serverVars) \/ (ServerNext /\ UNCHANGED vars)

FrontSpec ==
  /\ FrontInit /\ [][FrontNext]_<<vars, serverVars>>
  /\ RateFairness /\ ServerFairness
=============================================================================
