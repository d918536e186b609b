------------------------------ MODULE MCStore ------------------------------
(***************************************************************************)
(* What is kept in the stores: the handlers of second factors, of email    *)
(* tokens and of organisations, with the store that main has opened, and   *)
(* the keys of PostgreSQL.  The parts share no variable that changes, so   *)
(* that interleaving them would show nothing: a behaviour takes the steps  *)
(* of one part, while the others stay at their start.                      *)
(***************************************************************************)
EXTENDS TwoFactor, Recovery, Teams, KeyCodec, TLC

storeVars == <<vars, recoveryVars, teamsVars, codecVars>>

StoreInit == Init /\ RecoveryInit /\ TeamsInit /\ CodecInit

StoreNext ==
  \/ /\ Next
     /\ RecoveryInit /\ TeamsInit /\ CodecInit
     /\ UNCHANGED <<recoveryVars, teamsVars, codecVars>>
  \/ /\ InMemory /\ RecoveryNext
     /\ Init /\ TeamsInit /\ CodecInit
     /\ UNCHANGED <<vars, teamsVars, codecVars>>
  \/ /\ TeamsNext
     /\ Init /\ RecoveryInit /\ CodecInit
     /\ UNCHANGED <<vars, recoveryVars, codecVars>>
  \/ /\ OnPostgres /\ CodecNext
     /\ Init /\ RecoveryInit /\ TeamsInit
     /\ UNCHANGED <<vars, recoveryVars, teamsVars>>

StoreSpec == StoreInit /\ [][StoreNext]_storeVars

(***************************************************************************)
(* Requests in flight, reset tokens, the ids of factors and the accounts   *)
(* of the first part are alike; the parts share their names, which are     *)
(* exchanged in all of them at once.                                       *)
(***************************************************************************)
StoreSymmetry ==
  Permutations(Requests) \cup Permutations(Users)
    \cup Permutations(ResetTokens) \cup Permutations(FactorIDs \ ResetTokens)
=============================================================================
