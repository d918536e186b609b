---------------------------- MODULE MCSignalling ----------------------------
(* An instance of Signalling.  Connections are alike, and so are devices.  *)
EXTENDS Signalling, TLC

ConnSymmetry == {c @@ d : c \in Permutations(Conns), d \in Permutations(DeviceIDs)}

(***************************************************************************)
(* What was sent and heard is only ever written, and says nothing of a     *)
(* connection that is broken; nobody reads a connection that has gone.     *)
(***************************************************************************)
Essence ==
  <<mu, peers,
    [c \in Conns |->
       CASE Gone(c) -> <<>>
         [] ~Gone(c) /\ socket[c] = "closed" ->
              <<id[c], reader[c], dest[c], writer[c], Len(queue[c]), ended[c]>>
         [] ~Gone(c) /\ socket[c] = "open" /\ Broken(c) ->
              <<id[c], reader[c], dest[c], writer[c], Len(queue[c]), asked[c], ended[c],
                stalled[c], sent[c] < MaxNotes>>
         [] OTHER ->
              <<id[c], reader[c], dest[c], writer[c], out[c], queue[c], stalled[c],
                sent[c], heard[c]>>]>>
=============================================================================
