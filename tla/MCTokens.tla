------------------------------ MODULE MCTokens ------------------------------
(***************************************************************************)
(* An instance of Tokens.  User ids, addresses and tokens are alike.       *)
(***************************************************************************)
EXTENDS Tokens, TLC

TokenSymmetry ==
  {u @@ e @@ t @@ r : u \in Permutations(Users), e \in Permutations(Emails),
                      t \in Permutations(TokenIDs), r \in Permutations(Requests)}
=============================================================================
