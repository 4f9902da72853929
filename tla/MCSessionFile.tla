--------------------------- MODULE MCSessionFile ---------------------------
(***************************************************************************)
(* A small instance of SessionFile.  Clients, accounts and tokens are      *)
(* interchangeable: no definition of SessionFile names one.                *)
(***************************************************************************)
EXTENDS SessionFile, TLC

MCSymmetry == Permutations(Clients) \cup Permutations(Accounts) \cup Permutations(Tokens)

=============================================================================
