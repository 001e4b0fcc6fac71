----------------------------- MODULE MCAccounts -----------------------------
(***************************************************************************)
(* Accounts, where the members of each constant set are interchangeable.   *)
(***************************************************************************)
EXTENDS Accounts, TLC

Interchangeable ==
  UNION {Permutations(S) : S \in {Clients, Emails, Passwords, UserIds, Tokens, Salts}}
=============================================================================
