----------------------------- MODULE MCAccounts -----------------------------
(***************************************************************************)
(* An instance of Accounts for TLC.                                        *)
(***************************************************************************)
EXTENDS Accounts, TLC

\* One person, who registers and may also come by OAuth; the second id is for what
\* races with that, or for a guest.
ReportedEmail == "google" :> "ann@mail"
Alike == Permutations(Ids) \cup Permutations(Calls)
=============================================================================
