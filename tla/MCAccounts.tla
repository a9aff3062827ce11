----------------------------- MODULE MCAccounts -----------------------------
(* Small instances of Accounts.                                            *)
EXTENDS Accounts, TLC

Form(group, sub, email) == [name |-> "n", group |-> group, sub |-> sub, email |-> email]

(* One name, with the secret of a group, of a subgroup, and another e-mail. *)
MCForms == {Form("g1", "", "e1"), Form("g1", "s", "e1"), Form("g1", "", "e2")}

(* One browser is enough: its requests keep the cookies they came with.    *)
MCSymmetry == Permutations(Requests) \cup Permutations(Logins)

=============================================================================
