-------------------------- MODULE MCAdminAccounts --------------------------
(* A small instance of AdminAccounts for TLC. *)
EXTENDS AdminAccounts, TLC

CONSTANTS u1, u2, l1, l2, q1, q2, s1

TwoUsers == {u1, u2}
TwoLogins == {l1, l2}
TwoRequests == {q1, q2}
OneSource == {s1}

\* Users and logins are interchangeable; requests are taken in order.
Interchangeable == Permutations(TwoUsers) \cup Permutations(TwoLogins)
=============================================================================
