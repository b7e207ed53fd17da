------------------------------- MODULE MCAuth -------------------------------
(* A small instance of Auth for TLC.                                       *)
EXTENDS Auth, TLC

\* Two people want the same username, two the same email, and the second form
\* is also a login with a wrong password.
MCForms ==
    {[username |-> "ana", email |-> "a@x", password |-> "secret"],
     [username |-> "ana", email |-> "b@x", password |-> "guess"],
     [username |-> "ben", email |-> "b@x", password |-> "secret"]}

MCSymmetry ==
    Permutations(Browsers) \union Permutations(Requests)
        \union Permutations(Accounts) \union Permutations(Tokens)
=============================================================================
