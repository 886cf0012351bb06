--------------------------- MODULE MCInMemoryCache ---------------------------
(* An instance of InMemoryCache for TLC: one user's id begins with the     *)
(* other's, and one tenant's id ends with the other's.                     *)
EXTENDS InMemoryCache

TwoUsers == {<<"a">>, <<"a", "b">>}
TwoTenants == {<<"a">>, <<"b", "a">>}
Letters == {"a", "b", ":"}
=============================================================================
