--------------------------- MODULE MCAuthService ---------------------------
(* AuthService for TLC: requests that compete for one username.            *)
EXTENDS AuthService

CONSTANTS alice, bob, pw1, pw2

Register(name, http, password) ==
    [op |-> "register", http |-> http, name |-> name, password |-> password]
Login(name, http, password) ==
    [op |-> "login", http |-> http, name |-> name, password |-> password]

MCScripts ==
    { <<Register(alice, FALSE, pw1), Register(alice, TRUE, pw2)>>,
      <<Register(alice, TRUE, pw1), Login(alice, FALSE, pw1)>>,
      <<Register(bob, FALSE, pw1), Register(alice, FALSE, pw1), Login(bob, TRUE, pw1)>>,
      <<Register(alice, FALSE, Empty), Login(alice, FALSE, pw2)>> }
=============================================================================
