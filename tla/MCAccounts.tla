------------------------------ MODULE MCAccounts ------------------------------
(***************************************************************************)
(* Finite instances of Accounts.                                           *)
(***************************************************************************)
EXTENDS Accounts, TLC

CONSTANTS s1, s2

MCSecret == {s1, s2}
MCField == {"nickname", "email"}

\* The collation ignores case and trailing spaces, not leading ones.
MCUsername == {"bob", "Bob", " bob", "amy", "   ", ""}
MCTrim == [n \in MCUsername |->
  CASE n = " bob" -> "bob" [] n = "   " -> "" [] OTHER -> n]
MCKey == [n \in MCUsername |->
  CASE n = "Bob" -> "bob" [] n = "   " -> "" [] OTHER -> n]
MCLength == [n \in MCUsername |->
  CASE n = " bob" -> 4 [] n = "" -> 0 [] OTHER -> 3]

Content(op, name, secret, role, login, sets) ==
  [op |-> op, username |-> name, secret |-> secret, role |-> role, login |-> login, sets |-> sets]

Register(name, secret, role, sets) == Content("register", name, secret, role, 1, sets)
LogIn(name, secret) == Content("login", name, secret, "", 1, {})
Update(login, sets) == Content("update", "bob", s1, "", login, sets)

\* Three registrations race for one name or more; two logins and an update.
Names ==
  {<<Register("bob", s1, "organizer", {}), Register(n, s2, role, {"email"}), Register(o, s1, "", {}),
     LogIn("bob", s1), LogIn(p, s2), Update(5, {"email"})>> :
     n \in {"Bob", " bob", "amy"}, role \in {"", "admin"}, o \in {"bob", "amy"},
     p \in {"bob", " bob", "amy"}}

\* One account or two, and three updates that overlap.
Profiles ==
  {<<Register("bob", s1, "organizer", {}), LogIn("Bob", s1),
     Register("amy", s2, "user", MCField), Update(2, a), Update(2, b), Update(2, c)>> :
     a, b, c \in {{"nickname"}, {"email"}, MCField}}
    \cup
  {<<Register("bob", s1, "organizer", {}), LogIn("bob", s1),
     Register("amy", s2, "user", MCField), LogIn("amy", s2), Update(2, a), Update(4, b)>> :
     a, b \in {{"nickname"}, {"email"}}}

MCAccountWorkload == Names \cup Profiles
=============================================================================
