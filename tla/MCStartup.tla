------------------------------ MODULE MCStartup ------------------------------
(* Instances of Startup for TLC: a seed of the shape of seed.go.             *)
EXTENDS Startup

\* Two users, an incident, an inspection and its item, and a certification.
SmallSeed == <<"users", "users", "incidents", "inspections", "items", "certs">>

\* The incident names the second user, the item its inspection, the
\* certification the first user.
SmallReferences == <<1, 2, 2, 4, 4, 1>>

==============================================================================
