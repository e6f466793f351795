-------------------------- MODULE MCConfiguration --------------------------
(***************************************************************************)
(* An instance of Configuration: a single host, a replica set of which one *)
(* member has its own port, and a list with a gap; a URI with and without  *)
(* credentials.                                                            *)
(***************************************************************************)
EXTENDS Configuration

Member(name, port) == [name |-> name, port |-> port]

MCHostList ==
  [one  |-> [set |-> "", members |-> <<Member("a", "")>>],
   many |-> [set |-> "rs", members |-> <<Member("a", ""), Member("b", "7")>>],
   gap  |-> [set |-> "", members |-> <<Member("a", ""), Member("", "")>>]]

MCUri ==
  [open   |-> [members |-> <<Member("a", "")>>, username |-> "", password |-> ""],
   signed |-> [members |-> <<Member("a", "")>>, username |-> "u", password |-> "p"]]

MCGiven ==
  [host |-> {"one", "many", "gap"}, port |-> {"9"}, username |-> {"u"},
   password |-> {"p"}, authenticationDatabase |-> {"admin"},
   authenticationMechanism |-> {"PLAIN"}, db |-> {"d"}, ssl |-> {"true"},
   sslCAFile |-> {"ca"}, uri |-> {"open", "signed"}, uriPrune |-> {"true"},
   localPath |-> {"x"}, backupPrefix |-> {"z/"}]

(* All but a URI. *)
MCVaried == DOMAIN MCGiven \ {"uri", "uriPrune"}

(* A URI, and what may stand beside it. *)
MCBesideUri == {"uri", "uriPrune", "username", "password", "authenticationDatabase", "ssl"}
=============================================================================
