----------------------- MODULE MCConnectionHandshake -----------------------
(***************************************************************************)
(* One viewer that knows the password and one that does not, competing for *)
(* the host's only connection.                                             *)
(***************************************************************************)
EXTENDS ConnectionHandshake

CONSTANTS friend, stranger

MCViewers == {friend, stranger}
MCTrusted == {friend}
=============================================================================
