---------------------------- MODULE MCMigration ----------------------------
(***************************************************************************)
(* Three keys whose byte order and locale order differ: '<' on strings     *)
(* puts the capital B before a and c, localeCompare puts it between them.  *)
(***************************************************************************)
EXTENDS Migration

CONSTANTS a, B, c

MCKey == {a, B, c}
MCByteOrder == <<B, a, c>>
MCLocaleOrder == <<a, B, c>>

=============================================================================
