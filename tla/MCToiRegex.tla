----------------------------- MODULE MCToiRegex ------------------------------
(***************************************************************************)
(* An instance of ToiRegex: two expressions and a malformed one.           *)
(***************************************************************************)
EXTENDS ToiRegex

CONSTANTS a, b, x, none

MCRegexes == {a, b, x}
MCMalformed == {x}
=============================================================================
