--------------------------- MODULE MCCborPreflight ---------------------------
(***************************************************************************)
(* A small instance of CborPreflight: zero, byte strings and texts of one  *)
(* and of more, arrays of none, of two, of three (more entries than may be *)
(* reserved), of an announced length and of a wide one, a map, a tag and   *)
(* the head of an indefinite array.                                        *)
(***************************************************************************)
EXTENDS CborPreflight

MCByte == {0, 65, 67, 97, 98, 128, 130, 131, 152, 153, 161, 192, 159}
=============================================================================
