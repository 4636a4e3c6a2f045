---------------------------- MODULE MCShortNames ----------------------------
(***************************************************************************)
(* ShortNames with stems of four characters and numbers in base 2: the     *)
(* second name of a kind has the character behind the last digit, the      *)
(* fourth one two digits more than the code counts with.                   *)
(***************************************************************************)
EXTENDS ShortNames

(* Long names alike in their first characters, up to six bytes in three     *)
(* LFN entries, one of them with a space; one with a long extension; a      *)
(* short one in lower case and the plain name that spells its tilded form;  *)
(* plain names with a period at the end, or with a stem that is cut.        *)
MCFolder ==
  { << 97, 98, 99, 100, 101 >>,          (* abcde   *)
    << 97, 98, 99, 100, 102 >>,          (* abcdf   *)
    << 65, 46, 66, 67, 68, 69 >>,        (* A.BCDE  *)
    << 65, 66, 67, 68, 69, 70 >>,        (* ABCDEF  *)
    << 65, 66, 32, 67, 68 >>,            (* AB CD   *)
    << 97 >>,                            (* a       *)
    << 65, 126, 49 >>,                   (* A~1     *)
    << 65 >>,                            (* A       *)
    << 65, 46 >>,                        (* A.      *)
    << 65, 66, 67, 68, 69, 46, 88 >>,    (* ABCDE.X *)
    << 65, 66, 67, 68, 46, 88 >> }       (* ABCD.X  *)
=============================================================================
