---------------------------- MODULE MCMultiSig ----------------------------
(***************************************************************************)
(* Instances of MultiSig for TLC.                                          *)
(***************************************************************************)
EXTENDS MultiSig

CONSTANTS k1, k2

(* One of two keys, and (threshold 0) both of them; valid from time 0 or 1.*)
OneOrAll == [keys : {{k1, k2}}, threshold : {0, 1}, start : {0, 1}]
SingleKey == [keys : {{k1}}, threshold : {0}, start : {0}]
OneOfTwo == [keys : {{k1, k2}}, threshold : {1}, start : {0}]
=============================================================================
