--------------------------- MODULE MCPropertyInquiry ---------------------------
(***************************************************************************)
(* A device with a stream and two controls that come and go; two changes   *)
(* in all, anywhere between the five calls of an inquiry about any         *)
(* selector in any scope.                                                  *)
(* A channel layout of 32 or 52 bytes describes one channel or two.        *)
(***************************************************************************)
EXTENDS PropertyInquiry
=============================================================================
