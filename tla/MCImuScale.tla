----------------------------- MODULE MCImuScale ----------------------------
(* ImuScale over the whole range of an i16. *)
EXTENDS ImuScale

i16Min == -32768
===========================================================================
