----------------------------- MODULE MCMicrophone -----------------------------
(* The microphone with the two sounds of MCSounds. *)
EXTENDS Microphone, MCSounds
===============================================================================
