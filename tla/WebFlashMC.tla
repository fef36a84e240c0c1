------------------------------ MODULE WebFlashMC ------------------------------
(* WebFlash for TLC: a nop that may be passed over, then a download; and   *)
(* the example of README.md:59-75, for use with AnswerFirst = FALSE, with  *)
(* which ReadIsPrefix does not hold.                                       *)
EXTENDS WebFlash

MCFirmware   == <<"nop", "download">>
MCDocumented == <<"download", "getvar", "reboot">>
=============================================================================
