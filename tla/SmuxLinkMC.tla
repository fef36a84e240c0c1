------------------------------ MODULE SmuxLinkMC ------------------------------
(* SmuxLink on small instances: frames whose payloads hold the delimiter,  *)
(* the escape, their escaped forms and type codes, one longer than the     *)
(* buffer, one empty, and an answer to a command given up long ago.        *)
EXTENDS SmuxLink

MCChatter ==
    {[type |-> STDIO,      payload |-> <<126, 94>>],
     [type |-> ABOOT_DATA, payload |-> <<125, 97, 34, 126, 97>>],
     [type |-> ABOOT_CMD,  payload |-> OKAY],
     [type |-> HEART_BEAT, payload |-> << >>]}

MCFewChatter == {[type |-> ABOOT_DATA, payload |-> <<97, 126>>],
                 [type |-> ABOOT_CMD,  payload |-> OKAY]}
=============================================================================
