------------------------------ MODULE SerialJobsMC ------------------------------
(* SerialJobs for TLC: of any two jobs, taken in one order only since they *)
(* differ in their names alone, and one of them, at most, an upload: two   *)
(* uploads use the port like an upload and a verification.                 *)
EXTENDS SerialJobs

CONSTANTS j1, j2

MCJobs == {j1, j2}

MCPairs == {<<"upload", "verify">>, <<"upload", "at">>, <<"verify", "verify">>,
            <<"verify", "at">>, <<"at", "at">>}

MCInit == Init /\ <<kind[j1], kind[j2]>> \in MCPairs

MCSpec == MCInit /\ [][Next]_vars /\ SF_vars(Running)
=============================================================================
