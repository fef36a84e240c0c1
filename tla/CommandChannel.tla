---------------------------- MODULE CommandChannel ----------------------------
(***************************************************************************)
(* What a caller of Session may count on: calls are made one at a time and *)
(* each call returns.  As long as no call was given up, what a call        *)
(* returns is an error or the answer to this very call; after one that was *)
(* given up it may be the answer to an earlier one, until a handshake has  *)
(* got through.                                                            *)
(***************************************************************************)
EXTENDS Naturals

VARIABLES
    call,       \* the number of the latest call
    busy,       \* has it not returned yet?
    outcome,    \* the last return: which call, and which call's answer (0: error)
    sound       \* no call was given up since the channel was set up

channelVars == <<call, busy, outcome, sound>>

Init ==
    /\ call = 0
    /\ busy = FALSE
    /\ outcome = [of |-> 0, answerTo |-> 0]
    /\ sound = TRUE

Call ==
    /\ ~ busy
    /\ busy' = TRUE
    /\ call' = call + 1
    /\ UNCHANGED <<outcome, sound>>

Return(answerTo) ==
    /\ busy
    /\ busy' = FALSE
    /\ outcome' = [of |-> call, answerTo |-> answerTo]
    /\ UNCHANGED call

(* The answer of a handshake to itself may set the channel up again. *)
ReturnAnswer ==
    /\ Return(call)
    /\ sound' \in {sound, TRUE}

ReturnStray ==
    /\ ~ sound
    /\ \E earlier \in 1 .. call : Return(earlier)
    /\ UNCHANGED sound

(* A refusal leaves the channel as it is, giving up does not. *)
ReturnError ==
    /\ Return(0)
    /\ sound' \in {sound, FALSE}

Next == Call \/ ReturnAnswer \/ ReturnStray \/ ReturnError

Spec == Init /\ [][Next]_channelVars /\ WF_channelVars(ReturnAnswer \/ ReturnError)
=============================================================================
