------------------------------ MODULE FrameLink ------------------------------
(***************************************************************************)
(* What the SMUX link promises to whoever counts in whole messages.  As    *)
(* long as no byte is lost, a receiver in tune hears every message, in the *)
(* order they were sent, one out of tune hears none of them, and neither   *)
(* hears what was not said; a receiver changes its tune only by being      *)
(* replaced, and it is replaced only after the device has said UABT.  Once *)
(* bytes were lost nothing of this is promised any more, except that no    *)
(* message comes out of its turn.                                          *)
(***************************************************************************)
EXTENDS Sequences

CONSTANTS
    Answers,    \* the messages that are kept
    Silence     \* any other message

VARIABLES
    queue,      \* the messages under way, the oldest first
    slot,       \* the answer heard last
    tuned,      \* is the receiver in tune with the sender?
    replacing,  \* is it about to be replaced?
    lossy       \* was a byte lost?

linkVars == <<queue, slot, tuned, replacing, lossy>>

Message == Answers \cup {Silence}

(* The device may be saying something already when the session opens. *)
Init ==
    /\ queue \in {<< >>} \cup {<<m>> : m \in Message}
    /\ slot = "none"
    /\ tuned \in BOOLEAN
    /\ replacing = FALSE
    /\ lossy = FALSE

Say(m) ==
    /\ queue' = Append(queue, m)
    /\ UNCHANGED <<slot, tuned, replacing, lossy>>

Hear ==
    /\ queue # << >>
    /\ tuned
    /\ slot' = IF Head(queue) \in Answers THEN Head(queue) ELSE slot
    /\ queue' = Tail(queue)
    /\ UNCHANGED <<tuned, replacing, lossy>>

Miss ==
    /\ queue # << >>
    /\ ~ tuned
    /\ queue' = Tail(queue)
    /\ UNCHANGED <<slot, tuned, replacing, lossy>>

WantReplacement ==
    /\ slot = "UABT"
    /\ replacing' = TRUE
    /\ UNCHANGED <<queue, slot, tuned, lossy>>

(* The new receiver is in tune or not, as the moment has it. *)
Replace ==
    /\ replacing
    /\ replacing' = FALSE
    /\ tuned' \in BOOLEAN
    /\ UNCHANGED <<queue, slot, lossy>>

(* A byte of the oldest message is lost, perhaps its last one. *)
Lose ==
    /\ queue # << >>
    /\ queue' \in {queue, Tail(queue)}
    /\ tuned' \in BOOLEAN
    /\ lossy' = TRUE
    /\ UNCHANGED <<slot, replacing>>

(* What is heard after a loss may be anything. *)
Garble ==
    /\ lossy
    /\ queue # << >>
    /\ queue' \in {queue, Tail(queue)}
    /\ slot' \in Answers \cup {slot}
    /\ tuned' \in BOOLEAN
    /\ UNCHANGED <<replacing, lossy>>

Next ==
    \/ \E m \in Message : Say(m)
    \/ Hear
    \/ Miss
    \/ WantReplacement
    \/ Replace
    \/ Lose
    \/ Garble

Spec == Init /\ [][Next]_linkVars
=============================================================================
