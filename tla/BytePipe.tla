------------------------------ MODULE BytePipe ------------------------------
(***************************************************************************)
(* What a direction of SecureStream promises                               *)
(* (crates/windowdeck-transport/src/secure.rs): the bytes that one end     *)
(* hands over come out at the other in their order, none missing, repeated *)
(* or invented; an end that has failed never moves another byte.  The      *)
(* bytes are named by their places, 1, 2, 3 and so on.                     *)
(***************************************************************************)
EXTENDS Integers, Sequences

VARIABLES
    sent,       \* how many bytes were handed over
    got,        \* the bytes that came out
    sending,    \* the sender has not failed
    receiving   \* the receiver has not failed

vars == <<sent, got, sending, receiving>>

Init ==
    /\ sent = 0
    /\ got = <<>>
    /\ sending = TRUE
    /\ receiving = TRUE

Send ==
    /\ sending
    /\ sent' \in Nat /\ sent' > sent
    /\ UNCHANGED <<got, sending, receiving>>

Receive ==
    /\ receiving
    /\ \E n \in 1 .. (sent - Len(got)) :
          got' = got \o [i \in 1 .. n |-> Len(got) + i]
    /\ UNCHANGED <<sent, sending, receiving>>

SenderFails ==
    /\ sending
    /\ sending' = FALSE
    /\ UNCHANGED <<sent, got, receiving>>

ReceiverFails ==
    /\ receiving
    /\ receiving' = FALSE
    /\ UNCHANGED <<sent, got, sending>>

Next == Send \/ Receive \/ SenderFails \/ ReceiverFails

Spec == Init /\ [][Next]_vars
=============================================================================
