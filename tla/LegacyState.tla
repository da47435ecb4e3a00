---------------------------- MODULE LegacyState ----------------------------
(***************************************************************************)
(* The state of the two older clients, LegacyClients, and what they        *)
(* promise of it at every moment.                                          *)
(***************************************************************************)
EXTENDS ClientState

VARIABLES
    route,      \* which client it is
    refused,    \* history: the host ever said an error, or did not admit the device
    chunks,     \* the chunks of this session that the player got
    result,     \* what the worker returns: "none", "ok" or "failed"
    player,     \* ffplay: "open", "closed" or "crashed"
    outcome,    \* of the program
    latest,     \* the frame for the window, 0 for none
    events,     \* to the loop of the window
    shown       \* the frame in the window, 0 for none

\* A connection that is lost, at any point and any number of times, and the
\* closing of the player or of the window in the middle of it, are not failures
\* of the client: what the next session sends is what it expects, and it ends in
\* an error only if the host said one or the player crashed.
FailuresAreReal ==
    /\ result = "failed" => refused
    /\ outcome = "failed" => refused \/ player = "crashed"

\* Only the first frame in an empty slot is announced to the window, which takes
\* the announcement before the lock of the slot: a frame in the slot is always
\* announced, or it stays there as long as the host sends no other.
NoFrameIsForgotten ==
    latest # 0 /\ main = "run" =>
        net = "notify" \/ \E i \in DOMAIN events : events[i].kind = "frame"
=============================================================================
