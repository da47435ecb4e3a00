---------------------------- MODULE ClientState ----------------------------
(***************************************************************************)
(* What the three clients of crates/windowdeck-client have, after their    *)
(* first connection: the socket of each connection, the stream from the    *)
(* host on the newest one, a thread that reads it and connects again, and  *)
(* the thread of the window, which closes the program.  Socket `s' is the  *)
(* one of the s-th connection; a session has the name of its socket.       *)
(***************************************************************************)
EXTENDS Integers, Sequences

CONSTANTS
    WireRoom,   \* bound: messages on their way
    MaxSockets  \* bound: connections that the host takes

VARIABLES
    sock,       \* of each socket: "none", "open", "shut", or "reset" by recovery
    wire,       \* what the host wrote on the newest socket and is not read
    sent,       \* what it writes next there
    told,       \* it wrote the end of the session there
    net,        \* where the thread that reads is
    stream,     \* the socket that it reads
    dialled,    \* the socket of the connection being made, 0 for none
    hand,       \* what it read and has not handed over
    watched,    \* `shutdown': the socket that closing shuts
    main        \* where the thread of the window is

Sockets == 1 .. MaxSockets
=============================================================================
