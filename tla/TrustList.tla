----------------------------- MODULE TrustList -----------------------------
(***************************************************************************)
(* What Trust promises about the list of paired peers                      *)
(* (crates/windowdeck-transport/src/trust.rs): every operation takes       *)
(* effect at once at some moment between its call and its return, or not   *)
(* at all, whatever processes crash; only what the medium had not received *)
(* yet is lost when the power fails.                                       *)
(***************************************************************************)
EXTENDS Integers

CONSTANTS Pids, Keys, NoKey

VARIABLES
    list,   \* the paired keys
    saved,  \* the list that survives a loss of power
    call,   \* the operation each process is in, a <<kind, key>>
    answer  \* its result, "none" until it has taken effect

vars == <<list, saved, call, answer>>

Calls == ({"add", "remove", "lookup"} \X Keys) \cup {<<"clear", NoKey>>}
NoCall == <<"none", NoKey>>

Init ==
    /\ list = {}
    /\ saved = {}
    /\ call = [p \in Pids |-> NoCall]
    /\ answer = [p \in Pids |-> "none"]

Begin(p, c) ==
    /\ call[p] = NoCall
    /\ call' = [call EXCEPT ![p] = c]
    /\ answer' = [answer EXCEPT ![p] = "none"]
    /\ UNCHANGED <<list, saved>>

Answers(p, a) ==
    /\ call[p] # NoCall
    /\ answer[p] = "none"
    /\ answer' = [answer EXCEPT ![p] = a]
    /\ UNCHANGED <<saved, call>>

Add(p) ==
    /\ call[p][1] = "add"
    /\ list' = list \cup {call[p][2]}
    /\ Answers(p, "ok")

Remove(p) ==
    /\ call[p][1] = "remove"
    /\ list' = list \ {call[p][2]}
    /\ \/ call[p][2] \in list /\ Answers(p, "ok")
       \/ call[p][2] \notin list /\ Answers(p, "unknown")

Clear(p) ==
    /\ call[p][1] = "clear"
    /\ list' = {}
    /\ Answers(p, "ok")

Lookup(p) ==
    /\ call[p][1] = "lookup"
    /\ \/ call[p][2] \in list /\ Answers(p, "yes")
       \/ call[p][2] \notin list /\ Answers(p, "no")
    /\ UNCHANGED list

\* An operation that reports an error has changed nothing.
Fails(p) == Answers(p, "error") /\ UNCHANGED list

\* The operation returns, or its process dies: before or after taking effect.
Leaves(p) ==
    /\ call[p] # NoCall
    /\ call' = [call EXCEPT ![p] = NoCall]
    /\ answer' = [answer EXCEPT ![p] = "none"]
    /\ UNCHANGED <<list, saved>>

Saves == saved' = list /\ UNCHANGED <<list, call, answer>>

PowerLoss ==
    /\ list' \in {list, saved}
    /\ saved' = list'
    /\ call' = [p \in Pids |-> NoCall]
    /\ answer' = [p \in Pids |-> "none"]

Next ==
    \/ \E p \in Pids :
          \/ \E c \in Calls : Begin(p, c)
          \/ Add(p) \/ Remove(p) \/ Clear(p) \/ Lookup(p) \/ Fails(p)
          \/ Leaves(p)
    \/ Saves \/ PowerLoss

Spec == Init /\ [][Next]_vars
=============================================================================
