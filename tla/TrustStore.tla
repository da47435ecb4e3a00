----------------------------- MODULE TrustStore -----------------------------
(***************************************************************************)
(* The identity and the list of paired peers of one role, as the processes *)
(* that share a directory use them (crates/windowdeck-transport/src/       *)
(* trust.rs): the host, `windowdeck-host devices`, the panel, or the       *)
(* client and `--forget-host`.  Each file is replaced through a temporary  *)
(* file of the process; any step may be the last of its process, and the   *)
(* power may fail.  The file system is external: a file is a set of lines  *)
(* whose bytes reach the medium when they are synced, a rename some time   *)
(* later.                                                                  *)
(*                                                                         *)
(* Bounds: MaxCalls operations begun, MaxMishaps of the environment.       *)
(***************************************************************************)
EXTENDS Integers

CONSTANTS
    Pids,       \* process ids, used again by later processes
    Writers,    \* those whose processes change the list of peers
    Keys,       \* the public keys of peers
    NoKey,      \* "no key"
    Windows,    \* cfg!(windows): identities are sealed
    MaxCalls,   \* bound on the operations begun
    MaxMishaps  \* bound on power losses and damaged identities

ASSUME WritersAssumption == Writers \subseteq Pids
ASSUME NoKeyAssumption == NoKey \notin Keys
ASSUME WindowsAssumption == Windows \in BOOLEAN

VARIABLES
    disk,     \* [{"identity", "peers"} -> Contents]
    medium,   \* the same, as it is found if the power fails now
    temp,     \* each process id's temporary files
    pc,       \* where the process is
    call,     \* the operation it is in
    lines,    \* what it is going to write
    result,   \* what the operation will return
    running,  \* the identity its process runs with, a set of one key or none
    \* History and bounds.
    revoked,  \* keys removed, with no add of them at the time or since
    raced,    \* identities another creation was about to replace, or deleted
    born,     \* identities generated
    calls, mishaps

fileVars == <<disk, medium, temp>>
procVars == <<pc, call, lines, result, running>>
boundVars == <<calls, mishaps>>
vars == <<fileVars, procVars, revoked, raced, born, boundVars>>

-----------------------------------------------------------------------------

Files == {"identity", "peers"}
Calls == ({"add", "remove", "lookup"} \X Keys) \cup
         {<<"clear", NoKey>>, <<"identity", NoKey>>}
NoCall == <<"none", NoKey>>

\* A whole file may still be in the cache only.
Absent == [state |-> "absent", lines |-> {}]
Torn == [state |-> "torn", lines |-> {}]
Whole(ls) == [state |-> "cached", lines |-> ls]
OnMedium(ls) == [state |-> "synced", lines |-> ls]
Exists(content) == content.state # "absent"
Readable(content) == content.state \in {"cached", "synced"}

\* parse_devices and parse_identity on a readable file.
Peers == disk["peers"].lines
StoredIdentity == {line[1] : line \in disk["identity"].lines}
Form == IF Windows THEN "sealed" ELSE "clear"

File(p) == IF call[p][1] = "identity" THEN "identity" ELSE "peers"

\* Nobody is paired; an identity of 0.4.0 may be there, stored in clear.
Init ==
    /\ disk \in {[f \in Files |-> Absent],
                 [f \in Files |-> IF f = "identity"
                                  THEN OnMedium({<<0, "clear">>})
                                  ELSE Absent]}
    /\ medium = disk
    /\ temp = [p \in Pids |-> [f \in Files |-> Absent]]
    /\ pc = [p \in Pids |-> "idle"]
    /\ call = [p \in Pids |-> NoCall]
    /\ lines = [p \in Pids |-> {}]
    /\ result = [p \in Pids |-> "none"]
    /\ running = [p \in Pids |-> {}]
    /\ revoked = {}
    /\ raced = {}
    /\ born = 0
    /\ calls = 0
    /\ mishaps = 0

-----------------------------------------------------------------------------

Goes(p, to) == pc' = [pc EXCEPT ![p] = to]
Answers(p, a) == result' = [result EXCEPT ![p] = a]

Begin(p, c) ==
    /\ pc[p] = "idle"
    /\ calls < MaxCalls
    /\ c[1] \in {"add", "remove", "clear"} => p \in Writers
    /\ Goes(p, "read")
    /\ call' = [call EXCEPT ![p] = c]
    /\ calls' = calls + 1
    /\ revoked' = IF c[1] = "add" THEN revoked \ {c[2]} ELSE revoked
    /\ UNCHANGED <<fileVars, lines, result, running, raced, born, mishaps>>

\* The operation ends without writing.
Concludes(p, a) ==
    /\ Goes(p, "done")
    /\ Answers(p, a)
    /\ UNCHANGED <<lines, running>>

\* write_private is called with these lines; a leftover of an earlier process
\* with the same id is removed first.
Writes(p, ls) ==
    /\ Goes(p, "open")
    /\ lines' = [lines EXCEPT ![p] = ls]
    /\ temp' = [temp EXCEPT ![p][File(p)] = Absent]

\* The list that add, remove or clear writes.
Changed(kind, key) ==
    IF kind = "add" THEN Peers \cup {key}
    ELSE IF kind = "remove" THEN Peers \ {key}
    ELSE {}

\* devices(), and what each operation makes of the list.
ReadPeers(p) ==
    LET kind == call[p][1]
        key == call[p][2] IN
    /\ pc[p] = "read"
    /\ File(p) = "peers"
    /\ \/ /\ disk["peers"].state = "torn"
          /\ Concludes(p, "error")
          /\ UNCHANGED temp
       \/ /\ disk["peers"].state # "torn"
          /\ kind = "lookup" \/ (kind = "remove" /\ key \notin Peers)
          /\ Concludes(p, IF kind = "remove" THEN "unknown"
                          ELSE IF key \in Peers THEN "yes" ELSE "no")
          /\ UNCHANGED temp
       \/ /\ disk["peers"].state # "torn"
          /\ kind \in {"add", "clear"} \/ (kind = "remove" /\ key \in Peers)
          /\ Writes(p, Changed(kind, key))
          /\ UNCHANGED <<result, running>>
    /\ UNCHANGED <<disk, medium, call, revoked, raced, born, boundVars>>

\* The stored key is one that 0.4.0 stored in clear.
InClear ==
    Windows /\ \E k \in StoredIdentity :
                   <<k, "clear">> \in disk["identity"].lines

\* identity(): a stored key is used, and sealed if it is in clear.
UsesStored(p) ==
    /\ Readable(disk["identity"])
    /\ running' = [running EXCEPT ![p] = StoredIdentity]
    /\ Answers(p, "ok")
    /\ IF InClear
       THEN Writes(p, {<<k, "sealed">> : k \in StoredIdentity})
       ELSE Goes(p, "done") /\ UNCHANGED <<lines, temp>>
    /\ UNCHANGED born

\* identity(): on first use a new key is generated and stored.
UsesNew(p) ==
    /\ disk["identity"].state = "absent"
    /\ Writes(p, {<<born + 1, Form>>})
    /\ born' = born + 1
    /\ UNCHANGED <<result, running>>

\* encode_identity() fails (the key cannot be sealed) or a new key cannot be
\* made: identity() passes the error on before it writes anything.
SealFails(p) ==
    /\ \/ disk["identity"].state = "absent"
       \/ Readable(disk["identity"]) /\ InClear
    /\ Concludes(p, "error")
    /\ UNCHANGED <<temp, born>>

ReadIdentity(p) ==
    /\ pc[p] = "read"
    /\ File(p) = "identity"
    /\ \/ UsesStored(p)
       \/ UsesNew(p)
       \/ SealFails(p)
       \/ /\ disk["identity"].state = "torn"
          /\ Concludes(p, "error")
          /\ UNCHANGED <<temp, born>>
    /\ UNCHANGED <<disk, medium, call, revoked, raced, boundVars>>

-----------------------------------------------------------------------------
(* write_private, one file system call at a time *)

\* identity() replaces a file only to seal the key that it has just read.
Replaces(p) == File(p) = "peers" \/ result[p] = "ok"

Open(p) ==
    /\ pc[p] = "open"
    /\ temp[p][File(p)].state = "absent"
    /\ temp' = [temp EXCEPT ![p][File(p)] = Torn]
    /\ Goes(p, "fill")
    /\ UNCHANGED <<disk, medium, call, lines, result, running, revoked, raced,
                   born, boundVars>>

Fill(p) ==
    /\ pc[p] = "fill"
    /\ temp' = [temp EXCEPT ![p][File(p)] = Whole(lines[p])]
    /\ Goes(p, "sync")
    /\ UNCHANGED <<disk, medium, call, lines, result, running, revoked, raced,
                   born, boundVars>>

\* Variant: the bytes are left to the cache.
SkipSync(p) ==
    /\ pc[p] = "sync"
    /\ Goes(p, IF Replaces(p) THEN "rename" ELSE "check")
    /\ UNCHANGED <<fileVars, call, lines, result, running, revoked, raced, born,
                   boundVars>>

Sync(p) ==
    /\ pc[p] = "sync"
    /\ temp' = [temp EXCEPT ![p][File(p)] = OnMedium(@.lines)]
    /\ Goes(p, IF Replaces(p) THEN "rename" ELSE "check")
    /\ UNCHANGED <<disk, medium, call, lines, result, running, revoked, raced,
                   born, boundVars>>

\* Variant: whatever another process stored meanwhile is replaced.
CheckNothing(p) ==
    /\ pc[p] = "check"
    /\ Goes(p, "rename")
    /\ UNCHANGED <<fileVars, call, lines, result, running, revoked, raced, born,
                   boundVars>>

\* Without replace, a file that is there by now is kept.
Check(p) ==
    /\ pc[p] = "check"
    /\ Goes(p, IF Exists(disk["identity"]) THEN "clean" ELSE "rename")
    /\ UNCHANGED <<fileVars, call, lines, result, running, revoked, raced, born,
                   boundVars>>

\* The keys that the operation of p removes and that nobody is adding meanwhile.
Removed(p) ==
    LET ks == CASE call[p][1] = "remove" -> {call[p][2]}
                [] call[p][1] = "clear" -> Keys
                [] OTHER -> {}
    IN {k \in ks : \A q \in Pids : call[q] # <<"add", k>>}

\* Another process has made sure that there is no identity, too.
Rival(p) ==
    \E q \in Pids \ {p} : pc[q] = "rename" /\ File(q) = "identity"

\* Variant: the path of the list is used for both files.
RenameOntoList(p) ==
    /\ pc[p] = "rename"
    /\ disk' = [disk EXCEPT !["peers"] = temp[p][File(p)]]
    /\ temp' = [temp EXCEPT ![p][File(p)] = Absent]
    /\ Answers(p, IF File(p) = "peers" THEN "ok" ELSE result[p])
    /\ Goes(p, "clean")
    /\ UNCHANGED <<medium, call, lines, running, revoked, raced, born,
                   boundVars>>

Rename(p) ==
    /\ pc[p] = "rename"
    /\ disk' = [disk EXCEPT ![File(p)] = temp[p][File(p)]]
    /\ temp' = [temp EXCEPT ![p][File(p)] = Absent]
    /\ Answers(p, IF File(p) = "peers" THEN "ok" ELSE result[p])
    /\ Goes(p, "clean")
    /\ raced' = IF File(p) = "identity" /\ Rival(p)
                THEN raced \cup {line[1] : line \in lines[p]} ELSE raced
    /\ revoked' = revoked \cup Removed(p)
    /\ UNCHANGED <<medium, call, lines, running, born, boundVars>>

\* Variant: the error is not passed on.
WriteFailsSilently(p) ==
    /\ pc[p] \in {"open", "fill", "sync", "rename"}
    /\ Answers(p, "ok")
    /\ Goes(p, "clean")
    /\ UNCHANGED <<fileVars, call, lines, running, revoked, raced, born,
                   boundVars>>

\* Any of these calls may report an error; it is ignored when the write was only
\* to seal a key that is in use already.
WriteFails(p) ==
    /\ pc[p] \in {"open", "fill", "sync", "rename"}
    /\ Answers(p, IF result[p] = "ok" THEN "ok" ELSE "error")
    /\ Goes(p, "clean")
    /\ UNCHANGED <<fileVars, call, lines, running, revoked, raced, born,
                   boundVars>>

\* The temporary file is removed; after creating an identity it is read again.
Clean(p) ==
    /\ pc[p] = "clean"
    /\ temp' = [temp EXCEPT ![p][File(p)] = Absent]
    /\ Goes(p, IF result[p] = "none" THEN "read" ELSE "done")
    /\ UNCHANGED <<disk, medium, call, lines, result, running, revoked, raced,
                   born, boundVars>>

Forgets(p) ==
    /\ Goes(p, "idle")
    /\ call' = [call EXCEPT ![p] = NoCall]
    /\ lines' = [lines EXCEPT ![p] = {}]
    /\ result' = [result EXCEPT ![p] = "none"]

Return(p) ==
    /\ pc[p] = "done"
    /\ Forgets(p)
    /\ UNCHANGED <<fileVars, running, revoked, raced, born, boundVars>>

\* The process ends, in the middle of an operation or not.
Exit(p) ==
    /\ pc[p] # "idle" \/ running[p] # {}
    /\ Forgets(p)
    /\ running' = [running EXCEPT ![p] = {}]
    /\ UNCHANGED <<fileVars, revoked, raced, born, boundVars>>

-----------------------------------------------------------------------------
(* The environment *)

\* The file system commits the renames; a file's bytes may follow later.
Commit ==
    /\ medium # disk
    /\ medium' = disk
    /\ UNCHANGED <<disk, temp, procVars, revoked, raced, born, boundVars>>

\* What the power leaves of a file.
Survives(content) ==
    IF content.state = "cached" THEN {Torn, OnMedium(content.lines)}
    ELSE {content}

\* Every process ends; each file is the old or the new one.
PowerLoss ==
    /\ mishaps < MaxMishaps
    /\ mishaps' = mishaps + 1
    /\ \E kept \in {disk, medium} :
          disk' \in {d \in [Files -> UNION {Survives(kept[f]) : f \in Files}] :
                        \A f \in Files : d[f] \in Survives(kept[f])}
    /\ medium' = disk'
    /\ temp' = [p \in Pids |-> [f \in Files |->
                   IF Exists(temp[p][f]) THEN Torn ELSE Absent]]
    /\ pc' = [p \in Pids |-> "idle"]
    /\ call' = [p \in Pids |-> NoCall]
    /\ lines' = [p \in Pids |-> {}]
    /\ result' = [p \in Pids |-> "none"]
    /\ running' = [p \in Pids |-> {}]
    /\ revoked' = {}
    /\ UNCHANGED <<raced, born, calls>>

\* The identity becomes unreadable: damaged, or of another Windows user.
Damage ==
    /\ mishaps < MaxMishaps
    /\ mishaps' = mishaps + 1
    /\ Readable(disk["identity"])
    /\ disk' = [disk EXCEPT !["identity"] = Torn]
    /\ medium' = [medium EXCEPT !["identity"] = Torn]
    /\ UNCHANGED <<temp, procVars, revoked, raced, born, calls>>

\* The person follows the message and deletes it, while no program is using it.
Delete ==
    /\ disk["identity"].state = "torn"
    /\ \A p \in Pids : call[p][1] # "identity"
    /\ disk' = [disk EXCEPT !["identity"] = Absent]
    /\ medium' = [medium EXCEPT !["identity"] = Absent]
    /\ raced' = raced \cup UNION {running[p] : p \in Pids}
    /\ UNCHANGED <<temp, procVars, revoked, born, boundVars>>

Step(p) ==
    \/ ReadPeers(p) \/ ReadIdentity(p)
    \/ Open(p) \/ Fill(p) \/ Sync(p) \/ Check(p) \/ Rename(p) \/ WriteFails(p)
    \/ Clean(p) \/ Return(p)

Next ==
    \/ \E p \in Pids : (\E c \in Calls : Begin(p, c)) \/ Step(p) \/ Exit(p)
    \/ Commit \/ PowerLoss \/ Damage \/ Delete

Spec == Init /\ [][Next]_vars
-----------------------------------------------------------------------------
(* Properties *)

TypeOK ==
    LET Lines(f) == IF f = "peers" THEN Keys
                    ELSE (0..born) \X {"clear", "sealed"}
        Contents(f) == [state : {"absent", "torn", "cached", "synced"},
                        lines : SUBSET Lines(f)]
    IN
    /\ \A f \in Files : {disk[f], medium[f]} \subseteq Contents(f)
    /\ \A p \in Pids : \A f \in Files : temp[p][f] \in Contents(f)
    /\ pc \in [Pids -> {"idle", "read", "open", "fill", "sync", "check",
                        "rename", "clean", "done"}]
    /\ call \in [Pids -> Calls \cup {NoCall}]
    /\ \A p \in Pids : lines[p] \subseteq Lines(File(p))
    /\ result \in [Pids -> {"none", "ok", "unknown", "yes", "no", "error"}]
    /\ running \in [Pids -> SUBSET (0..born)]
    /\ revoked \subseteq Keys
    /\ raced \subseteq 0..born
    /\ born \in Nat

\* "Readers never observe a partial list" (write_private): whichever step is the
\* last of a process, and whatever the power leaves, the list can be parsed.
ListIsReadable == disk["peers"].state # "torn" /\ medium["peers"].state # "torn"

\* identity(): a damaged identity is never replaced silently and a stored one is
\* kept, so what a running process authenticates with is what the next one will
\* find, unless two creations overlapped or a person deleted it.
RunsWithStored ==
    \A p \in Pids : Readable(disk["identity"]) =>
        running[p] \ raced \subseteq StoredIdentity

\* Trust: "a revocation applies to the next connection of a running host"
\* (trust.rs:142), so a removed key stays out until it is paired again.
RevocationHolds == revoked \cap Peers = {}

\* The list of this module is the one TrustList promises.
List == INSTANCE TrustList WITH
    list <- Peers,
    saved <- medium["peers"].lines,
    call <- [p \in Pids |-> IF File(p) = "peers" THEN call[p] ELSE NoCall],
    answer <- [p \in Pids |-> IF File(p) = "peers" THEN result[p] ELSE "none"]

\* Each operation on the list takes effect at once or not at all, for every
\* process, crash and loss of power, while one process at a time changes it.
ImplementsTrustList == List!Spec
=============================================================================
