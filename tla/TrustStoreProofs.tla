-------------------------- MODULE TrustStoreProofs --------------------------
(***************************************************************************)
(* What holds of the trust store for any number of processes, peers,       *)
(* operations, crashes and losses of power.                                *)
(***************************************************************************)
EXTENDS TrustStore, TLAPS

States == {"absent", "torn", "cached", "synced"}
LinesOf(f) == IF f = "peers" THEN Keys ELSE (0..born) \X {"clear", "sealed"}
LineSets == SUBSET (Keys \cup (Nat \X {"clear", "sealed"}))
Contents == [state : States, lines : LineSets]
Places == {"idle", "read", "open", "fill", "sync", "check", "rename", "clean",
           "done"}
Writing == {"open", "fill", "sync", "check", "rename"}
Results == {"none", "ok", "unknown", "yes", "no", "error"}

\* What the frames of the actions need: every variable is a function.
Shape ==
    /\ disk \in [Files -> Contents]
    /\ medium \in [Files -> Contents]
    /\ temp \in [Pids -> [Files -> Contents]]
    /\ pc \in [Pids -> Places]
    /\ call \in [Pids -> Calls \cup {NoCall}]
    /\ lines \in [Pids -> LineSets]
    /\ result \in [Pids -> Results]
    /\ born \in Nat

\* The list has been on the medium since before it got its name.
Stable(content) == content.state \in {"absent", "synced"}

DiskOK ==
    /\ Stable(disk["peers"]) /\ Stable(medium["peers"])
    /\ \A f \in Files : disk[f].lines \subseteq LinesOf(f)
    /\ \A f \in Files : medium[f].lines \subseteq LinesOf(f)

\* What a process holds at each place of write_private.
Held(p) ==
    /\ \A f \in Files : temp[p][f].lines \subseteq LinesOf(f)
    /\ pc[p] \in Writing => lines[p] \subseteq LinesOf(File(p))
    /\ pc[p] \in {"sync", "check", "rename"} =>
           temp[p][File(p)].lines = lines[p]
    /\ pc[p] \in {"check", "rename"} => temp[p][File(p)].state = "synced"

\* Where an operation on the list has its result.
Answered(p) ==
    /\ pc[p] = "idle" <=> call[p] = NoCall
    /\ File(p) = "peers" /\ pc[p] \in {"idle", "read"} \cup Writing
          => result[p] = "none"
    /\ File(p) = "peers" /\ pc[p] \in {"clean", "done"} => result[p] # "none"
    /\ File(p) = "peers" => pc[p] # "check"

IInv ==
    /\ Shape
    /\ DiskOK
    /\ \A p \in Pids : Held(p) /\ Answered(p)

LEMMA FileFacts == \A p : File(p) \in Files /\ File(p) \in {"peers", "identity"}
BY DEF File, Files

LEMMA ContentFacts ==
    /\ Absent \in Contents /\ Absent.lines = {} /\ Absent.state = "absent"
    /\ Torn \in Contents /\ Torn.lines = {}
    /\ \A ls \in LineSets : Whole(ls) \in Contents /\ Whole(ls).lines = ls
    /\ {} \in LineSets
BY DEF Contents, Absent, Torn, Whole, States, LineSets

LEMMA LinesOfFacts ==
    ASSUME born \in Nat
    PROVE  \A f : \A ls : ls \subseteq LinesOf(f) => ls \in LineSets
BY DEF LinesOf, LineSets

LEMMA InitIInv == Init => IInv
<1> SUFFICES ASSUME Init PROVE IInv
    OBVIOUS
<1> DEFINE Old == OnMedium({<<0, "clear">>})
<1>1. /\ Old \in Contents /\ Old.lines = {<<0, "clear">>}
      /\ Old.state = "synced"
    BY DEF Contents, States, LineSets, OnMedium
<1>2. \A f \in Files : disk[f] = Absent \/ (f = "identity" /\ disk[f] = Old)
    BY DEF Init, Files
<1>3. disk \in [Files -> Contents]
    BY <1>1, ContentFacts DEF Init
<1>4. {<<0, "clear">>} \subseteq LinesOf("identity")
    BY DEF Init, LinesOf
<1>5. \A f \in Files : disk[f].lines \subseteq LinesOf(f)
    BY <1>1, <1>2, <1>4, ContentFacts
<1>6. Stable(disk["peers"])
    BY <1>2, ContentFacts DEF Stable, Files
<1>7. DiskOK /\ medium = disk
    BY <1>5, <1>6 DEF DiskOK, Init
<1>8. Shape
    BY <1>3, <1>7, ContentFacts DEF Init, Shape, Places, Results
<1>9. \A p \in Pids : Held(p) /\ Answered(p)
    BY ContentFacts DEF Init, Held, Answered, Writing, File, NoCall
<1> QED  BY <1>7, <1>8, <1>9 DEF IInv

\* A process whose state a step leaves alone.
Untouched(q) ==
    /\ temp'[q] = temp[q]
    /\ pc'[q] = pc[q]
    /\ call'[q] = call[q]
    /\ lines'[q] = lines[q]
    /\ result'[q] = result[q]

LEMMA LinesOfGrow ==
    ASSUME born \in Nat, born' \in Nat, born <= born'
    PROVE  \A f : LinesOf(f) \subseteq LinesOf(f)'
BY DEF LinesOf

LEMMA UntouchedKept ==
    ASSUME NEW q, Held(q), Answered(q), Untouched(q),
           born \in Nat, born' \in Nat, born <= born'
    PROVE  Held(q)' /\ Answered(q)'
<1>1. File(q)' = File(q)
    BY DEF Untouched, File
<1>2. Answered(q)'
    BY <1>1 DEF Answered, Untouched
<1>3. Held(q)'
    BY <1>1, LinesOfGrow DEF Held, Untouched
<1> QED  BY <1>2, <1>3

LEMMA DiskKept ==
    ASSUME DiskOK, UNCHANGED <<disk, medium>>,
           born \in Nat, born' \in Nat, born <= born'
    PROVE  DiskOK'
BY LinesOfGrow DEF DiskOK, Stable

\* A step of process p: what is left to show once the others are set aside.
LEMMA StepOfOne ==
    ASSUME IInv, NEW p \in Pids, Shape', DiskOK', Held(p)', Answered(p)',
           \A q \in Pids \ {p} : Untouched(q), born <= born'
    PROVE  IInv'
BY UntouchedKept DEF IInv, Shape

\* One temporary file of p is changed.
LEMMA TempSet ==
    ASSUME IInv, NEW p \in Pids, NEW g \in Files, NEW content \in Contents,
           temp' = [temp EXCEPT ![p] = [temp[p] EXCEPT ![g] = content]]
    PROVE  /\ temp' \in [Pids -> [Files -> Contents]]
           /\ temp'[p][g] = content
           /\ \A f \in Files \ {g} : temp'[p][f] = temp[p][f]
           /\ \A q \in Pids \ {p} : temp'[q] = temp[q]
BY DEF IInv, Shape

LEMMA TempLines ==
    ASSUME IInv, NEW p \in Pids, NEW g \in Files, NEW content \in Contents,
           temp' = [temp EXCEPT ![p] = [temp[p] EXCEPT ![g] = content]],
           content.lines \subseteq LinesOf(g)', born' \in Nat, born <= born'
    PROVE  \A f \in Files : temp'[p][f].lines \subseteq LinesOf(f)'
<1>1. \A f \in Files : temp[p][f].lines \subseteq LinesOf(f)'
    BY LinesOfGrow DEF IInv, Shape, Held
<1> QED  BY <1>1, TempSet

LEMMA BeginStep ==
    ASSUME IInv, NEW p \in Pids, NEW c \in Calls, Begin(p, c)
    PROVE  IInv'
<1>0. DiskOK' /\ born' = born /\ born <= born'
    BY DiskKept DEF IInv, Shape, Begin, fileVars
<1>1. Shape'
    BY DEF IInv, Shape, Begin, Goes, fileVars, Places
<1>2. \A q \in Pids \ {p} : Untouched(q)
    BY DEF IInv, Shape, Begin, Goes, fileVars, Untouched
<1>3. /\ pc[p] = "idle" /\ pc'[p] = "read" /\ call'[p] = c
      /\ result'[p] = result[p] /\ temp'[p] = temp[p]
    BY DEF IInv, Shape, Begin, Goes, fileVars
<1>4. c # NoCall /\ result[p] = "none"
    BY <1>3 DEF Calls, NoCall, IInv, Answered, File
<1>5. Answered(p)'
    BY <1>3, <1>4 DEF Answered, Writing
<1>6. Held(p)'
    BY <1>0, <1>3, LinesOfGrow DEF IInv, Shape, Held, Writing
<1> QED  BY <1>0, <1>1, <1>2, <1>5, <1>6, StepOfOne

LEMMA ReadPeersStep ==
    ASSUME IInv, NEW p \in Pids, ReadPeers(p)
    PROVE  IInv'
<1>1. /\ pc[p] = "read" /\ File(p) = "peers" /\ File(p)' = "peers"
      /\ UNCHANGED <<disk, medium, call, born>>
    BY DEF ReadPeers, File
<1>2. DiskOK' /\ born <= born'
    BY <1>1, DiskKept DEF IInv, Shape
<1>3. \/ \E a \in {"error", "unknown", "yes", "no"} :
            Concludes(p, a) /\ UNCHANGED temp
      \/ \E ls \in SUBSET Keys : Writes(p, ls) /\ UNCHANGED <<result, running>>
    <2>1. call[p][2] \in Keys \/ call[p][1] \in {"clear", "identity", "none"}
        BY DEF IInv, Shape, Calls, NoCall
    <2>2. Peers \in SUBSET Keys
        BY DEF IInv, DiskOK, LinesOf, Peers, Files
    <2>3. Changed(call[p][1], call[p][2]) \in SUBSET Keys
        BY <2>1, <2>2 DEF Changed
    <2> QED  BY <2>3 DEF ReadPeers
<1>4. CASE \E a \in {"error", "unknown", "yes", "no"} :
              Concludes(p, a) /\ UNCHANGED temp
    <2>1. PICK a \in {"error", "unknown", "yes", "no"} :
              Concludes(p, a) /\ UNCHANGED temp
        BY <1>4
    <2>2. Shape' /\ \A q \in Pids \ {p} : Untouched(q)
        BY <1>1, <2>1
        DEF IInv, Shape, Concludes, Goes, Answers, Places, Results, Untouched
    <2>3. /\ pc'[p] = "done" /\ result'[p] = a /\ call'[p] = call[p]
          /\ temp'[p] = temp[p]
        BY <1>1, <2>1 DEF IInv, Shape, Concludes, Goes, Answers
    <2>4. Answered(p)'
        BY <1>1, <2>3 DEF IInv, Answered, Writing
    <2>5. Held(p)'
        BY <1>1, <2>3, <1>2, LinesOfGrow DEF IInv, Shape, Held, Writing
    <2> QED  BY <1>2, <2>2, <2>4, <2>5, StepOfOne
<1>5. CASE \E ls \in SUBSET Keys :
              Writes(p, ls) /\ UNCHANGED <<result, running>>
    <2>1. PICK ls \in SUBSET Keys :
              Writes(p, ls) /\ UNCHANGED <<result, running>>
        BY <1>5
    <2>2. ls \in LineSets /\ ls \subseteq LinesOf("peers")'
        BY DEF LineSets, LinesOf
    <2>3. Shape' /\ \A q \in Pids \ {p} : Untouched(q)
        BY <1>1, <2>1, <2>2, ContentFacts, FileFacts
        DEF IInv, Shape, Writes, Goes, Places, Untouched
    <2>4. /\ pc'[p] = "open" /\ result'[p] = result[p] /\ call'[p] = call[p]
          /\ lines'[p] = ls
          /\ temp' = [temp EXCEPT ![p] = [temp[p] EXCEPT !["peers"] = Absent]]
        BY <1>1, <2>1 DEF IInv, Shape, Writes, Goes
    <2>5. Answered(p)'
        BY <1>1, <2>4 DEF IInv, Answered, Writing
    <2>6. \A f \in Files : temp'[p][f].lines \subseteq LinesOf(f)'
        BY <1>1, <1>2, <2>4, ContentFacts, FileFacts, TempLines DEF IInv, Shape
    <2>7. Held(p)'
        BY <1>1, <2>2, <2>4, <2>6 DEF Held
    <2> QED  BY <1>2, <2>3, <2>5, <2>7, StepOfOne
<1> QED  BY <1>3, <1>4, <1>5

LEMMA ReadIdentityStep ==
    ASSUME IInv, NEW p \in Pids, ReadIdentity(p)
    PROVE  IInv'
<1>1. /\ pc[p] = "read" /\ File(p) = "identity" /\ File(p)' = "identity"
      /\ UNCHANGED <<disk, medium, call>> /\ born' \in Nat /\ born <= born'
    BY DEF ReadIdentity, UsesStored, UsesNew, SealFails, IInv, Shape, File
<1>2. call[p] # NoCall /\ DiskOK'
    BY <1>1, DiskKept DEF File, NoCall, IInv, Shape
<1>3. \/ UNCHANGED <<lines, temp>> /\ Goes(p, "done")
      \/ \E ls \in SUBSET LinesOf("identity")' : Writes(p, ls)
    <2>1. CASE UsesStored(p)
        <3>1. StoredIdentity \subseteq 0..born
            BY DEF IInv, DiskOK, LinesOf, StoredIdentity, Files
        <3>2. {<<k, "sealed">> : k \in StoredIdentity}
                  \subseteq LinesOf("identity")'
            BY <1>1, <3>1 DEF LinesOf, IInv, Shape
        <3> QED  BY <2>1, <3>2 DEF UsesStored
    <2>2. CASE UsesNew(p)
        <3>1. {<<born + 1, Form>>} \subseteq LinesOf("identity")'
            BY <2>2 DEF LinesOf, Form, IInv, Shape, UsesNew
        <3> QED  BY <2>2, <3>1 DEF UsesNew
    <2> QED  BY <2>1, <2>2 DEF ReadIdentity, SealFails, Concludes
<1>4. /\ result' \in [Pids -> Results]
      /\ \A q \in Pids \ {p} : result'[q] = result[q]
    BY DEF ReadIdentity, UsesStored, UsesNew, SealFails, Concludes, Answers, IInv, Shape,
           Results
<1>5. CASE UNCHANGED <<lines, temp>> /\ Goes(p, "done")
    <2>1. Shape' /\ \A q \in Pids \ {p} : Untouched(q)
        BY <1>1, <1>4, <1>5 DEF IInv, Shape, Goes, Places, Untouched
    <2>2. pc'[p] = "done" /\ call'[p] = call[p] /\ temp'[p] = temp[p]
        BY <1>1, <1>5 DEF IInv, Shape, Goes
    <2>3. Answered(p)'
        BY <1>1, <1>2, <2>2 DEF Answered, Writing
    <2>4. Held(p)'
        BY <1>1, <2>2, LinesOfGrow DEF IInv, Shape, Held, Writing
    <2> QED  BY <1>1, <1>2, <2>1, <2>3, <2>4, StepOfOne
<1>6. CASE \E ls \in SUBSET LinesOf("identity")' : Writes(p, ls)
    <2>1. PICK ls \in SUBSET LinesOf("identity")' : Writes(p, ls)
        BY <1>6
    <2>2. ls \in LineSets
        BY <1>1 DEF LineSets, LinesOf
    <2>3. Shape' /\ \A q \in Pids \ {p} : Untouched(q)
        BY <1>1, <1>4, <2>1, <2>2, ContentFacts, FileFacts
        DEF IInv, Shape, Writes, Goes, Places, Untouched
    <2>4. /\ pc'[p] = "open" /\ call'[p] = call[p] /\ lines'[p] = ls
          /\ temp' = [temp EXCEPT
                         ![p] = [temp[p] EXCEPT !["identity"] = Absent]]
        BY <1>1, <2>1 DEF IInv, Shape, Writes, Goes
    <2>5. Answered(p)'
        BY <1>1, <1>2, <2>4 DEF Answered, Writing
    <2>6. \A f \in Files : temp'[p][f].lines \subseteq LinesOf(f)'
        BY <1>1, <2>4, ContentFacts, FileFacts, TempLines
    <2>7. Held(p)'
        BY <1>1, <2>1, <2>4, <2>6 DEF Held
    <2> QED  BY <1>1, <1>2, <2>3, <2>5, <2>7, StepOfOne
<1> QED  BY <1>3, <1>5, <1>6

\* The calls of write_private before the rename only change the process's own
\* temporary file and place.
LEMMA OpenStep ==
    ASSUME IInv, NEW p \in Pids, Open(p)
    PROVE  IInv'
<1>1. Shape' /\ \A q \in Pids \ {p} : Untouched(q)
    BY ContentFacts, FileFacts
    DEF IInv, Shape, Open, Goes, Places, Untouched
<1>2. /\ pc[p] = "open" /\ pc'[p] = "fill" /\ call'[p] = call[p]
      /\ result'[p] = result[p] /\ lines'[p] = lines[p]
      /\ temp' = [temp EXCEPT ![p] = [temp[p] EXCEPT ![File(p)] = Torn]]
    BY DEF IInv, Shape, Open, Goes
<1>3. /\ UNCHANGED <<disk, medium, born>> /\ born <= born'
      /\ File(p)' = File(p)
    BY <1>2 DEF Open, IInv, Shape, File
<1>4. Answered(p)'
    BY <1>2, <1>3 DEF IInv, Answered, Writing
<1>5. \A f \in Files : temp'[p][f].lines \subseteq LinesOf(f)'
    BY <1>2, <1>3, ContentFacts, FileFacts, TempLines DEF IInv, Shape
<1>6. Held(p)'
    BY <1>2, <1>3, <1>5, LinesOfGrow, FileFacts
    DEF IInv, Shape, Held, Writing
<1>7. DiskOK'
    BY <1>3, DiskKept DEF IInv, Shape
<1> QED  BY <1>1, <1>3, <1>4, <1>6, <1>7, StepOfOne

LEMMA FillStep ==
    ASSUME IInv, NEW p \in Pids, Fill(p)
    PROVE  IInv'
<1>1. /\ Whole(lines[p]) \in Contents /\ Whole(lines[p]).lines = lines[p]
      /\ lines[p] \subseteq LinesOf(File(p)) /\ pc[p] = "fill"
    BY ContentFacts DEF IInv, Shape, Fill, Held, Writing
<1>2. Shape' /\ \A q \in Pids \ {p} : Untouched(q)
    BY <1>1, FileFacts DEF IInv, Shape, Fill, Goes, Places, Untouched
<1>3. /\ pc'[p] = "sync" /\ call'[p] = call[p]
      /\ result'[p] = result[p] /\ lines'[p] = lines[p]
      /\ temp' = [temp EXCEPT
                     ![p] = [temp[p] EXCEPT ![File(p)] = Whole(lines[p])]]
    BY FileFacts DEF IInv, Shape, Fill, Goes
<1>4. /\ UNCHANGED <<disk, medium, born>> /\ born <= born'
      /\ File(p)' = File(p)
    BY <1>3 DEF Fill, IInv, Shape, File
<1>5. Answered(p)'
    BY <1>1, <1>3, <1>4 DEF IInv, Answered, Writing
<1>6. lines[p] \subseteq LinesOf(File(p))' /\ born' \in Nat
    BY <1>1, <1>4, LinesOfGrow DEF IInv, Shape
<1> DEFINE Content == Whole(lines[p])
<1>7. /\ Content \in Contents /\ Content.lines = lines[p]
      /\ Content.lines \subseteq LinesOf(File(p))' /\ File(p) \in Files
      /\ temp' = [temp EXCEPT ![p] = [temp[p] EXCEPT ![File(p)] = Content]]
    BY <1>1, <1>3, <1>6, FileFacts
<1> HIDE DEF Content
<1>8. /\ \A f \in Files : temp'[p][f].lines \subseteq LinesOf(f)'
      /\ temp'[p][File(p)].lines = lines[p]
    <2>1. \A f \in Files : temp'[p][f].lines \subseteq LinesOf(f)'
        BY <1>7, <1>4, <1>6, TempLines
    <2>2. temp'[p][File(p)] = Content
        BY <1>7, TempSet
    <2> QED  BY <1>7, <2>1, <2>2
<1>9. Held(p)'
    BY <1>3, <1>4, <1>6, <1>8 DEF Held, Writing
<1>10. DiskOK'
    BY <1>4, DiskKept DEF IInv, Shape
<1> QED  BY <1>2, <1>4, <1>5, <1>9, <1>10, StepOfOne

LEMMA SyncStep ==
    ASSUME IInv, NEW p \in Pids, Sync(p)
    PROVE  IInv'
<1> DEFINE Old == temp[p][File(p)]
           Synced == OnMedium(Old.lines)
<1>1. Old \in Contents /\ Old.lines = lines[p]
    BY FileFacts DEF IInv, Shape, Held, Sync
<1>2. /\ Synced \in Contents /\ Synced.state = "synced"
      /\ Synced.lines = lines[p]
    BY <1>1 DEF Contents, States, OnMedium
<1>3. temp' = [temp EXCEPT ![p] = [temp[p] EXCEPT ![File(p)] = Synced]]
    BY DEF Sync
<1> HIDE DEF Synced, Old
<1>4. /\ temp' \in [Pids -> [Files -> Contents]]
      /\ temp'[p][File(p)] = Synced
      /\ \A q \in Pids \ {p} : temp'[q] = temp[q]
    <2> DEFINE g == File(p)
    <2>1. g \in Files
        BY FileFacts
    <2>2. temp' = [temp EXCEPT ![p] = [temp[p] EXCEPT ![g] = Synced]]
        BY <1>3
    <2> HIDE DEF g
    <2>3. temp'[p][g] = Synced /\ temp' \in [Pids -> [Files -> Contents]]
        BY <1>2, <2>1, <2>2, TempSet
    <2>4. \A q \in Pids \ {p} : temp'[q] = temp[q]
        BY <1>2, <2>1, <2>2, TempSet
    <2> QED BY <2>3, <2>4 DEF g
<1>5. /\ pc' = [pc EXCEPT ![p] = IF Replaces(p) THEN "rename" ELSE "check"]
      /\ pc[p] = "sync" /\ lines[p] \subseteq LinesOf(File(p))
      /\ UNCHANGED <<disk, medium, call, result, lines, born>>
    BY DEF Sync, Goes, IInv, Held, Writing
<1>6. Shape' /\ \A q \in Pids \ {p} : Untouched(q)
    BY <1>4, <1>5 DEF IInv, Shape, Places, Untouched
<1>7. pc'[p] = IF Replaces(p) THEN "rename" ELSE "check"
    BY <1>5 DEF IInv, Shape
<1>8. Answered(p)'
    BY <1>5, <1>7 DEF IInv, Answered, Writing, Replaces, File
<1>9. /\ DiskOK' /\ born <= born' /\ born' \in Nat /\ File(p)' = File(p)
      /\ lines[p] \subseteq LinesOf(File(p))'
    BY <1>5, DiskKept, LinesOfGrow DEF IInv, Shape, File
<1>10. \A f \in Files : temp'[p][f].lines \subseteq LinesOf(f)'
    BY <1>2, <1>3, <1>9, FileFacts, TempLines
<1>11. Held(p)'
    BY <1>2, <1>4, <1>5, <1>7, <1>9, <1>10 DEF Held
<1> QED  BY <1>6, <1>8, <1>9, <1>11, StepOfOne

\* A step that only moves p and may give it a result.
LEMMA MoveStep ==
    ASSUME IInv, NEW p \in Pids, NEW place \in Places, NEW a \in Results,
           Goes(p, place), Answers(p, a),
           UNCHANGED <<disk, medium, temp, call, lines, born>>,
           Held(p)', Answered(p)'
    PROVE  IInv'
<1>1. Shape' /\ \A q \in Pids \ {p} : Untouched(q)
    BY DEF IInv, Shape, Goes, Answers, Untouched
<1>2. DiskOK' /\ born <= born'
    BY DiskKept DEF IInv, Shape
<1> QED  BY <1>1, <1>2, StepOfOne

LEMMA CheckStep ==
    ASSUME IInv, NEW p \in Pids, Check(p)
    PROVE  IInv'
<1> DEFINE place == IF Exists(disk["identity"]) THEN "clean" ELSE "rename"
<1>1. /\ place \in Places /\ Goes(p, place) /\ Answers(p, result[p])
      /\ result[p] \in Results
      /\ UNCHANGED <<disk, medium, temp, call, lines, born>>
    BY DEF IInv, Shape, Check, Answers, Places, fileVars
<1>2. /\ pc[p] = "check" /\ pc'[p] \in {"clean", "rename"}
      /\ result'[p] = result[p] /\ call'[p] = call[p] /\ lines'[p] = lines[p]
      /\ temp'[p] = temp[p] /\ File(p) = "identity" /\ File(p)' = File(p)
    BY <1>1, FileFacts DEF IInv, Shape, Check, Goes, Answers, Answered, File
<1>3. Answered(p)'
    BY <1>2 DEF IInv, Answered, Writing
<1>4. \A f : LinesOf(f)' = LinesOf(f)
    BY <1>1 DEF LinesOf
<1>5. Held(p)'
    BY <1>2, <1>4 DEF IInv, Held, Writing
<1> HIDE DEF place
<1> QED  BY <1>1, <1>3, <1>5, MoveStep

LEMMA WriteFailsStep ==
    ASSUME IInv, NEW p \in Pids, WriteFails(p)
    PROVE  IInv'
<1> DEFINE a == IF result[p] = "ok" THEN "ok" ELSE "error"
<1>1. /\ "clean" \in Places /\ Goes(p, "clean") /\ Answers(p, a)
      /\ a \in Results /\ a # "none"
      /\ UNCHANGED <<disk, medium, temp, call, lines, born>>
    BY DEF WriteFails, Places, Results, fileVars
<1>2. /\ pc[p] # "idle" /\ pc'[p] = "clean" /\ result'[p] = a
      /\ temp'[p] = temp[p] /\ call'[p] = call[p] /\ File(p)' = File(p)
    BY <1>1 DEF IInv, Shape, WriteFails, Goes, Answers, File
<1>3. Answered(p)'
    BY <1>1, <1>2 DEF IInv, Answered, Writing
<1>4. \A f : LinesOf(f)' = LinesOf(f)
    BY <1>1 DEF LinesOf
<1>5. Held(p)'
    BY <1>2, <1>4 DEF IInv, Held, Writing
<1> HIDE DEF a
<1> QED  BY <1>1, <1>3, <1>5, MoveStep

\* The rename: the list becomes a list that was synced.
LEMMA RenameStep ==
    ASSUME IInv, NEW p \in Pids, Rename(p)
    PROVE  IInv'
<1> DEFINE g == File(p)
           content == temp[p][g]
<1>1. /\ content \in Contents /\ content.state = "synced"
      /\ content.lines \subseteq LinesOf(g) /\ g \in Files
      /\ pc[p] = "rename"
    BY FileFacts DEF IInv, Shape, Held, Rename
<1>2. /\ disk' = [disk EXCEPT ![g] = content]
      /\ temp' = [temp EXCEPT ![p] = [temp[p] EXCEPT ![g] = Absent]]
      /\ UNCHANGED <<medium, call, lines, born>>
      /\ pc' = [pc EXCEPT ![p] = "clean"]
      /\ result' = [result EXCEPT ![p] = IF g = "peers" THEN "ok"
                                         ELSE result[p]]
    BY DEF Rename, Goes, Answers
<1>3. File(p)' = g
    BY <1>2 DEF File
<1>4. \A f : LinesOf(f)' = LinesOf(f)
    BY <1>2 DEF LinesOf
<1> HIDE DEF g, content
<1>5. born \in Nat /\ born' \in Nat /\ born <= born'
    BY <1>2 DEF IInv, Shape
<1>6. /\ \A f \in Files : disk'[f] = IF f = g THEN content ELSE disk[f]
      /\ disk' \in [Files -> Contents]
    BY <1>1, <1>2 DEF IInv, Shape
<1>7. DiskOK'
    BY <1>1, <1>2, <1>4, <1>6 DEF IInv, DiskOK, Stable, Files
<1>8. /\ temp' \in [Pids -> [Files -> Contents]]
      /\ \A q \in Pids \ {p} : temp'[q] = temp[q]
    BY <1>1, <1>2, ContentFacts, TempSet
<1>9. Shape' /\ \A q \in Pids \ {p} : Untouched(q)
    BY <1>2, <1>6, <1>8 DEF IInv, Shape, Places, Results, Untouched
<1>10. /\ pc'[p] = "clean" /\ call'[p] = call[p]
       /\ result'[p] = IF g = "peers" THEN "ok" ELSE result[p]
    BY <1>2 DEF IInv, Shape
<1>11. Answered(p)'
    BY <1>1, <1>3, <1>10 DEF IInv, Answered, Writing
<1>12. \A f \in Files : temp'[p][f].lines \subseteq LinesOf(f)'
    BY <1>1, <1>2, <1>5, ContentFacts, TempLines
<1>13. Held(p)'
    BY <1>10, <1>12 DEF Held, Writing
<1> QED  BY <1>5, <1>7, <1>9, <1>11, <1>13, StepOfOne

LEMMA CleanStep ==
    ASSUME IInv, NEW p \in Pids, Clean(p)
    PROVE  IInv'
<1> DEFINE g == File(p)
<1>1. /\ temp' = [temp EXCEPT ![p] = [temp[p] EXCEPT ![g] = Absent]]
      /\ UNCHANGED <<disk, medium, call, lines, result, born>>
      /\ pc' = [pc EXCEPT ![p] = IF result[p] = "none" THEN "read" ELSE "done"]
      /\ pc[p] = "clean"
    BY DEF Clean, Goes
<1>2. g \in Files /\ File(p)' = g
    BY <1>1, FileFacts DEF File
<1> HIDE DEF g
<1>3. /\ temp' \in [Pids -> [Files -> Contents]]
      /\ \A q \in Pids \ {p} : temp'[q] = temp[q]
    BY <1>1, <1>2, ContentFacts, TempSet
<1>4. Shape' /\ \A q \in Pids \ {p} : Untouched(q)
    BY <1>1, <1>3 DEF IInv, Shape, Places, Untouched
<1>5. DiskOK' /\ born <= born' /\ born' \in Nat
    BY <1>1, DiskKept DEF IInv, Shape
<1>6. /\ pc'[p] = IF result[p] = "none" THEN "read" ELSE "done"
      /\ call'[p] = call[p] /\ result'[p] = result[p]
    BY <1>1 DEF IInv, Shape
<1>7. Answered(p)'
    BY <1>1, <1>2, <1>6 DEF IInv, Answered, Writing, File
<1>8. \A f \in Files : temp'[p][f].lines \subseteq LinesOf(f)'
    BY <1>1, <1>2, <1>5, ContentFacts, TempLines
<1>9. Held(p)'
    BY <1>6, <1>8 DEF Held, Writing
<1> QED  BY <1>4, <1>5, <1>7, <1>9, StepOfOne

\* Return and Exit: the process is left with no operation.
LEMMA ForgetsStep ==
    ASSUME IInv, NEW p \in Pids, Forgets(p), UNCHANGED fileVars,
           UNCHANGED born
    PROVE  IInv'
<1>1. {} \in LineSets /\ NoCall \in Calls \cup {NoCall}
    BY ContentFacts
<1>2. /\ pc' = [pc EXCEPT ![p] = "idle"] /\ call' = [call EXCEPT ![p] = NoCall]
      /\ lines' = [lines EXCEPT ![p] = {}]
      /\ result' = [result EXCEPT ![p] = "none"]
      /\ UNCHANGED <<disk, medium, temp, born>>
    BY DEF Forgets, Goes, fileVars
<1>3. Shape' /\ \A q \in Pids \ {p} : Untouched(q)
    BY <1>1, <1>2 DEF IInv, Shape, Places, Results, Untouched
<1>4. DiskOK' /\ born <= born'
    BY <1>2, DiskKept DEF IInv, Shape
<1>5. /\ pc'[p] = "idle" /\ call'[p] = NoCall /\ result'[p] = "none"
      /\ temp'[p] = temp[p]
    BY <1>2 DEF IInv, Shape
<1>6. Answered(p)'
    BY <1>5 DEF Answered, Writing
<1>7. \A f : LinesOf(f)' = LinesOf(f)
    BY <1>2 DEF LinesOf
<1>8. Held(p)'
    BY <1>5, <1>7 DEF IInv, Held, Writing
<1> QED  BY <1>3, <1>4, <1>6, <1>8, StepOfOne

\* The environment only touches the files of the disk, or ends everybody.
LEMMA DiskStep ==
    ASSUME IInv, disk' \in [Files -> Contents], medium' \in [Files -> Contents],
           DiskOK', UNCHANGED <<temp, pc, call, lines, result, born>>
    PROVE  IInv'
<1>1. Shape'
    BY DEF IInv, Shape
<1>2. \A p \in Pids : Untouched(p)
    BY DEF Untouched
<1>3. \A p \in Pids : Held(p)' /\ Answered(p)'
    BY <1>2, UntouchedKept DEF IInv, Shape
<1> QED  BY <1>1, <1>3 DEF IInv

LEMMA CommitStep ==
    ASSUME IInv, Commit
    PROVE  IInv'
<1>1. /\ medium' = disk /\ disk' = disk
      /\ UNCHANGED <<temp, pc, call, lines, result, born>>
    BY DEF Commit, procVars
<1>2. \A f : LinesOf(f)' = LinesOf(f)
    BY <1>1 DEF LinesOf
<1>3. DiskOK'
    BY <1>1, <1>2 DEF IInv, DiskOK, Stable
<1>4. disk' \in [Files -> Contents] /\ medium' \in [Files -> Contents]
    BY <1>1 DEF IInv, Shape
<1> QED  BY <1>1, <1>3, <1>4, DiskStep

LEMMA DamageStep ==
    ASSUME IInv, Damage \/ Delete
    PROVE  IInv'
<1>1. PICK content \in {Torn, Absent} :
          /\ disk' = [disk EXCEPT !["identity"] = content]
          /\ medium' = [medium EXCEPT !["identity"] = content]
    BY DEF Damage, Delete
<1>2. UNCHANGED <<temp, pc, call, lines, result, born>>
    BY DEF Damage, Delete, procVars
<1>3. content \in Contents /\ content.lines = {} /\ "identity" # "peers"
    BY ContentFacts
<1>4. disk' \in [Files -> Contents] /\ medium' \in [Files -> Contents]
    BY <1>1, <1>3 DEF IInv, Shape
<1>5. \A f : LinesOf(f)' = LinesOf(f)
    BY <1>2 DEF LinesOf
<1>6. \A f \in Files :
          /\ disk'[f] = IF f = "identity" THEN content ELSE disk[f]
          /\ medium'[f] = IF f = "identity" THEN content ELSE medium[f]
    BY <1>1 DEF IInv, Shape
<1>7. DiskOK'
    BY <1>3, <1>5, <1>6 DEF IInv, DiskOK, Stable, Files
<1> QED  BY <1>2, <1>4, <1>7, DiskStep

LEMMA SurvivesFacts ==
    ASSUME NEW content \in Contents, NEW kept \in Survives(content)
    PROVE  /\ kept \in Contents
           /\ kept.lines \subseteq content.lines
           /\ Stable(content) => kept = content
<1>1. OnMedium(content.lines) \in Contents
    BY DEF OnMedium, Contents, States
<1>2. OnMedium(content.lines).lines = content.lines
    BY DEF OnMedium
<1> QED  BY <1>1, <1>2, ContentFacts DEF Survives, Stable

LEMMA PowerLossStep ==
    ASSUME IInv, PowerLoss
    PROVE  IInv'
<1>1. PICK kept \in {disk, medium} :
          /\ disk' \in [Files -> UNION {Survives(kept[f]) : f \in Files}]
          /\ \A f \in Files : disk'[f] \in Survives(kept[f])
    BY DEF PowerLoss
<1>2. /\ medium' = disk'
      /\ temp' = [p \in Pids |-> [f \in Files |->
                     IF Exists(temp[p][f]) THEN Torn ELSE Absent]]
      /\ pc' = [p \in Pids |-> "idle"]
      /\ call' = [p \in Pids |-> NoCall]
      /\ lines' = [p \in Pids |-> {}]
      /\ result' = [p \in Pids |-> "none"]
      /\ born' = born
    BY DEF PowerLoss
<1>3. /\ \A f \in Files : kept[f] \in Contents
      /\ Stable(kept["peers"])
      /\ \A f \in Files : kept[f].lines \subseteq LinesOf(f)
    BY <1>1 DEF IInv, Shape, DiskOK
<1>4. \A f \in Files : /\ disk'[f] \in Contents
                       /\ disk'[f].lines \subseteq kept[f].lines
    BY <1>1, <1>3, SurvivesFacts
<1>5. disk'["peers"] = kept["peers"]
    BY <1>1, <1>3, SurvivesFacts DEF Files
<1>6. \A f : LinesOf(f)' = LinesOf(f)
    BY <1>2 DEF LinesOf
<1>7. DiskOK'
    BY <1>2, <1>3, <1>4, <1>5, <1>6 DEF DiskOK, Stable
<1>8. disk' \in [Files -> Contents] /\ medium' \in [Files -> Contents]
    BY <1>1, <1>2, <1>4
<1>9. Shape'
    BY <1>2, <1>8, ContentFacts DEF IInv, Shape, Places, Results
<1>10. \A p \in Pids : \A f \in Files : temp'[p][f].lines = {}
    BY <1>2, ContentFacts
<1>11. \A p \in Pids : Held(p)'
    BY <1>2, <1>10 DEF Held, Writing
<1>12. \A p \in Pids : Answered(p)'
    BY <1>2 DEF Answered, Writing
<1> QED  BY <1>7, <1>9, <1>11, <1>12 DEF IInv

LEMMA IInvIsInductive == IInv /\ [Next]_vars => IInv'
<1> SUFFICES ASSUME IInv, [Next]_vars PROVE IInv'
    OBVIOUS
<1>1. CASE \E p \in Pids : \E c \in Calls : Begin(p, c)
    BY <1>1, BeginStep
<1>2. CASE \E p \in Pids : Step(p)
    <2>1. PICK p \in Pids : Step(p)
        BY <1>2
    <2>2. CASE Return(p)
        BY <2>2, ForgetsStep DEF Return
    <2> QED  BY <2>1, <2>2, ReadPeersStep, ReadIdentityStep, OpenStep, FillStep,
                SyncStep, CheckStep, RenameStep, WriteFailsStep, CleanStep
             DEF Step
<1>3. CASE \E p \in Pids : Exit(p)
    BY <1>3, ForgetsStep DEF Exit
<1>4. CASE Commit
    BY <1>4, CommitStep
<1>5. CASE PowerLoss
    BY <1>5, PowerLossStep
<1>6. CASE Damage \/ Delete
    BY <1>6, DamageStep
<1>7. CASE UNCHANGED vars
    <2>1. UNCHANGED <<disk, medium, temp, pc, call, lines, result, born>>
        BY <1>7 DEF vars, fileVars, procVars
    <2>2. DiskOK'
        BY <2>1, DiskKept DEF IInv, Shape
    <2>3. disk' \in [Files -> Contents] /\ medium' \in [Files -> Contents]
        BY <2>1 DEF IInv, Shape
    <2> QED  BY <2>1, <2>2, <2>3, DiskStep
<1> QED  BY <1>1, <1>2, <1>3, <1>4, <1>5, <1>6, <1>7 DEF Next

LEMMA Invariance == Spec => []IInv
BY InitIInv, IInvIsInductive, PTL DEF Spec

\* Whichever file system call is a process's last and whatever the power
\* leaves, the list of peers and the one on the medium can be parsed, for any
\* number of processes writing it.
THEOREM ReadableList == Spec => []ListIsReadable
<1>1. IInv => ListIsReadable
    BY DEF IInv, DiskOK, Stable, ListIsReadable
<1> QED  BY <1>1, Invariance, PTL

-----------------------------------------------------------------------------
(* With one writer, TrustStore implements TrustList. *)

OneWriter == \A p, q \in Writers : p = q

\* What a process is about to write is still what its operation makes of the
\* list: no other process has changed the list since it was read.
Fresh(p) ==
    /\ call[p][1] \in {"add", "remove", "clear"} => p \in Writers
    /\ File(p) = "peers" /\ pc[p] \in Writing =>
           /\ call[p][1] \in {"add", "remove", "clear"}
           /\ call[p][1] = "remove" => call[p][2] \in Peers
           /\ lines[p] = Changed(call[p][1], call[p][2])

LEMMA InitFresh == Init => \A p \in Pids : Fresh(p)
<1> SUFFICES ASSUME Init, NEW p \in Pids PROVE Fresh(p)
    OBVIOUS
<1>1. call[p] = <<"none", NoKey>> /\ pc[p] = "idle"
    BY DEF Init, NoCall
<1>2. call[p][1] = "none" /\ pc[p] \notin Writing
    BY <1>1 DEF Writing
<1> QED  BY <1>2 DEF Fresh

\* What a step of another process leaves alone.
Rests(q) ==
    /\ pc'[q] = pc[q]
    /\ call'[q] = call[q]
    /\ lines'[q] = lines[q]
    /\ result'[q] = result[q]

LEMMA Alone ==
    ASSUME IInv, NEW p \in Pids, NEW c \in Calls,
           Begin(p, c) \/ Step(p) \/ Exit(p), NEW q \in Pids \ {p}
    PROVE  Rests(q)
<1> USE DEF Goes, Answers, Rests
<1>1. CASE Begin(p, c)
    BY <1>1 DEF Begin, IInv, Shape
<1>2. CASE ReadPeers(p)
    BY <1>2 DEF ReadPeers, Concludes, Writes, IInv, Shape
<1>3. CASE ReadIdentity(p)
    BY <1>3 DEF ReadIdentity, UsesStored, UsesNew, SealFails, Concludes, Writes, IInv,
       Shape
<1>4. CASE Open(p) \/ Fill(p) \/ Sync(p) \/ Check(p) \/ Clean(p)
    BY <1>4 DEF Open, Fill, Sync, Check, Clean, IInv, Shape
<1>5. CASE Rename(p) \/ WriteFails(p)
    BY <1>5 DEF Rename, WriteFails, IInv, Shape
<1>6. CASE Return(p) \/ Exit(p)
    BY <1>6 DEF Return, Exit, Forgets, IInv, Shape
<1> QED  BY <1>1, <1>2, <1>3, <1>4, <1>5, <1>6 DEF Step

LEMMA FreshKept ==
    ASSUME NEW p \in Pids, Fresh(p), Rests(p), Peers' = Peers
    PROVE  Fresh(p)'
BY DEF Fresh, Rests, File, Changed

\* A process outside write_private, and one inside it.
LEMMA FreshOutside ==
    ASSUME NEW p \in Pids, Fresh(p), pc'[p] \notin Writing \/ File(p)' # "peers",
           call'[p] = call[p] \/ call'[p] = NoCall
    PROVE  Fresh(p)'
<1>1. NoCall[1] \notin {"add", "remove", "clear"}
    BY DEF NoCall
<1> QED  BY <1>1 DEF Fresh

LEMMA FreshInside ==
    ASSUME NEW p \in Pids, Fresh(p), pc[p] \in Writing, call'[p] = call[p],
           lines'[p] = lines[p], Peers' = Peers
    PROVE  Fresh(p)'
BY DEF Fresh, File, Changed

LEMMA DamageKeepsList ==
    ASSUME IInv, Damage \/ Delete
    PROVE  disk'["peers"] = disk["peers"] /\ medium'["peers"] = medium["peers"]
<1>1. PICK content \in {Torn, Absent} :
          /\ disk' = [disk EXCEPT !["identity"] = content]
          /\ medium' = [medium EXCEPT !["identity"] = content]
    BY DEF Damage, Delete
<1>2. "peers" \in Files /\ "identity" \in Files /\ "identity" # "peers"
    BY DEF Files
<1> QED  BY <1>1, <1>2 DEF IInv, Shape

LEMMA RenameFresh ==
    ASSUME OneWriter, IInv, \A q \in Pids : Fresh(q), NEW p \in Pids,
           Rename(p), NEW q \in Pids
    PROVE  Fresh(q)'
<1>1. /\ pc' = [pc EXCEPT ![p] = "clean"] /\ call' = call /\ lines' = lines
      /\ disk' = [disk EXCEPT ![File(p)] = temp[p][File(p)]]
      /\ pc[p] = "rename"
    BY DEF Rename, Goes
<1>2. CASE q = p
    <2>1. pc'[p] \notin Writing
        BY <1>1 DEF IInv, Shape, Writing
    <2> QED  BY <1>1, <1>2, <2>1, FreshOutside
<1>3. CASE q # p /\ File(p) = "identity"
    <2>1. disk'["peers"] = disk["peers"]
        BY <1>1, <1>3 DEF IInv, Shape
    <2>2. pc'[q] = pc[q]
        BY <1>1, <1>3 DEF IInv, Shape
    <2> QED  BY <1>1, <2>1, <2>2 DEF Fresh, File, Peers, Changed
<1>4. CASE q # p /\ File(p) = "peers"
    <2>1. p \in Writers /\ q \notin Writers
        BY <1>1, <1>4 DEF OneWriter, Fresh, Writing
    <2>2. pc'[q] = pc[q]
        BY <1>1, <1>4 DEF IInv, Shape
    <2> QED  BY <1>1, <2>1, <2>2 DEF Fresh, File
<1> QED  BY <1>2, <1>3, <1>4, FileFacts

LEMMA FreshIsKept ==
    ASSUME OneWriter, IInv, \A q \in Pids : Fresh(q), [Next]_vars,
           NEW q \in Pids
    PROVE  Fresh(q)'
<1>1. ASSUME NEW p \in Pids, NEW c \in Calls, Begin(p, c)
      PROVE  Fresh(q)'
    <2>1. /\ pc'[p] = "read" /\ call'[p] = c /\ UNCHANGED disk
          /\ c[1] \in {"add", "remove", "clear"} => p \in Writers
        BY <1>1 DEF Begin, Goes, IInv, Shape, fileVars
    <2>2. Fresh(p)'
        BY <2>1 DEF Fresh, Writing
    <2>3. q # p => Rests(q) /\ Peers' = Peers
        BY <1>1, <2>1, Alone DEF Peers
    <2> QED  BY <2>2, <2>3, FreshKept
<1>2. ASSUME NEW p \in Pids, Step(p) \/ Exit(p), ~Rename(p)
      PROVE  Fresh(q)'
    <2>1. Peers' = Peers
        BY <1>2 DEF Step, ReadPeers, ReadIdentity, Open, Fill, Sync, Check,
           WriteFails, Clean, Return, Exit, fileVars, Peers
    <2>2. SUFFICES Fresh(p)'
        <3>1. <<"clear", NoKey>> \in Calls
            BY DEF Calls
        <3>2. q # p => Rests(q)
            BY <1>2, <3>1, Alone
        <3> QED  BY <2>1, <3>2, FreshKept
    <2>3. CASE ReadPeers(p)
        <3>1. call'[p] = call[p] /\ File(p)' = File(p) /\ pc[p] = "read"
            BY <2>3 DEF ReadPeers, File
        <3>2. CASE pc'[p] = "done"
            BY <3>1, <3>2, FreshOutside DEF Writing
        <3>3. CASE pc'[p] # "done"
            <4>1. \/ \E a : Concludes(p, a)
                  \/ /\ \/ call[p][1] \in {"add", "clear"}
                        \/ call[p][1] = "remove" /\ call[p][2] \in Peers
                     /\ Writes(p, Changed(call[p][1], call[p][2]))
                BY <2>3 DEF ReadPeers
            <4>2. ~ \E a : Concludes(p, a)
                BY <3>3 DEF Concludes, Goes, IInv, Shape
            <4>3. lines'[p] = Changed(call[p][1], call[p][2])
                BY <4>1, <4>2 DEF Writes, IInv, Shape
            <4> QED  BY <2>1, <3>1, <4>1, <4>2, <4>3 DEF Fresh, Changed
        <3> QED  BY <3>2, <3>3
    <2>4. CASE ReadIdentity(p) \/ Check(p)
        <3>1. call'[p] = call[p] /\ File(p) = "identity"
            BY <2>4, FileFacts DEF ReadIdentity, Check, IInv, Answered
        <3> QED  BY <3>1, FreshOutside DEF File
    <2>5. CASE Open(p) \/ Fill(p) \/ Sync(p)
        BY <2>1, <2>5, FreshInside DEF Open, Fill, Sync, Writing
    <2>6. CASE WriteFails(p) \/ Clean(p)
        <3>1. /\ call'[p] = call[p]
              /\ pc'[p] \in {"clean", "read", "done"}
            BY <2>6 DEF WriteFails, Clean, Goes, IInv, Shape
        <3> QED  BY <3>1, FreshOutside DEF Writing
    <2>7. CASE Return(p) \/ Exit(p)
        <3>1. call'[p] = NoCall /\ pc'[p] = "idle"
            BY <2>7 DEF Return, Exit, Forgets, Goes, IInv, Shape
        <3> QED  BY <3>1, FreshOutside DEF Writing
    <2> QED  BY <1>2, <2>3, <2>4, <2>5, <2>6, <2>7 DEF Step
<1>3. CASE PowerLoss
    <2>1. call'[q] = NoCall /\ pc'[q] = "idle"
        BY <1>3 DEF PowerLoss
    <2> QED  BY <2>1, FreshOutside DEF Writing
<1>4. CASE Commit \/ Damage \/ Delete \/ UNCHANGED vars
    <2>1. UNCHANGED <<pc, call, lines, result>>
        BY <1>4 DEF Commit, Damage, Delete, vars, procVars
    <2>2. disk'["peers"] = disk["peers"]
        <3>1. CASE Damage \/ Delete
            BY <3>1, DamageKeepsList
        <3>2. CASE Commit \/ UNCHANGED vars
            BY <3>2 DEF Commit, vars, fileVars
        <3> QED  BY <1>4, <3>1, <3>2
    <2> QED  BY <2>1, <2>2, FreshKept DEF Rests, Peers
<1> QED  BY <1>1, <1>2, <1>3, <1>4, RenameFresh DEF Next

\* What TrustList sees of a process.
Op(p) == IF File(p) = "peers" THEN call[p] ELSE NoCall
Ans(p) == IF File(p) = "peers" THEN result[p] ELSE "none"
Ops == [p \in Pids |-> Op(p)]
Replies == [p \in Pids |-> Ans(p)]

LEMMA Refined ==
    /\ List!vars = <<Peers, medium["peers"].lines, Ops, Replies>>
    /\ List!NoCall = NoCall
BY DEF List!vars, List!NoCall, NoCall, Op, Ans, Ops, Replies

\* A step that TrustList does not see.
LEMMA Stutters ==
    ASSUME Peers' = Peers, medium'["peers"] = medium["peers"],
           \A q \in Pids : Op(q)' = Op(q) /\ Ans(q)' = Ans(q)
    PROVE  UNCHANGED List!vars
<1>1. Ops' = Ops /\ Replies' = Replies
    BY DEF Ops, Replies
<1> QED  BY <1>1 DEF List!vars, Ops, Replies, Op, Ans

LEMMA OthersRest ==
    ASSUME NEW q, Rests(q)
    PROVE  Op(q)' = Op(q) /\ Ans(q)' = Ans(q)
BY DEF Rests, Op, Ans, File

\* A step in which the operation of p has its result.
LEMMA TakesEffect ==
    ASSUME NEW p \in Pids, NEW a, call[p] # NoCall, File(p) = "peers",
           result[p] = "none", result'[p] = a, call'[p] = call[p],
           \A q \in Pids \ {p} : Rests(q), medium'["peers"] = medium["peers"]
    PROVE  List!Answers(p, a)
<1>1. \A q \in Pids : Op(q)' = Op(q)
    BY OthersRest DEF Op, File
<1>2. \A q \in Pids \ {p} : Ans(q)' = Ans(q)
    BY OthersRest
<1>3. Ans(p) = "none" /\ Ans(p)' = a /\ Op(p) = call[p]
    BY DEF Ans, Op, File
<1>4. Ops' = Ops /\ Ops[p] # NoCall /\ Replies[p] = "none"
    BY <1>1, <1>3 DEF Ops, Replies
<1>5. Replies' = [Replies EXCEPT ![p] = a]
    BY <1>2, <1>3 DEF Replies
<1> QED  BY <1>4, <1>5, Refined
         DEF List!Answers, Ops, Replies, Op, Ans

\* What the operations of TrustList say, in terms of Peers and Ops.
LEMMA Effects ==
    ASSUME NEW p \in Pids
    PROVE  /\ /\ Ops[p][1] = "add" /\ Peers' = Peers \cup {Ops[p][2]}
              /\ List!Answers(p, "ok")
              => List!Add(p)
           /\ /\ Ops[p][1] = "remove" /\ Peers' = Peers \ {Ops[p][2]}
              /\ Ops[p][2] \in Peers /\ List!Answers(p, "ok")
              => List!Remove(p)
           /\ /\ Ops[p][1] = "remove" /\ Peers' = Peers
              /\ Ops[p][2] \notin Peers /\ List!Answers(p, "unknown")
              => List!Remove(p)
           /\ /\ Ops[p][1] = "clear" /\ Peers' = {} /\ List!Answers(p, "ok")
              => List!Clear(p)
           /\ /\ Ops[p][1] = "lookup" /\ Peers' = Peers
              /\ \/ Ops[p][2] \in Peers /\ List!Answers(p, "yes")
                 \/ Ops[p][2] \notin Peers /\ List!Answers(p, "no")
              => List!Lookup(p)
<1> USE DEF Ops, Op
<1>1. /\ Ops[p][1] = "add" /\ Peers' = Peers \cup {Ops[p][2]}
      /\ List!Answers(p, "ok")
      => List!Add(p)
    BY DEF List!Add
<1>2. /\ Ops[p][1] = "remove" /\ Peers' = Peers \ {Ops[p][2]}
      /\ Ops[p][2] \in Peers /\ List!Answers(p, "ok")
      => List!Remove(p)
    BY DEF List!Remove
<1>3. /\ Ops[p][1] = "remove" /\ Peers' = Peers
      /\ Ops[p][2] \notin Peers /\ List!Answers(p, "unknown")
      => List!Remove(p)
    BY DEF List!Remove
<1>4. /\ Ops[p][1] = "clear" /\ Peers' = {} /\ List!Answers(p, "ok")
      => List!Clear(p)
    BY DEF List!Clear
<1>5. /\ Ops[p][1] = "lookup" /\ Peers' = Peers
      /\ \/ Ops[p][2] \in Peers /\ List!Answers(p, "yes")
         \/ Ops[p][2] \notin Peers /\ List!Answers(p, "no")
      => List!Lookup(p)
    BY DEF List!Lookup
<1> QED  BY <1>1, <1>2, <1>3, <1>4, <1>5

LEMMA BeginRefines ==
    ASSUME IInv, NEW p \in Pids, NEW c \in Calls, Begin(p, c)
    PROVE  [List!Next]_(List!vars)
<1>1. /\ pc[p] = "idle" /\ call[p] = NoCall /\ result[p] = "none"
      /\ call'[p] = c /\ result'[p] = "none" /\ Peers' = Peers
      /\ medium'["peers"] = medium["peers"]
    BY DEF Begin, IInv, Shape, Answered, File, NoCall, fileVars, Peers
<1>2. \A q \in Pids \ {p} : Op(q)' = Op(q) /\ Ans(q)' = Ans(q)
    BY Alone, OthersRest
<1>3. Op(p) = NoCall /\ Ans(p) = "none" /\ Ans(p)' = "none"
    BY <1>1 DEF Op, Ans, File, NoCall
<1>4. CASE c[1] = "identity"
    <2>1. Op(p)' = NoCall
        BY <1>1, <1>4 DEF Op, File
    <2> QED  BY <1>1, <1>2, <1>3, <2>1, Stutters
<1>5. CASE c[1] # "identity"
    <2>1. c \in List!Calls /\ Op(p)' = c
        BY <1>1, <1>5 DEF List!Calls, Calls, Op, File
    <2>2. Ops' = [Ops EXCEPT ![p] = c] /\ Ops[p] = NoCall
        BY <1>2, <1>3, <2>1 DEF Ops
    <2>3. Replies' = [Replies EXCEPT ![p] = "none"]
        BY <1>2, <1>3 DEF Replies
    <2>4. List!Begin(p, c)
        BY <1>1, <2>2, <2>3, Refined
        DEF List!Begin, Ops, Replies, Op, Ans
    <2> QED  BY <2>1, <2>4 DEF List!Next
<1> QED  BY <1>4, <1>5

LEMMA ReadPeersRefines ==
    ASSUME IInv, NEW p \in Pids, ReadPeers(p)
    PROVE  [List!Next]_(List!vars)
<1>1. /\ File(p) = "peers" /\ pc[p] = "read" /\ result[p] = "none"
      /\ call[p] # NoCall /\ call' = call /\ Peers' = Peers
      /\ medium' = medium
    BY DEF ReadPeers, IInv, Answered, Peers
<1>2. \A q \in Pids \ {p} : Rests(q)
    <2>1. <<"clear", NoKey>> \in Calls
        BY DEF Calls
    <2> QED  BY <2>1, Alone DEF Step
<1>3. ASSUME NEW a, Concludes(p, a)
      PROVE  List!Answers(p, a)
    <2>1. result'[p] = a
        BY <1>3 DEF Concludes, Answers, IInv, Shape
    <2> QED  BY <1>1, <1>2, <2>1, TakesEffect
<1>4. CASE Concludes(p, "error")
    BY <1>1, <1>3, <1>4 DEF List!Next, List!Fails
<1>5. CASE /\ call[p][1] = "lookup"
           /\ Concludes(p, IF call[p][2] \in Peers THEN "yes" ELSE "no")
    <2>1. Ops[p] = call[p]
        BY <1>1 DEF Ops, Op
    <2>2. CASE call[p][2] \in Peers
        <3>1. Concludes(p, "yes")
            BY <1>5, <2>2
        <3>2. List!Lookup(p)
            BY <1>1, <1>3, <1>5, <2>1, <2>2, <3>1, Effects
        <3> QED  BY <3>2 DEF List!Next
    <2>3. CASE call[p][2] \notin Peers
        <3>1. Concludes(p, "no")
            BY <1>5, <2>3
        <3>2. List!Lookup(p)
            BY <1>1, <1>3, <1>5, <2>1, <2>3, <3>1, Effects
        <3> QED  BY <3>2 DEF List!Next
    <2> QED  BY <2>2, <2>3
<1>6. CASE /\ call[p][1] = "remove" /\ call[p][2] \notin Peers
           /\ Concludes(p, "unknown")
    <2>1. Ops[p] = call[p]
        BY <1>1 DEF Ops, Op
    <2>2. List!Remove(p)
        BY <1>1, <1>3, <1>6, <2>1, Effects
    <2> QED  BY <2>2 DEF List!Next
<1>7. CASE UNCHANGED result
    <2>1. \A q \in Pids : Op(q)' = Op(q) /\ Ans(q)' = Ans(q)
        BY <1>1, <1>7 DEF Op, Ans, File
    <2> QED  BY <1>1, <2>1, Stutters
<1> QED  BY <1>4, <1>5, <1>6, <1>7 DEF ReadPeers

LEMMA RenameRefines ==
    ASSUME IInv, NEW p \in Pids, Fresh(p), Rename(p)
    PROVE  [List!Next]_(List!vars)
<1>1. /\ pc[p] = "rename" /\ call' = call /\ medium' = medium
      /\ disk' = [disk EXCEPT ![File(p)] = temp[p][File(p)]]
      /\ result'[p] = IF File(p) = "peers" THEN "ok" ELSE result[p]
    BY DEF Rename, Answers, IInv, Shape
<1>2. \A q \in Pids \ {p} : Rests(q)
    <2>1. <<"clear", NoKey>> \in Calls
        BY DEF Calls
    <2> QED  BY <2>1, Alone DEF Step
<1>3. CASE File(p) = "identity"
    <2>1. Peers' = Peers
        BY <1>1, <1>3 DEF IInv, Shape, Peers, Files
    <2>2. Op(p)' = Op(p) /\ Ans(p)' = Ans(p)
        BY <1>1, <1>3 DEF Op, Ans, File
    <2> QED  BY <1>1, <1>2, <2>1, <2>2, OthersRest, Stutters
<1>4. CASE File(p) = "peers"
    <2>1. Peers' = Changed(call[p][1], call[p][2])
        <3>1. Peers' = temp[p]["peers"].lines
            BY <1>1, <1>4 DEF IInv, Shape, Peers, Files
        <3>2. temp[p]["peers"].lines = lines[p]
            BY <1>1, <1>4 DEF IInv, Held
        <3> QED  BY <1>1, <1>4, <3>1, <3>2 DEF Fresh, Writing
    <2>2. /\ result[p] = "none" /\ result'[p] = "ok" /\ call[p] # NoCall
          /\ call[p][1] \in {"add", "remove", "clear"}
          /\ call[p][1] = "remove" => call[p][2] \in Peers
        BY <1>1, <1>4 DEF IInv, Answered, Fresh, Writing
    <2>3. List!Answers(p, "ok")
        BY <1>1, <1>2, <1>4, <2>2, TakesEffect
    <2>4. Ops[p] = call[p]
        BY <1>4 DEF Ops, Op
    <2>5. List!Add(p) \/ List!Remove(p) \/ List!Clear(p)
        <3>1. CASE call[p][1] = "add"
            BY <2>1, <2>3, <2>4, <3>1, Effects DEF Changed
        <3>2. CASE call[p][1] = "remove"
            BY <2>1, <2>2, <2>3, <2>4, <3>2, Effects DEF Changed
        <3>3. CASE call[p][1] = "clear"
            BY <2>1, <2>3, <2>4, <3>3, Effects DEF Changed
        <3> QED  BY <2>2, <3>1, <3>2, <3>3
    <2> QED  BY <2>5 DEF List!Next
<1> QED  BY <1>3, <1>4, FileFacts

LEMMA WriteFailsRefines ==
    ASSUME IInv, NEW p \in Pids, WriteFails(p)
    PROVE  [List!Next]_(List!vars)
<1>1. /\ pc[p] \in Writing /\ call' = call /\ medium' = medium /\ Peers' = Peers
      /\ result'[p] = IF result[p] = "ok" THEN "ok" ELSE "error"
    BY DEF WriteFails, Writing, Answers, fileVars, Peers, IInv, Shape
<1>2. \A q \in Pids \ {p} : Rests(q)
    <2>1. <<"clear", NoKey>> \in Calls
        BY DEF Calls
    <2> QED  BY <2>1, Alone DEF Step
<1>3. CASE File(p) = "identity"
    <2>1. Op(p)' = Op(p) /\ Ans(p)' = Ans(p)
        BY <1>1, <1>3 DEF Op, Ans, File
    <2> QED  BY <1>1, <1>2, <2>1, OthersRest, Stutters
<1>4. CASE File(p) = "peers"
    <2>1. result[p] = "none" /\ result'[p] = "error" /\ call[p] # NoCall
        BY <1>1, <1>4 DEF IInv, Answered, Writing
    <2>2. List!Answers(p, "error")
        BY <1>1, <1>2, <1>4, <2>1, TakesEffect
    <2> QED  BY <1>1, <2>2 DEF List!Fails, List!Next
<1> QED  BY <1>3, <1>4, FileFacts

LEMMA ForgetsRefines ==
    ASSUME IInv, NEW p \in Pids, Forgets(p), UNCHANGED fileVars,
           \A q \in Pids \ {p} : Rests(q)
    PROVE  [List!Next]_(List!vars)
<1>1. /\ call'[p] = NoCall /\ result'[p] = "none" /\ Peers' = Peers
      /\ medium' = medium
    BY DEF Forgets, IInv, Shape, fileVars, Peers
<1>2. Op(p)' = NoCall /\ Ans(p)' = "none"
    BY <1>1 DEF Op, Ans, File, NoCall
<1>3. CASE Op(p) = NoCall
    <2>1. Ans(p) = "none"
        BY <1>3 DEF Op, Ans, IInv, Answered
    <2> QED  BY <1>1, <1>2, <1>3, <2>1, OthersRest, Stutters
<1>4. CASE Op(p) # NoCall
    <2>1. \A q \in Pids \ {p} : Op(q)' = Op(q) /\ Ans(q)' = Ans(q)
        BY OthersRest
    <2>2. Ops' = [Ops EXCEPT ![p] = NoCall] /\ Ops[p] # NoCall
        <3>1. Ops' = [Ops EXCEPT ![p] = NoCall]
            BY <1>2, <2>1 DEF Ops
        <3>2. Ops[p] # NoCall
            BY <1>4 DEF Ops
        <3> QED  BY <3>1, <3>2
    <2>3. Replies' = [Replies EXCEPT ![p] = "none"]
        BY <1>2, <2>1 DEF Replies
    <2>4. List!Leaves(p)
        BY <1>1, <2>2, <2>3, Refined DEF List!Leaves, Ops, Replies, Op, Ans
    <2> QED  BY <2>4 DEF List!Next
<1> QED  BY <1>3, <1>4

\* The calls of write_private that leave the list and the answer alone.
LEMMA QuietRefines ==
    ASSUME IInv, NEW p \in Pids,
           \/ ReadIdentity(p) \/ Open(p) \/ Fill(p) \/ Sync(p) \/ Check(p)
           \/ Clean(p)
    PROVE  [List!Next]_(List!vars)
<1>1. call' = call /\ medium' = medium /\ Peers' = Peers
    BY DEF ReadIdentity, Open, Fill, Sync, Check, Clean, fileVars, Peers
<1>2. \A q \in Pids \ {p} : Rests(q)
    <2>1. <<"clear", NoKey>> \in Calls
        BY DEF Calls
    <2> QED  BY <2>1, Alone DEF Step
<1>3. File(p) = "identity" \/ result' = result
    BY DEF ReadIdentity, Open, Fill, Sync, Check, Clean
<1>4. Op(p)' = Op(p) /\ Ans(p)' = Ans(p)
    BY <1>1, <1>3 DEF Op, Ans, File
<1> QED  BY <1>1, <1>2, <1>4, OthersRest, Stutters

LEMMA PowerLossRefines ==
    ASSUME IInv, PowerLoss
    PROVE  [List!Next]_(List!vars)
<1>1. PICK kept \in {disk, medium} :
          \A f \in Files : disk'[f] \in Survives(kept[f])
    BY DEF PowerLoss
<1>2. kept["peers"] \in Contents /\ Stable(kept["peers"])
    BY <1>1 DEF IInv, Shape, DiskOK, Files
<1>3. disk'["peers"] = kept["peers"]
    BY <1>1, <1>2, SurvivesFacts DEF Files
<1>4. medium' = disk' /\ Peers' \in {Peers, medium["peers"].lines}
    BY <1>1, <1>3 DEF PowerLoss, Peers
<1>5. \A q \in Pids : Op(q)' = NoCall /\ Ans(q)' = "none"
    BY DEF PowerLoss, Op, Ans, File, NoCall
<1>6. /\ Ops' = [q \in Pids |-> NoCall]
      /\ Replies' = [q \in Pids |-> "none"]
    BY <1>5 DEF Ops, Replies
<1>7. List!PowerLoss
    BY <1>4, <1>6, Refined DEF List!PowerLoss, Ops, Replies, Op, Ans, Peers
<1> QED  BY <1>7 DEF List!Next

\* Each operation on the list takes effect at once or not at all whatever
\* crashes and whenever the power fails, as long as one process at a time changes
\* the list (Trust::add, remove and clear).
THEOREM Implementation ==
    ASSUME OneWriter
    PROVE  Spec => ImplementsTrustList
<1>1. Init => List!Init
    <2> SUFFICES ASSUME Init PROVE List!Init
        OBVIOUS
    <2>1. \A q \in Pids : Op(q) = NoCall /\ Ans(q) = "none"
        BY DEF Init, Op, Ans
    <2>2. Ops = [q \in Pids |-> NoCall] /\ Replies = [q \in Pids |-> "none"]
        BY <2>1 DEF Ops, Replies
    <2>3. disk["peers"].lines = {} /\ medium = disk
        <3>1. disk["peers"] = Absent
            BY DEF Init, Files
        <3> QED  BY <3>1, ContentFacts DEF Init
    <2> QED  BY <2>2, <2>3, Refined DEF List!Init, Ops, Replies, Op, Ans, Peers
<1>2. ASSUME IInv, \A q \in Pids : Fresh(q), [Next]_vars
      PROVE  [List!Next]_(List!vars)
    <2>1. CASE \E p \in Pids : \E c \in Calls : Begin(p, c)
        BY <1>2, <2>1, BeginRefines
    <2>2. ASSUME NEW p \in Pids, Return(p) \/ Exit(p)
          PROVE  [List!Next]_(List!vars)
        <3>1. <<"clear", NoKey>> \in Calls
            BY DEF Calls
        <3>2. \A q \in Pids \ {p} : Rests(q)
            BY <1>2, <2>2, <3>1, Alone DEF Step
        <3>3. Forgets(p) /\ UNCHANGED fileVars
            BY <2>2 DEF Return, Exit
        <3> QED  BY <1>2, <3>2, <3>3, ForgetsRefines
    <2>3. CASE \E p \in Pids : Step(p)
        BY <1>2, <2>2, <2>3, ReadPeersRefines, RenameRefines, WriteFailsRefines,
           QuietRefines DEF Step
    <2>4. CASE PowerLoss
        BY <1>2, <2>4, PowerLossRefines
    <2>5. CASE Commit
        <3>1. /\ medium' = disk
              /\ UNCHANGED <<disk, call, result>>
            BY <2>5 DEF Commit, procVars
        <3>2. List!Saves
            BY <3>1 DEF List!Saves, Peers, File
        <3> QED  BY <3>2 DEF List!Next
    <2>6. CASE Damage \/ Delete \/ UNCHANGED vars
        <3>1. Peers' = Peers /\ medium'["peers"] = medium["peers"]
            BY <1>2, <2>6, DamageKeepsList DEF vars, fileVars, Peers
        <3>2. UNCHANGED <<call, result>>
            BY <2>6 DEF Damage, Delete, vars, procVars
        <3>3. \A q \in Pids : Op(q)' = Op(q) /\ Ans(q)' = Ans(q)
            BY <3>2 DEF Op, Ans, File
        <3> QED  BY <3>1, <3>3, Stutters
    <2> QED  BY <1>2, <2>1, <2>2, <2>3, <2>4, <2>5, <2>6 DEF Next
<1>3. Init => \A q \in Pids : Fresh(q)
    BY InitFresh
<1>4. IInv /\ (\A q \in Pids : Fresh(q)) /\ [Next]_vars
          => (\A q \in Pids : Fresh(q))'
    BY FreshIsKept
<1>5. Spec => [](IInv /\ \A q \in Pids : Fresh(q))
    BY <1>3, <1>4, Invariance, PTL DEF Spec
<1>6. IInv /\ (\A q \in Pids : Fresh(q)) /\ [Next]_vars
          => [List!Next]_(List!vars)
    BY <1>2
<1> QED  BY <1>1, <1>5, <1>6, PTL DEF Spec, ImplementsTrustList, List!Spec
-----------------------------------------------------------------------------
(* The identity: a running process keeps the key that it found, unless two *)
(* creations overlapped.                                                   *)

Identity == disk["identity"]
Storing(p) == File(p) = "identity" /\ pc[p] \in Writing
Creating(p) == Storing(p) /\ result[p] = "none"
Sealing(p) == Storing(p) /\ result[p] = "ok"
RunWithin(S) == \A q \in Pids : running[q] \ raced \subseteq S

\* A file has one key, and a key in clear is the one of 0.4.0.
OneKey(ls) ==
    /\ \A l, m \in ls : l[1] = m[1]
    /\ Windows => \A l \in ls : l[2] = "clear" => l[1] = 0

Outcome(p) ==
    /\ File(p) = "identity" /\ pc[p] = "read" => result[p] = "none"
    /\ Storing(p) => result[p] \in {"none", "ok"}

\* A creation is of a new key and never meets the sealing of an old one.  When it
\* is about to store, nobody runs with a key that it could replace unnoticed.
CreationInv(p) ==
    Creating(p) =>
        /\ \E k \in Nat \ {0} : lines[p] = {<<k, Form>>}
        /\ Readable(Identity) => 0 \notin StoredIdentity
        /\ \A q \in Pids : ~Sealing(q)
        /\ pc[p] = "rename" =>
              /\ RunWithin({})
              /\ Readable(Identity) => StoredIdentity \subseteq raced

SealInv(p) ==
    Sealing(p) =>
        /\ lines[p] = {<<0, "sealed">>}
        /\ Exists(Identity)
        /\ Readable(Identity) => StoredIdentity \subseteq {0}
        /\ RunWithin({0})

StoredInv ==
    /\ running \in [Pids -> SUBSET Nat]
    /\ OneKey(disk["identity"].lines) /\ OneKey(medium["identity"].lines)
    /\ ~Exists(Identity) => RunWithin({})
    /\ Readable(Identity) => RunWithin(StoredIdentity)

IdentityInv ==
    /\ StoredInv
    /\ \A p \in Pids : Outcome(p) /\ CreationInv(p) /\ SealInv(p)
LEMMA IdentityInit == Init => IdentityInv
<1> SUFFICES ASSUME Init PROVE IdentityInv
    OBVIOUS
<1>1. \A p \in Pids : ~Storing(p) /\ result[p] = "none" /\ running[p] = {}
    BY DEF Init, Storing, Writing
<1>2. RunWithin({}) /\ RunWithin(StoredIdentity)
    BY <1>1 DEF RunWithin
<1>3. /\ disk["identity"].lines \in {{}, {<<0, "clear">>}}
      /\ medium = disk
    BY DEF Init, Files, Absent, OnMedium
<1>4. OneKey({}) /\ OneKey({<<0, "clear">>})
    BY DEF OneKey
<1>5. StoredInv
    BY <1>2, <1>3, <1>4 DEF StoredInv, Init
<1> QED
    BY <1>1, <1>5 DEF IdentityInv, Outcome, CreationInv, SealInv, Creating, Sealing

\* A step that leaves the identity alone and starts no write of one.
LEMMA CalmStep ==
    ASSUME IdentityInv, NEW p \in Pids, UNCHANGED <<disk, medium, raced>>,
           running' \in [Pids -> SUBSET Nat],
           \A q \in Pids : running'[q] \subseteq running[q],
           \A q \in Pids \ {p} : Rests(q),
           Outcome(p)',
           Creating(p)' => /\ Creating(p) /\ lines'[p] = lines[p]
                           /\ pc'[p] = "rename" => pc[p] = "rename",
           Sealing(p)' => Sealing(p) /\ lines'[p] = lines[p]
    PROVE  IdentityInv'
<1>1. \A S : RunWithin(S) => RunWithin(S)'
    BY DEF RunWithin
<1>2. /\ Identity' = Identity /\ StoredIdentity' = StoredIdentity
      /\ Readable(Identity)' = Readable(Identity)
      /\ Exists(Identity)' = Exists(Identity)
    BY DEF Identity, StoredIdentity, Readable, Exists
<1>3. StoredInv'
    BY <1>1, <1>2 DEF IdentityInv, StoredInv, RunWithin
<1>4. \A q \in Pids \ {p} :
          /\ Outcome(q)' = Outcome(q)
          /\ Creating(q)' = Creating(q)
          /\ Sealing(q)' = Sealing(q)
          /\ lines'[q] = lines[q] /\ pc'[q] = pc[q]
    BY DEF Rests, Outcome, Creating, Sealing, Storing, File
<1>5. \A q \in Pids : Sealing(q)' => Sealing(q)
    BY <1>4
<1>6. ASSUME NEW q \in Pids PROVE Outcome(q)'
    BY <1>4 DEF IdentityInv
<1>7. ASSUME NEW q \in Pids PROVE CreationInv(q)'
    <2> SUFFICES ASSUME Creating(q)' PROVE CreationInv(q)'
        BY DEF CreationInv
    <2>1. /\ Creating(q) /\ lines'[q] = lines[q]
          /\ pc'[q] = "rename" => pc[q] = "rename"
        BY <1>4
    <2>2. CreationInv(q)
        BY DEF IdentityInv
    <2>3. RunWithin({}) => RunWithin({})'
        BY <1>1
    <2> QED  BY <1>2, <1>5, <2>1, <2>2, <2>3 DEF CreationInv, Form
<1>8. ASSUME NEW q \in Pids PROVE SealInv(q)'
    <2> SUFFICES ASSUME Sealing(q)' PROVE SealInv(q)'
        BY DEF SealInv
    <2>1. Sealing(q) /\ lines'[q] = lines[q]
        BY <1>4
    <2>2. SealInv(q)
        BY DEF IdentityInv
    <2>3. RunWithin({0}) => RunWithin({0})'
        BY <1>1
    <2> QED  BY <1>2, <2>1, <2>2, <2>3 DEF SealInv
<1> QED  BY <1>3, <1>6, <1>7, <1>8 DEF IdentityInv

LEMMA CalmSteps ==
    ASSUME IInv, IdentityInv, NEW p \in Pids, NEW c \in Calls,
           \/ Begin(p, c) \/ ReadPeers(p) \/ Open(p) \/ Fill(p) \/ Sync(p)
           \/ WriteFails(p) \/ Clean(p) \/ Return(p) \/ Exit(p)
    PROVE  IdentityInv'
<1>1. \A q \in Pids \ {p} : Rests(q)
    BY Alone DEF Step
<1>2. UNCHANGED <<disk, medium, raced>>
    BY DEF Begin, ReadPeers, Open, Fill, Sync, WriteFails, Clean, Return, Exit,
           fileVars
<1>3. running \in [Pids -> SUBSET Nat]
    BY DEF IdentityInv, StoredInv
<1>4. /\ running' \in [Pids -> SUBSET Nat]
      /\ \A q \in Pids : running'[q] \subseteq running[q]
    BY <1>3
    DEF Begin, ReadPeers, Concludes, Open, Fill, Sync, WriteFails, Clean, Return, Exit
<1>5. Outcome(p) /\ Answered(p) /\ CreationInv(p)
    BY DEF IInv, IdentityInv
<1>6. /\ pc \in [Pids -> Places] /\ call \in [Pids -> Calls \cup {NoCall}]
      /\ lines \in [Pids -> LineSets] /\ result \in [Pids -> Results]
    BY DEF IInv, Shape
<1> USE DEF Goes, Answers
<1>7. CASE Begin(p, c)
    <2>1. /\ pc'[p] = "read" /\ pc[p] = "idle" /\ result'[p] = result[p]
          /\ call[p] = NoCall /\ File(p) = "peers"
        BY <1>5, <1>6, <1>7 DEF Begin, Answered, File, NoCall
    <2>2. result'[p] = "none"
        BY <1>5, <2>1 DEF Answered
    <2> QED
        BY <1>1, <1>2, <1>4, <2>1, <2>2, CalmStep
        DEF Outcome, Creating, Sealing, Storing, Writing
<1>8. CASE ReadPeers(p)
    <2>1. File(p)' = "peers"
        BY <1>8 DEF ReadPeers, File
    <2> QED
        BY <1>1, <1>2, <1>4, <2>1, CalmStep DEF Outcome, Creating, Sealing, Storing
<1>9. CASE Open(p) \/ Fill(p)
    <2>1. /\ pc[p] \in Writing /\ pc'[p] \in Writing \ {"rename", "read"}
          /\ result'[p] = result[p] /\ lines'[p] = lines[p] /\ File(p)' = File(p)
        BY <1>6, <1>9 DEF Open, Fill, Writing, File
    <2> QED
        BY <1>1, <1>2, <1>4, <1>5, <2>1, CalmStep
        DEF Outcome, Creating, Sealing, Storing, Writing
<1>10. CASE Sync(p)
    <2>1. /\ pc[p] \in Writing /\ pc'[p] \in Writing \ {"read"}
          /\ result'[p] = result[p] /\ lines'[p] = lines[p] /\ File(p)' = File(p)
          /\ File(p) = "identity" /\ pc'[p] = "rename" => result[p] = "ok"
        BY <1>6, <1>10 DEF Sync, Replaces, Writing, File
    <2> QED
        BY <1>1, <1>2, <1>4, <1>5, <2>1, CalmStep
        DEF Outcome, Creating, Sealing, Storing, Writing
<1>11. CASE WriteFails(p)
    <2>1. pc'[p] = "clean"
        BY <1>6, <1>11 DEF WriteFails
    <2> QED
        BY <1>1, <1>2, <1>4, <2>1, CalmStep
        DEF Outcome, Creating, Sealing, Storing, Writing
<1>12. CASE Clean(p)
    <2>1. /\ pc'[p] = IF result[p] = "none" THEN "read" ELSE "done"
          /\ result'[p] = result[p]
        BY <1>6, <1>12 DEF Clean
    <2> QED
        BY <1>1, <1>2, <1>4, <2>1, CalmStep
        DEF Outcome, Creating, Sealing, Storing, Writing
<1>13. CASE Return(p) \/ Exit(p)
    <2>1. pc'[p] = "idle"
        BY <1>6, <1>13 DEF Return, Exit, Forgets
    <2> QED
        BY <1>1, <1>2, <1>4, <2>1, CalmStep
        DEF Outcome, Creating, Sealing, Storing, Writing
<1> QED  BY <1>7, <1>8, <1>9, <1>10, <1>11, <1>12, <1>13

\* What the file says is what some process has read or made.
LEMMA StoredFacts ==
    ASSUME IInv, IdentityInv
    PROVE  /\ StoredIdentity \subseteq Nat
           /\ \A l \in Identity.lines : l[1] \in StoredIdentity
           /\ \A k \in StoredIdentity : \E l \in Identity.lines : l[1] = k
           /\ \A l \in Identity.lines : StoredIdentity = {l[1]}
<1>1. Identity.lines \subseteq (0..born) \X {"clear", "sealed"} /\ born \in Nat
    BY DEF IInv, Shape, DiskOK, Files, LinesOf, Identity
<1>2. OneKey(Identity.lines)
    BY DEF IdentityInv, StoredInv, Identity
<1> QED  BY <1>1, <1>2 DEF StoredIdentity, Identity, OneKey

LEMMA OthersRestToo ==
    ASSUME IInv, NEW p \in Pids, Step(p)
    PROVE  \A q \in Pids \ {p} : Rests(q)
<1>1. <<"identity", NoKey>> \in Calls
    BY DEF Calls
<1> QED  BY <1>1, Alone

\* UsesStored: what is read is run with and, if it was in clear, sealed.
LEMMA UsesStoredStep ==
    ASSUME IInv, IdentityInv, NEW p \in Pids, ReadIdentity(p), UsesStored(p)
    PROVE  IdentityInv'
<1> USE DEF Goes, Answers
<1>0. \A q \in Pids \ {p} : Rests(q)
    BY OthersRestToo DEF Step
<1>1. /\ UNCHANGED <<disk, medium, raced, call>> /\ Readable(Identity)
      /\ running' = [running EXCEPT ![p] = StoredIdentity]
      /\ result'[p] = "ok" /\ File(p) = "identity" /\ pc[p] = "read"
    BY DEF ReadIdentity, UsesStored, Identity, IInv, Shape
<1>2. /\ Identity' = Identity /\ StoredIdentity' = StoredIdentity
      /\ Readable(Identity)' = Readable(Identity)
      /\ Exists(Identity)' = Exists(Identity)
      /\ File(p)' = "identity" /\ Exists(Identity)
    BY <1>1 DEF Identity, StoredIdentity, Readable, Exists, File
<1>3. /\ running' \in [Pids -> SUBSET Nat] /\ running'[p] = StoredIdentity
      /\ \A q \in Pids \ {p} : running'[q] = running[q]
    BY <1>1, StoredFacts DEF IdentityInv, StoredInv
<1>4. \A S : RunWithin(S) /\ StoredIdentity \ raced \subseteq S => RunWithin(S)'
    BY <1>1, <1>3 DEF RunWithin
<1>5. StoredInv'
    <2>1. RunWithin(StoredIdentity)'
        BY <1>1, <1>2, <1>3 DEF IdentityInv, StoredInv, RunWithin
    <2> QED  BY <1>1, <1>2, <1>3, <2>1 DEF IdentityInv, StoredInv
<1>6. \/ pc'[p] = "done"
      \/ /\ pc'[p] = "open"
         /\ lines'[p] = {<<0, "sealed">>} /\ StoredIdentity = {0}
    <2>1. CASE pc'[p] = "done"
        BY <2>1
    <2>2. CASE pc'[p] # "done"
        <3>1. PICK k \in StoredIdentity : /\ <<k, "clear">> \in Identity.lines
                                          /\ Windows
            BY <2>2 DEF UsesStored, InClear, Identity, IInv, Shape
        <3>2. k = 0
            BY <3>1 DEF IdentityInv, StoredInv, OneKey, Identity
        <3>3. StoredIdentity = {0}
            BY <3>1, <3>2, StoredFacts
        <3>4. Writes(p, {<<l, "sealed">> : l \in StoredIdentity})
            BY <3>1, <1>1 DEF UsesStored, InClear, Identity
        <3> QED  BY <3>3, <3>4 DEF Writes, IInv, Shape
    <2> QED  BY <2>1, <2>2
<1>7. \A q \in Pids \ {p} :
          /\ Outcome(q)' = Outcome(q)
          /\ Creating(q)' = Creating(q)
          /\ Sealing(q)' = Sealing(q)
          /\ lines'[q] = lines[q] /\ pc'[q] = pc[q]
    BY <1>0 DEF Rests, Outcome, Creating, Sealing, Storing, File
<1>8. ~Creating(p)' /\ (Sealing(p)' => pc'[p] = "open") /\ Outcome(p)'
    BY <1>1, <1>2, <1>6 DEF Creating, Sealing, Storing, Writing, Outcome
<1>9. ASSUME NEW q \in Pids PROVE Outcome(q)'
    BY <1>7, <1>8 DEF IdentityInv
<1>10. ASSUME NEW q \in Pids PROVE CreationInv(q)'
    <2> SUFFICES ASSUME Creating(q)' PROVE CreationInv(q)'
        BY DEF CreationInv
    <2>1. Creating(q) /\ CreationInv(q) /\ q # p
        BY <1>7, <1>8 DEF IdentityInv
    <2>2. ~Sealing(p)'
        BY <1>1, <1>6, <1>8, <2>1 DEF CreationInv
    <2>3. \A r \in Pids : ~Sealing(r)'
        BY <1>7, <2>1, <2>2 DEF CreationInv
    <2>4. pc'[q] = "rename" => RunWithin({})'
        BY <1>1, <1>4, <1>7, <2>1 DEF CreationInv
    <2> QED  BY <1>1, <1>2, <1>7, <2>1, <2>3, <2>4 DEF CreationInv, Form
<1>11. ASSUME NEW q \in Pids PROVE SealInv(q)'
    <2> SUFFICES ASSUME Sealing(q)' PROVE SealInv(q)'
        BY DEF SealInv
    <2>1. CASE q = p
        <3>1. StoredIdentity = {0} /\ lines'[p] = {<<0, "sealed">>}
            BY <1>6, <1>8, <2>1
        <3>2. RunWithin({0})'
            BY <1>1, <1>4, <3>1 DEF IdentityInv, StoredInv
        <3> QED  BY <1>2, <2>1, <3>1, <3>2 DEF SealInv
    <2>2. CASE q # p
        <3>1. Sealing(q) /\ SealInv(q) /\ lines'[q] = lines[q]
            BY <1>7, <2>2 DEF IdentityInv
        <3>2. RunWithin({0})'
            BY <1>1, <1>4, <3>1 DEF SealInv
        <3> QED  BY <1>2, <3>1, <3>2 DEF SealInv
    <2> QED  BY <2>1, <2>2
<1> QED  BY <1>5, <1>9, <1>10, <1>11 DEF IdentityInv

\* UsesNew: nothing is stored, so nobody runs with what may be lost.
LEMMA UsesNewStep ==
    ASSUME IInv, IdentityInv, NEW p \in Pids, ReadIdentity(p), UsesNew(p)
    PROVE  IdentityInv'
<1> USE DEF Goes, Answers
<1>0. \A q \in Pids \ {p} : Rests(q)
    BY OthersRestToo DEF Step
<1>1. /\ UNCHANGED <<disk, medium, raced, running>>
      /\ ~Exists(Identity) /\ ~Readable(Identity)
      /\ File(p)' = "identity" /\ result'[p] = "none"
      /\ pc'[p] = "open" /\ lines'[p] = {<<born + 1, Form>>} /\ born \in Nat
    BY DEF ReadIdentity, UsesNew, Writes, Identity, Exists, Readable, IInv, Shape,
       IdentityInv, Outcome, File
<1>2. /\ Identity' = Identity /\ StoredIdentity' = StoredIdentity
      /\ Readable(Identity)' = Readable(Identity)
      /\ Exists(Identity)' = Exists(Identity)
      /\ RunWithin({})' = RunWithin({}) /\ RunWithin({0})' = RunWithin({0})
    BY <1>1 DEF Identity, StoredIdentity, Readable, Exists, RunWithin
<1>3. StoredInv'
    BY <1>1, <1>2 DEF IdentityInv, StoredInv, RunWithin
<1>4. \A q \in Pids \ {p} :
          /\ Outcome(q)' = Outcome(q)
          /\ Creating(q)' = Creating(q)
          /\ Sealing(q)' = Sealing(q)
          /\ lines'[q] = lines[q] /\ pc'[q] = pc[q]
    BY <1>0 DEF Rests, Outcome, Creating, Sealing, Storing, File
<1>5. Outcome(p)' /\ ~Sealing(p)'
    BY <1>1 DEF Outcome, Sealing, Storing
<1>6. \A q \in Pids : ~Sealing(q)'
    BY <1>1, <1>4, <1>5 DEF IdentityInv, SealInv
<1>7. ASSUME NEW q \in Pids PROVE Outcome(q)' /\ SealInv(q)'
    BY <1>4, <1>5, <1>6 DEF IdentityInv, SealInv
<1>8. ASSUME NEW q \in Pids PROVE CreationInv(q)'
    <2>1. CASE q = p
        BY <1>1, <1>2, <1>6, <2>1 DEF CreationInv, Form
    <2>2. CASE q # p
        BY <1>1, <1>2, <1>4, <1>6, <2>2 DEF IdentityInv, CreationInv, Form
    <2> QED  BY <2>1, <2>2
<1> QED  BY <1>3, <1>7, <1>8 DEF IdentityInv

LEMMA ReadIdentityKeeps ==
    ASSUME IInv, IdentityInv, NEW p \in Pids, ReadIdentity(p)
    PROVE  IdentityInv'
<1>1. CASE ~UsesStored(p) /\ ~UsesNew(p)
    <2>1. \A q \in Pids \ {p} : Rests(q)
        BY OthersRestToo DEF Step
    <2>2. /\ UNCHANGED <<disk, medium, raced, running>> /\ pc'[p] = "done"
        BY <1>1 DEF ReadIdentity, SealFails, Concludes, Goes, IInv, Shape
    <2> QED
        BY <2>1, <2>2, CalmStep
        DEF IdentityInv, StoredInv, Outcome, Creating, Sealing, Storing, Writing
<1> QED  BY <1>1, UsesStoredStep, UsesNewStep

LEMMA CheckKeeps ==
    ASSUME IInv, IdentityInv, NEW p \in Pids, Check(p)
    PROVE  IdentityInv'
<1>0. \A q \in Pids \ {p} : Rests(q)
    BY OthersRestToo DEF Step
<1>1. /\ UNCHANGED <<disk, medium, raced, running>>
      /\ File(p)' = File(p) /\ result'[p] = result[p] /\ lines'[p] = lines[p]
      /\ pc[p] = "check"
      /\ pc'[p] = IF Exists(Identity) THEN "clean" ELSE "rename"
    BY DEF Check, Goes, fileVars, Identity, IInv, Shape, File
<1>2. /\ Identity' = Identity /\ StoredIdentity' = StoredIdentity
      /\ Readable(Identity)' = Readable(Identity)
      /\ Exists(Identity)' = Exists(Identity)
      /\ RunWithin({})' = RunWithin({}) /\ RunWithin({0})' = RunWithin({0})
    BY <1>1 DEF Identity, StoredIdentity, Readable, Exists, RunWithin
<1>3. StoredInv'
    BY <1>1, <1>2 DEF IdentityInv, StoredInv, RunWithin
<1>4. \A q \in Pids \ {p} :
          /\ Outcome(q)' = Outcome(q)
          /\ Creating(q)' = Creating(q)
          /\ Sealing(q)' = Sealing(q)
          /\ lines'[q] = lines[q] /\ pc'[q] = pc[q]
    BY <1>0 DEF Rests, Outcome, Creating, Sealing, Storing, File
<1>5. /\ Creating(p)' => Creating(p) /\ ~Exists(Identity)
      /\ Sealing(p)' => Sealing(p)
      /\ Outcome(p)'
    BY <1>1 DEF IdentityInv, Outcome, Creating, Sealing, Storing, Writing
<1>6. \A q \in Pids : Sealing(q)' => Sealing(q)
    BY <1>4, <1>5
<1>7. ~Exists(Identity) => ~Readable(Identity) /\ RunWithin({})
    BY DEF IdentityInv, StoredInv, Exists, Readable
<1>8. ASSUME NEW q \in Pids PROVE Outcome(q)' /\ SealInv(q)'
    BY <1>1, <1>2, <1>4, <1>5 DEF IdentityInv, SealInv
<1>9. ASSUME NEW q \in Pids PROVE CreationInv(q)'
    <2>1. CASE q = p
        BY <1>1, <1>2, <1>5, <1>6, <1>7, <2>1 DEF IdentityInv, CreationInv, Form
    <2>2. CASE q # p
        BY <1>1, <1>2, <1>4, <1>6, <2>2 DEF IdentityInv, CreationInv, Form
    <2> QED  BY <2>1, <2>2
<1> QED  BY <1>3, <1>8, <1>9 DEF IdentityInv

\* A rename onto the list of peers, an old key that is sealed, a new one.
LEMMA RenameOther ==
    ASSUME IInv, IdentityInv, NEW p \in Pids, Rename(p), File(p) = "peers"
    PROVE  IdentityInv'
<1>0. \A q \in Pids \ {p} : Rests(q)
    BY OthersRestToo DEF Step
<1>1. /\ UNCHANGED <<medium, raced, running>> /\ Identity' = Identity
      /\ pc'[p] = "clean"
    BY DEF Rename, Goes, Identity, IInv, Shape, Files
<1>2. /\ StoredIdentity' = StoredIdentity
      /\ Readable(Identity)' = Readable(Identity)
      /\ Exists(Identity)' = Exists(Identity)
      /\ RunWithin({})' = RunWithin({}) /\ RunWithin({0})' = RunWithin({0})
    BY <1>1 DEF Identity, StoredIdentity, Readable, Exists, RunWithin
<1>3. StoredInv'
    BY <1>1, <1>2 DEF IdentityInv, StoredInv, RunWithin, Identity
<1>4. \A q \in Pids \ {p} :
          /\ Outcome(q)' = Outcome(q)
          /\ Creating(q)' = Creating(q)
          /\ Sealing(q)' = Sealing(q)
          /\ lines'[q] = lines[q] /\ pc'[q] = pc[q]
    BY <1>0 DEF Rests, Outcome, Creating, Sealing, Storing, File
<1>5. ~Creating(p)' /\ ~Sealing(p)' /\ Outcome(p)'
    BY <1>1 DEF Creating, Sealing, Storing, Writing, Outcome
<1>6. ASSUME NEW q \in Pids PROVE Outcome(q)' /\ SealInv(q)' /\ CreationInv(q)'
    BY <1>1, <1>2, <1>4, <1>5 DEF IdentityInv, SealInv, CreationInv, Form
<1> QED  BY <1>3, <1>6 DEF IdentityInv

\* What a rename of an identity leaves.
LEMMA RenamedIdentity ==
    ASSUME IInv, IdentityInv, NEW p \in Pids, Rename(p), File(p) = "identity",
           NEW k, NEW form \in {"clear", "sealed"}, lines[p] = {<<k, form>>}
    PROVE  /\ medium' = medium /\ running' = running
           /\ Identity'.lines = {<<k, form>>}
           /\ StoredIdentity' = {k} /\ Readable(Identity)' /\ Exists(Identity)'
           /\ raced' = IF Rival(p) THEN raced \cup {k} ELSE raced
           /\ pc'[p] = "clean"
           /\ OneKey(medium["identity"].lines)'
           /\ running' \in [Pids -> SUBSET Nat]
<1>1. /\ temp[p]["identity"].lines = {<<k, form>>}
      /\ temp[p]["identity"].state = "synced"
    BY DEF IInv, Held, Rename
<1>2. Identity' = temp[p]["identity"]
    BY DEF Rename, Identity, IInv, Shape, Files
<1>3. StoredIdentity' = {k}
  <2>1. disk'["identity"].lines = {<<k, form>>}
    BY <1>1, <1>2 DEF Identity
  <2>2. {line[1] : line \in disk'["identity"].lines} = {line[1] : line \in {<<k, form>>}}
    BY <2>1
  <2>3. {line[1] : line \in {<<k, form>>}} = {k}
    OBVIOUS
  <2> QED  BY <2>2, <2>3 DEF StoredIdentity
<1>4. Readable(Identity)' /\ Exists(Identity)'
    BY <1>1, <1>2 DEF Readable, Exists
<1>5. {line[1] : line \in lines[p]} = {k}
    OBVIOUS
<1>6. /\ medium' = medium /\ running' = running /\ pc'[p] = "clean"
      /\ raced' = IF Rival(p) THEN raced \cup {k} ELSE raced
    BY <1>5 DEF Rename, Goes, IInv, Shape
<1>7. OneKey(medium["identity"].lines)' /\ running' \in [Pids -> SUBSET Nat]
    BY <1>6 DEF IdentityInv, StoredInv, OneKey
<1> QED  BY <1>1, <1>2, <1>3, <1>4, <1>6, <1>7

LEMMA RenameSealed ==
    ASSUME IInv, IdentityInv, NEW p \in Pids, Rename(p), Sealing(p)
    PROVE  IdentityInv'
<1>0. \A q \in Pids \ {p} : Rests(q)
    BY OthersRestToo DEF Step
<1>1. /\ lines[p] = {<<0, "sealed">>} /\ File(p) = "identity" /\ RunWithin({0})
    BY DEF IdentityInv, SealInv, Sealing, Storing
<1>2. /\ running' = running /\ raced \subseteq raced'
      /\ Identity'.lines = {<<0, "sealed">>}
      /\ StoredIdentity' = {0} /\ Readable(Identity)' /\ Exists(Identity)'
      /\ pc'[p] = "clean"
      /\ OneKey(medium["identity"].lines)'
      /\ running' \in [Pids -> SUBSET Nat]
    BY <1>1, RenamedIdentity
<1>3. RunWithin({0})'
    BY <1>1, <1>2 DEF RunWithin
<1>4. OneKey(disk["identity"].lines)'
    BY <1>2 DEF OneKey, Identity
<1>5. RunWithin(StoredIdentity)'
    BY <1>2, <1>3 DEF RunWithin
<1>6. StoredInv'
    BY <1>2, <1>4, <1>5 DEF StoredInv
<1>7. \A q \in Pids \ {p} :
          /\ Outcome(q)' = Outcome(q)
          /\ Creating(q)' = Creating(q)
          /\ Sealing(q)' = Sealing(q)
          /\ lines'[q] = lines[q]
    BY <1>0 DEF Rests, Outcome, Creating, Sealing, Storing, File
<1>8. ~Creating(p)' /\ ~Sealing(p)' /\ Outcome(p)'
    BY <1>2 DEF Creating, Sealing, Storing, Writing, Outcome
<1>9. \A q \in Pids : ~Creating(q)'
    BY <1>7, <1>8 DEF IdentityInv, CreationInv
<1>10. ASSUME NEW q \in Pids PROVE Outcome(q)' /\ SealInv(q)' /\ CreationInv(q)'
    BY <1>2, <1>3, <1>7, <1>8, <1>9 DEF IdentityInv, SealInv, CreationInv
<1> QED  BY <1>6, <1>10 DEF IdentityInv

LEMMA RenameNew ==
    ASSUME IInv, IdentityInv, NEW p \in Pids, Rename(p), Creating(p)
    PROVE  IdentityInv'
<1>0. \A q \in Pids \ {p} : Rests(q)
    BY OthersRestToo DEF Step
<1>1. PICK k \in Nat \ {0} : lines[p] = {<<k, Form>>}
    BY DEF IdentityInv, CreationInv
<1>2. /\ File(p) = "identity" /\ RunWithin({}) /\ Form \in {"clear", "sealed"}
      /\ \A q \in Pids : ~Sealing(q)
    BY DEF IdentityInv, CreationInv, Creating, Storing, Rename, Form
<1>3. /\ running' = running /\ raced \subseteq raced'
      /\ Rival(p) => k \in raced'
      /\ Identity'.lines = {<<k, Form>>}
      /\ StoredIdentity' = {k} /\ Readable(Identity)' /\ Exists(Identity)'
      /\ pc'[p] = "clean"
      /\ OneKey(medium["identity"].lines)'
      /\ running' \in [Pids -> SUBSET Nat]
  <2>1. /\ medium' = medium /\ running' = running
        /\ Identity'.lines = {<<k, Form>>}
        /\ StoredIdentity' = {k} /\ Readable(Identity)' /\ Exists(Identity)'
        /\ raced' = IF Rival(p) THEN raced \cup {k} ELSE raced
        /\ pc'[p] = "clean"
        /\ OneKey(medium["identity"].lines)'
        /\ running' \in [Pids -> SUBSET Nat]
    <3>1. File(p) = "identity" /\ Form \in {"clear", "sealed"}
      BY <1>2
    <3> QED  BY <3>1, <1>1, RenamedIdentity
  <2>2. raced \subseteq raced' /\ (Rival(p) => k \in raced')
    BY <2>1
  <2> QED  BY <2>1, <2>2
<1>4. RunWithin({})'
    BY <1>2, <1>3 DEF RunWithin
<1>5. OneKey(disk["identity"].lines)'
    BY <1>3 DEF OneKey, Identity, Form
<1>6. StoredInv'
    BY <1>3, <1>4, <1>5 DEF StoredInv, RunWithin
<1>7. \A q \in Pids \ {p} :
          /\ Outcome(q)' = Outcome(q)
          /\ Creating(q)' = Creating(q)
          /\ Sealing(q)' = Sealing(q)
          /\ lines'[q] = lines[q] /\ pc'[q] = pc[q]
    BY <1>0 DEF Rests, Outcome, Creating, Sealing, Storing, File
<1>8. ~Creating(p)' /\ ~Sealing(p)' /\ Outcome(p)'
    BY <1>3 DEF Creating, Sealing, Storing, Writing, Outcome
<1>9. \A q \in Pids : ~Sealing(q)'
    BY <1>2, <1>7, <1>8
<1>10. \A q \in Pids \ {p} : Creating(q) /\ pc[q] = "rename" => k \in raced'
    BY <1>3 DEF Rival, Creating, Storing
<1>11. ASSUME NEW q \in Pids PROVE Outcome(q)' /\ SealInv(q)'
    BY <1>7, <1>8, <1>9 DEF IdentityInv, SealInv
<1>12. ASSUME NEW q \in Pids PROVE CreationInv(q)'
    <2> SUFFICES ASSUME Creating(q)' PROVE CreationInv(q)'
        BY DEF CreationInv
    <2>1. q # p /\ Creating(q) /\ CreationInv(q)
        BY <1>7, <1>8 DEF IdentityInv
    <2> QED
        BY <1>3, <1>4, <1>7, <1>9, <1>10, <2>1 DEF CreationInv, Form
<1> QED  BY <1>6, <1>11, <1>12 DEF IdentityInv

LEMMA RenameKeeps ==
    ASSUME IInv, IdentityInv, NEW p \in Pids, Rename(p)
    PROVE  IdentityInv'
<1>1. File(p) = "identity" => Creating(p) \/ Sealing(p)
    BY DEF IdentityInv, Outcome, Creating, Sealing, Storing, Writing, Rename
<1> QED  BY <1>1, FileFacts, RenameOther, RenameSealed, RenameNew

-----------------------------------------------------------------------------

LEMMA CommitKeeps ==
    ASSUME IdentityInv, Commit
    PROVE  IdentityInv'
<1>1. medium' = disk /\ UNCHANGED <<disk, raced, pc, call, lines, result, running>>
    BY DEF Commit, procVars
<1>2. StoredInv'
    BY <1>1
    DEF IdentityInv, StoredInv, OneKey, RunWithin, Identity, StoredIdentity, Exists,
        Readable
<1>3. ASSUME NEW q \in Pids PROVE Outcome(q)' /\ SealInv(q)' /\ CreationInv(q)'
    BY <1>1
    DEF IdentityInv, SealInv, CreationInv, Outcome, Creating, Sealing, Storing, File,
        RunWithin, Identity, StoredIdentity, Exists, Readable, Form
<1> QED  BY <1>2, <1>3 DEF IdentityInv

LEMMA DamageKeeps ==
    ASSUME IInv, IdentityInv, Damage
    PROVE  IdentityInv'
<1>1. /\ UNCHANGED <<raced, pc, call, lines, result, running>>
      /\ disk'["identity"] = Torn /\ medium'["identity"] = Torn
      /\ Exists(Identity)
    BY DEF Damage, procVars, IInv, Shape, Files, Identity, Exists, Readable
<1>2. Exists(Identity)' /\ ~Readable(Identity)' /\ Torn.lines = {}
    BY <1>1 DEF Identity, Exists, Readable, Torn
<1>3. \A S : RunWithin(S)' <=> RunWithin(S)
    BY <1>1 DEF RunWithin
<1>4. StoredInv'
    BY <1>1, <1>2 DEF IdentityInv, StoredInv, OneKey
<1>5. ASSUME NEW q \in Pids PROVE Outcome(q)' /\ SealInv(q)' /\ CreationInv(q)'
    <2>1. RunWithin({0})' = RunWithin({0}) /\ RunWithin({})' = RunWithin({})
        BY <1>1 DEF RunWithin
    <2>2. \A r \in Pids : /\ Outcome(r)' = Outcome(r)
                          /\ Creating(r)' = Creating(r)
                          /\ Sealing(r)' = Sealing(r)
        BY <1>1 DEF Outcome, Creating, Sealing, Storing, File
    <2> QED
        BY <1>1, <1>2, <2>1, <2>2 DEF IdentityInv, SealInv, CreationInv, Form
<1> QED  BY <1>4, <1>5 DEF IdentityInv

LEMMA DeleteKeeps ==
    ASSUME IInv, IdentityInv, Delete
    PROVE  IdentityInv'
<1>1. /\ UNCHANGED <<pc, call, lines, result, running>>
      /\ raced' = raced \cup UNION {running[p] : p \in Pids}
      /\ disk'["identity"] = Absent /\ medium'["identity"] = Absent
    BY DEF Delete, procVars, IInv, Shape, Files
<1>2. RunWithin({})'
    BY <1>1 DEF RunWithin
<1>3. ~Exists(Identity)' /\ ~Readable(Identity)' /\ Absent.lines = {}
    BY <1>1 DEF Identity, Exists, Readable, Absent
<1>4. StoredInv'
    BY <1>1, <1>2, <1>3 DEF IdentityInv, StoredInv, OneKey
<1>5. ASSUME NEW q \in Pids PROVE ~Storing(q)' /\ Outcome(q)'
    BY <1>1 DEF Delete, Storing, File, IdentityInv, Outcome
<1> QED
    BY <1>4, <1>5 DEF IdentityInv, SealInv, CreationInv, Creating, Sealing

LEMMA PowerLossKeeps ==
    ASSUME IInv, IdentityInv, PowerLoss
    PROVE  IdentityInv'
<1>1. PICK kept \in {disk, medium} : disk'["identity"] \in Survives(kept["identity"])
    BY DEF PowerLoss, Files
<1>2. /\ medium' = disk' /\ running' = [p \in Pids |-> {}]
      /\ pc' = [p \in Pids |-> "idle"]
    BY DEF PowerLoss
<1>3. kept["identity"] \in Contents /\ OneKey(kept["identity"].lines)
    BY <1>1 DEF IInv, Shape, Files, IdentityInv, StoredInv
<1>4. disk'["identity"].lines \subseteq kept["identity"].lines
    BY <1>1, <1>3, SurvivesFacts
<1>5. OneKey(disk'["identity"].lines)
    BY <1>3, <1>4 DEF OneKey
<1>6. RunWithin({})' /\ RunWithin(StoredIdentity)'
    BY <1>2 DEF RunWithin
<1>7. StoredInv'
    BY <1>2, <1>5, <1>6 DEF StoredInv, OneKey
<1>8. ASSUME NEW q \in Pids PROVE ~Storing(q)' /\ Outcome(q)'
    BY <1>2 DEF Storing, Outcome, Writing
<1> QED
    BY <1>7, <1>8 DEF IdentityInv, SealInv, CreationInv, Creating, Sealing

LEMMA IdentityStep == IInv /\ IdentityInv /\ [Next]_vars => IdentityInv'
<1> SUFFICES ASSUME IInv, IdentityInv, [Next]_vars
             PROVE  IdentityInv'
    OBVIOUS
<1>1. ASSUME NEW p \in Pids, NEW c \in Calls, Begin(p, c) \/ Step(p) \/ Exit(p)
      PROVE  IdentityInv'
    BY <1>1, CalmSteps, ReadIdentityKeeps, CheckKeeps, RenameKeeps DEF Step
<1>2. <<"identity", NoKey>> \in Calls
    BY DEF Calls
<1>3. CASE UNCHANGED vars
    <2>1. UNCHANGED <<disk, medium, raced, pc, call, lines, result, running>>
        BY <1>3 DEF vars, fileVars, procVars
    <2>2. StoredInv'
        BY <2>1
        DEF IdentityInv, StoredInv, OneKey, RunWithin, Identity, StoredIdentity,
            Exists, Readable
    <2>3. ASSUME NEW q \in Pids PROVE Outcome(q)' /\ SealInv(q)' /\ CreationInv(q)'
        BY <2>1
        DEF IdentityInv, SealInv, CreationInv, Outcome, Creating, Sealing, Storing,
            File, RunWithin, Identity, StoredIdentity, Exists, Readable, Form
    <2> QED  BY <2>2, <2>3 DEF IdentityInv
<1> QED
    BY <1>1, <1>2, <1>3, CommitKeeps, PowerLossKeeps, DamageKeeps, DeleteKeeps
    DEF Next

\* A running process authenticates with what the next one will find, unless two
\* creations overlapped or the identity was deleted: for any number of processes,
\* crashes, failed calls and losses of power.
THEOREM IdentityKept == Spec => []RunsWithStored
<1>1. IdentityInv => RunsWithStored
    BY DEF IdentityInv, StoredInv, RunWithin, RunsWithStored, Identity
<1>2. Init => IInv /\ IdentityInv
    BY InitIInv, IdentityInit
<1>3. IInv /\ IdentityInv /\ [Next]_vars => (IInv /\ IdentityInv)'
    BY IInvIsInductive, IdentityStep
<1> QED  BY <1>1, <1>2, <1>3, PTL DEF Spec
=============================================================================
