---------------------------- MODULE PairingProofs ----------------------------
(***************************************************************************)
(* The types of Pairing, and why a key in a trust list goes back to one    *)
(* connection both people accepted: TrustNeedsBoth is not inductive,       *)
(* because an accepted verdict travels through queues, files and flags     *)
(* before a key is stored.  IInv says what each of those means wherever it *)
(* is found.  The last sections prove the budget of failures, that a       *)
(* rejection is final, that a revocation lasts (TrustStands), and that     *)
(* neither end takes a message which it does not expect (StepInv: the two  *)
(* ends go in lock step).                                                  *)
(***************************************************************************)
EXTENDS Pairing, TLAPS

(***************************************************************************)
(* Type correctness, for every set of devices and every bound.             *)
(***************************************************************************)

LEMMA HostSendsType ==
    ASSUME TypeOK, NEW m \in HostMessages, HostSends(m)
    PROVE  toClient' \in [Clients -> Seq(HostMessages)]
  BY DEF TypeOK, HostTypeOK, ClientTypeOK, HostSends, Conns, Attached, Conn,
     Dev

LEMMA ClientSendsType ==
    ASSUME TypeOK, NEW c \in Clients,
           NEW m \in ClientMessages, ClientSends(c, m)
    PROVE  toHost' \in Seq(ClientMessages)
  BY DEF TypeOK, HostTypeOK, ClientSends

LEMMA ConfirmReturnsType ==
    ASSUME TypeOK, NEW c \in Clients, ConfirmReturns(c)
    PROVE  /\ clientLocal' \in [Clients -> Verdicts]
           /\ clientRemote' \in [Clients -> Verdicts]
           /\ clicks' \in [Clients -> Seq({"yes", "no"})]
           /\ waiting' \subseteq Clients
  BY DEF TypeOK, ClientTypeOK, ConfirmReturns, Verdicts

LEMMA ClientLeavesType ==
    ASSUME TypeOK, NEW c \in Clients,
           NEW s \in {"first", "pair", "second"}, ClientLeaves(c, s),
           UNCHANGED clientTrust
    PROVE  ClientTypeOK'
  <1>1. toClient' \in [Clients -> Seq(HostMessages)]
    BY DEF TypeOK, ClientTypeOK, ClientLeaves
  <1> QED
    BY <1>1, ConfirmReturnsType
    DEF TypeOK, ClientTypeOK, ClientLeaves, ClientPhases

\* A step of a client touches the host's state only through toHost.
LEMMA ClientStepType ==
    ASSUME TypeOK, ClientTypeOK', toHost' \in Seq(ClientMessages),
           UNCHANGED <<hostPhase, served, hostLocal, hostRemote, lingering,
                       failed, approval, hostTrust, panelVars, misses>>
    PROVE  TypeOK'
  BY DEF TypeOK, HostTypeOK, PanelTypeOK, panelVars

LEMMA HostTypeKept == HostTypeOK /\ UNCHANGED hostVars => HostTypeOK'
  BY DEF HostTypeOK, hostVars

LEMMA PanelTypeKept == PanelTypeOK /\ UNCHANGED panelVars => PanelTypeOK'
  BY DEF PanelTypeOK, panelVars

LEMMA ClientTypeKept == ClientTypeOK /\ UNCHANGED clientVars => ClientTypeOK'
  BY DEF ClientTypeOK, clientVars

LEMMA HostCloseType ==
    ASSUME TypeOK, HostClose, UNCHANGED approval, failed' \in Nat,
           hostTrust' \subseteq Clients
    PROVE  HostTypeOK'
  BY NoConnAssumption
  DEF TypeOK, HostTypeOK, HostClose, HostPhases, Ceremony, Conns, Verdicts,
      Refusals

LEMMA HostFinishType ==
    ASSUME TypeOK, served # NoConn, NEW outcome, HostFinish(outcome)
    PROVE  TypeOK'
  <1>1. failed' \in Nat /\ misses' \in Nat
    BY DEF TypeOK, HostTypeOK, HostFinish
  <1>2. HostTypeOK'
    BY <1>1, HostCloseType DEF HostFinish, TypeOK, HostTypeOK
  <1>3. PanelTypeOK'
    BY DEF TypeOK, HostTypeOK, PanelTypeOK, HostFinish, Lines, NoAnswer
  <1>4. ClientTypeOK'
    BY ClientTypeKept DEF TypeOK, HostFinish
  <1> QED BY <1>1, <1>2, <1>3, <1>4 DEF TypeOK

LEMMA HostRefusesType ==
    ASSUME TypeOK, NEW outcome \in Refusals, HostRefuses(outcome),
           served # NoConn, decisionFile' \in {decisionFile, NoAnswer}
    PROVE  TypeOK'
  <1>1. toClient' \in [Clients -> Seq(HostMessages)]
    BY HostSendsType DEF HostRefuses, HostMessages
  <1>2. HostTypeOK'
    BY DEF TypeOK, HostTypeOK, HostRefuses, HostPhases, Ceremony, Verdicts
  <1>3. PanelTypeOK'
    BY DEF TypeOK, PanelTypeOK, HostRefuses, NoAnswer
  <1>4. ClientTypeOK'
    BY <1>1 DEF TypeOK, ClientTypeOK, HostRefuses
  <1> QED
    BY <1>2, <1>3, <1>4 DEF TypeOK, HostRefuses

LEMMA HostNextType ==
    ASSUME TypeOK, HostNext
    PROVE  TypeOK'
  <1>1. CASE \E c \in Clients : HostAccept(c)
    <2>1. HostTypeOK'
      BY <1>1, NoConnAssumption
      DEF HostAccept, TypeOK, HostTypeOK, Conns, HostPhases, Ceremony,
         Refusals, Verdicts, ClientTypeOK, Conn
    <2> QED
      BY <1>1, <2>1, PanelTypeKept, ClientTypeKept
      DEF HostAccept, TypeOK, panelVars, clientVars
  <1>2. CASE HostDecide
    <2>1. toClient' \in [Clients -> Seq(HostMessages)]
      BY <1>2, HostSendsType
      DEF HostDecide, AdmitSession, RejectSession, ConfirmPaired,
         RefuseCeremony, BeginCeremony, HostMessages
    <2>2. served # NoConn /\ Tail(toHost) \in Seq(ClientMessages)
      BY <1>2 DEF HostDecide, TypeOK, HostTypeOK
    <2>3. HostTypeOK'
      <3>1. CASE AdmitSession \/ BeginCeremony
        BY <1>2, <2>2, <3>1
        DEF HostDecide, AdmitSession, BeginCeremony, TypeOK, HostTypeOK,
           HostPhases, Ceremony
      <3>2. CASE RejectSession \/ ConfirmPaired \/ RefuseCeremony
        <4>1. HostClose
          BY <3>2 DEF RejectSession, ConfirmPaired, RefuseCeremony
        <4> QED BY <1>2, <4>1, HostCloseType DEF HostDecide, TypeOK, HostTypeOK
      <3> QED BY <1>2, <3>1, <3>2 DEF HostDecide
    <2>4. PanelTypeOK'
      BY <1>2
      DEF HostDecide, AdmitSession, RejectSession, ConfirmPaired,
         RefuseCeremony, BeginCeremony, TypeOK, PanelTypeOK, NoAnswer
    <2>5. ClientTypeOK'
      BY <1>2, <2>1 DEF HostDecide, TypeOK, ClientTypeOK
    <2> QED BY <1>2, <2>3, <2>4, <2>5 DEF HostDecide, TypeOK
  <1>3. CASE HostCommit
    <2>1. HostTypeOK'
      BY <1>3
      DEF HostCommit, TypeOK, HostTypeOK, Conns, HostPhases, Ceremony,
         Refusals, Verdicts
    <2>2. ClientTypeOK'
      BY <1>3, HostSendsType
      DEF HostCommit, TypeOK, ClientTypeOK, ClientPhases, Verdicts,
         HostMessages
    <2> QED
      BY <1>3, <2>1, <2>2, PanelTypeKept
      DEF HostCommit, TypeOK, panelVars
  <1>4. CASE HostReveal
    <2>1. HostTypeOK'
      BY <1>4
      DEF HostReveal, TypeOK, HostTypeOK, Conns, HostPhases, Ceremony,
         Refusals, Verdicts
    <2>2. PanelTypeOK'
      BY <1>4
      DEF HostReveal, TypeOK, HostTypeOK, PanelTypeOK, Lines, Conns, NoAnswer
    <2> QED
      BY <1>4, <2>1, <2>2, ClientTypeKept
      DEF HostReveal, TypeOK, clientVars
  <1>5. CASE HostReadsYes
    <2>1. HostTypeOK'
      BY <1>5
      DEF HostReadsYes, BothAccepted, TypeOK, HostTypeOK, Conns, HostPhases,
         Ceremony, Refusals, Verdicts
    <2>2. PanelTypeOK'
      BY <1>5
      DEF HostReadsYes, BothAccepted, TypeOK, HostTypeOK, PanelTypeOK, Lines,
         Conns, NoAnswer
    <2>3. ClientTypeOK'
      BY <1>5, HostSendsType
      DEF HostReadsYes, BothAccepted, TypeOK, ClientTypeOK, ClientPhases,
         Verdicts, HostMessages
    <2> QED BY <1>5, <2>1, <2>2, <2>3 DEF HostReadsYes, TypeOK, hostVars
  <1>6. CASE HostReadsVerdict
    <2>1. HostTypeOK'
      BY <1>6
      DEF HostReadsVerdict, BothAccepted, TypeOK, HostTypeOK, Conns,
         HostPhases, Ceremony, Refusals, Verdicts
    <2> QED
      BY <1>6, <2>1, PanelTypeKept, ClientTypeKept
      DEF HostReadsVerdict, TypeOK, panelVars, clientVars
  <1>7. CASE HostStores
    <2>1. HostTypeOK'
      <3>1. Dev(served) \in Clients
        BY <1>7 DEF HostStores, TypeOK, HostTypeOK, Conns, Dev
      <3>2. failed' \in Nat /\ hostTrust' \subseteq Clients
        BY <1>7, <3>1 DEF HostStores, TypeOK, HostTypeOK
      <3> QED BY <1>7, <3>2, HostCloseType DEF HostStores
    <2>2. PanelTypeOK'
      BY <1>7
      DEF HostStores, HostClose, TypeOK, HostTypeOK, PanelTypeOK, Lines, Conns,
         NoAnswer
    <2> QED
      BY <1>7, <2>1, <2>2, ClientTypeKept
      DEF HostStores, TypeOK, clientVars
  <1>8. CASE \E c \in Clients : Revoke(c)
    <2>1. HostTypeOK'
      BY <1>8
      DEF Revoke, TypeOK, HostTypeOK, Conns, HostPhases, Ceremony, Refusals,
         Verdicts
    <2> QED
      BY <1>8, <2>1, PanelTypeKept, ClientTypeKept
      DEF Revoke, TypeOK, panelVars, clientVars
  <1>9. CASE HandshakeFails \/ HostStoreFails \/ HostSessionEnds
    <2>1. /\ HostClose
          /\ UNCHANGED <<failed, approval, hostTrust, panelVars, clientVars,
                         misses>>
      BY <1>9 DEF HandshakeFails, HostStoreFails, HostSessionEnds
    <2>2. HostTypeOK'
      BY <2>1, HostCloseType DEF TypeOK, HostTypeOK
    <2> QED BY <2>1, <2>2, PanelTypeKept, ClientTypeKept DEF TypeOK
  <1>10. CASE HostReadsRefusal \/ HostLingerEnds \/ CeremonyFails
    <2>1. served # NoConn /\ \E outcome : HostFinish(outcome)
      BY <1>10
      DEF HostReadsRefusal, HostLingerEnds, CeremonyFails, TypeOK, HostTypeOK
    <2> QED BY <2>1, HostFinishType
  <1>11. CASE HostReadsNo \/ HostExpires \/ HostCancels
    <2>1. /\ served # NoConn
          /\ decisionFile' \in {decisionFile, NoAnswer}
          /\ \E outcome \in Refusals : HostRefuses(outcome)
      BY <1>11
      DEF HostReadsNo, HostExpires, HostCancels, Refusals, TypeOK, HostTypeOK
    <2> QED BY <2>1, HostRefusesType
  <1>12. CASE HostStops \/ HostDies
    <2>1. HostDown
      BY <1>12 DEF HostStops, HostDies
    <2>2. HostTypeOK'
      BY <2>1, NoConnAssumption
      DEF HostDown, TypeOK, HostTypeOK, Conns, HostPhases, Refusals, Verdicts
    <2> QED
      BY <2>1, <2>2, PanelTypeKept, ClientTypeKept DEF HostDown, TypeOK
  <1> QED
    BY <1>1, <1>2, <1>3, <1>4, <1>5, <1>6, <1>7, <1>8, <1>9, <1>10, <1>11,
       <1>12
    DEF HostNext, HostStep

LEMMA PanelNextType ==
    ASSUME TypeOK, PanelNext
    PROVE  TypeOK'
  <1>1. CASE \E mode \in {"panel", "none"} : PanelStart(mode)
    <2>1. HostTypeOK'
      BY <1>1
      DEF PanelStart, TypeOK, HostTypeOK, Conns, HostPhases, Ceremony,
         Refusals, Verdicts
    <2>2. PanelTypeOK'
      BY <1>1
      DEF PanelStart, TypeOK, HostTypeOK, PanelTypeOK, Lines, Conns, NoAnswer
    <2> QED
      BY <1>1, <2>1, <2>2, ClientTypeKept
      DEF PanelStart, TypeOK, clientVars
  <1>2. CASE PanelStop
    <2>1. PanelTypeOK'
      BY <1>2
      DEF PanelStop, TypeOK, HostTypeOK, PanelTypeOK, Lines, Conns, NoAnswer
    <2> QED
      BY <1>2, <2>1, HostTypeKept, ClientTypeKept
      DEF PanelStop, TypeOK, hostVars, clientVars
  <1>3. CASE PanelFinish
    <2>1. PanelTypeOK'
      BY <1>3
      DEF PanelFinish, TypeOK, HostTypeOK, PanelTypeOK, Lines, Conns, NoAnswer
    <2> QED
      BY <1>3, <2>1, HostTypeKept, ClientTypeKept
      DEF PanelFinish, TypeOK, hostVars, clientVars
  <1>4. CASE PanelReads
    <2>1. Head(hostOut) \in Lines /\ Tail(hostOut) \in Seq(Lines)
      BY <1>4 DEF PanelReads, TypeOK, PanelTypeOK
    <2>2. Head(hostOut)[2] \in Conns
      BY <2>1 DEF Lines
    <2>3. PanelTypeOK'
      BY <1>4, <2>1, <2>2 DEF PanelReads, TypeOK, PanelTypeOK
    <2> QED BY <1>4, <2>3, HostTypeKept, ClientTypeKept DEF PanelReads, TypeOK
  <1>5. CASE \E answer \in {"accept", "reject"} : PanelAnswer(answer)
    <2>1. PanelTypeOK'
      BY <1>5
      DEF PanelAnswer, TypeOK, HostTypeOK, PanelTypeOK, Lines, Conns, NoAnswer
    <2> QED
      BY <1>5, <2>1, HostTypeKept, ClientTypeKept
      DEF PanelAnswer, TypeOK, hostVars, clientVars
  <1> QED BY <1>1, <1>2, <1>3, <1>4, <1>5 DEF PanelNext

LEMMA ClientNextType ==
    ASSUME TypeOK, NEW c \in Clients, ClientNext(c)
    PROVE  TypeOK'
  <1>1. CASE Dial(c)
    <2>1. ClientTypeOK'
      BY <1>1 DEF Dial, TypeOK, ClientTypeOK, ClientPhases
    <2> QED BY <1>1, <2>1, HostTypeKept, PanelTypeKept DEF Dial, TypeOK
  <1>2. CASE ClientHello(c)
    <2>1. CASE /\ ClientLeaves(c, AfterNotPaired(c))
               /\ UNCHANGED toHost
      <3>1. AfterNotPaired(c) \in {"first", "pair", "second"}
        BY DEF AfterNotPaired
      <3>2. ClientTypeOK' /\ toHost' \in Seq(ClientMessages)
        BY <1>2, <2>1, <3>1, ClientLeavesType
        DEF ClientHello, TypeOK, HostTypeOK
      <3> QED BY <1>2, <3>2, ClientStepType DEF ClientHello
    <2>2. CASE /\ \E m \in Hellos : ClientSends(c, m)
               /\ known' \in {known \cup {c}, known \ {c}}
               /\ phase' = [phase EXCEPT ![c] = "await"]
               /\ UNCHANGED <<stage, dials, toClient, clientLocal,
                              clientRemote, clicks, waiting>>
      <3>1. toHost' \in Seq(ClientMessages)
        BY <2>2, ClientSendsType DEF ClientMessages
      <3>2. ClientTypeOK'
        BY <1>2, <2>2 DEF ClientHello, TypeOK, ClientTypeOK, ClientPhases
      <3> QED BY <1>2, <3>1, <3>2, ClientStepType DEF ClientHello
    <2> QED BY <1>2, <2>1, <2>2 DEF ClientHello, Hellos
  <1>3. CASE ClientReply(c)
    <2>1. toClient[c] \in Seq(HostMessages) /\ toClient[c] # <<>>
      BY <1>3 DEF ClientReply, TypeOK, ClientTypeOK
    <2>2. CASE SessionAccepted(c)
      <3>1. toClient' \in [Clients -> Seq(HostMessages)]
        BY <2>1, <2>2 DEF SessionAccepted, TypeOK, ClientTypeOK
      <3>2. ClientTypeOK'
        BY <1>3, <2>2, <3>1
        DEF ClientReply, SessionAccepted, TypeOK, ClientTypeOK, ClientPhases
      <3>3. toHost' \in Seq(ClientMessages)
        BY <2>2 DEF SessionAccepted, TypeOK, HostTypeOK
      <3> QED BY <1>3, <3>2, <3>3, ClientStepType DEF ClientReply
    <2>3. CASE CeremonyStarts(c)
      <3>1. toClient' \in [Clients -> Seq(HostMessages)]
        BY <2>1, <2>3 DEF CeremonyStarts, TypeOK, ClientTypeOK
      <3>2. ClientTypeOK'
        BY <1>3, <2>3, <3>1
        DEF ClientReply, CeremonyStarts, TypeOK, ClientTypeOK, ClientPhases
      <3>3. toHost' \in Seq(ClientMessages)
        BY <2>3, ClientSendsType DEF CeremonyStarts, ClientMessages
      <3> QED BY <1>3, <3>2, <3>3, ClientStepType DEF ClientReply
    <2>4. CASE AlreadyPaired(c) \/ Rejected(c) \/ UnexpectedReply(c)
      <3>1. PICK s \in {"first", "pair", "second"} : ClientLeaves(c, s)
        BY <2>4
        DEF AlreadyPaired, Rejected, UnexpectedReply, ClientProtocolError,
            AfterNotPaired
      <3>2. UNCHANGED <<toHost, clientTrust>>
        BY <1>3, <2>4
        DEF ClientReply, AlreadyPaired, Rejected, UnexpectedReply,
            ClientProtocolError
      <3>3. ClientTypeOK' /\ toHost' \in Seq(ClientMessages)
        BY <3>1, <3>2, ClientLeavesType DEF TypeOK, HostTypeOK
      <3> QED BY <1>3, <3>3, ClientStepType DEF ClientReply
    <2> QED BY <1>3, <2>2, <2>3, <2>4 DEF ClientReply
  <1>4. CASE ClientNonce(c)
    <2>1. CASE Head(toClient[c]) = "nonce"
      <3>1. toClient' \in [Clients -> Seq(HostMessages)]
        <4>1. Tail(toClient[c]) \in Seq(HostMessages)
          BY <1>4 DEF ClientNonce, TypeOK, ClientTypeOK
        <4>2. toClient' = [toClient EXCEPT ![c] = Tail(toClient[c])]
          BY <1>4, <2>1 DEF ClientNonce, ClientProtocolError
        <4> QED BY <4>1, <4>2 DEF TypeOK, ClientTypeOK
      <3>2. ClientTypeOK'
        BY <1>4, <2>1, <3>1
        DEF ClientNonce, TypeOK, ClientTypeOK, ClientPhases
      <3>3. toHost' \in Seq(ClientMessages)
        BY <1>4, <2>1, ClientSendsType DEF ClientNonce, ClientMessages
      <3> QED BY <1>4, <3>2, <3>3, ClientStepType DEF ClientNonce
    <2>2. CASE ClientProtocolError(c)
      <3>1. ClientLeaves(c, "first") /\ UNCHANGED <<toHost, clientTrust>>
        BY <1>4, <2>2 DEF ClientNonce, ClientProtocolError
      <3>2. ClientTypeOK' /\ toHost' \in Seq(ClientMessages)
        BY <3>1, ClientLeavesType DEF TypeOK, HostTypeOK
      <3> QED BY <1>4, <3>2, ClientStepType DEF ClientNonce
    <2> QED BY <1>4, <2>1, <2>2 DEF ClientNonce
  <1>5. CASE ClickAccept(c)
    <2>1. ClientTypeOK'
      BY <1>5 DEF ClickAccept, TypeOK, ClientTypeOK
    <2> QED
      BY <1>5, <2>1, HostTypeKept, PanelTypeKept DEF ClickAccept, TypeOK
  <1>6. CASE ClickReject(c)
    <2>1. ClientTypeOK'
      BY <1>6 DEF ClickReject, TypeOK, ClientTypeOK
    <2> QED
      BY <1>6, <2>1, HostTypeKept, PanelTypeKept DEF ClickReject, TypeOK
  <1>7. CASE ClientReadsYes(c)
    <2>1. toHost' \in Seq(ClientMessages)
      BY <1>7, ClientSendsType DEF ClientReadsYes, ClientMessages
    <2>2. ClientTypeOK'
      <3>1. CASE /\ ConfirmReturns(c)
                 /\ phase' = [phase EXCEPT ![c] = "store"]
        BY <1>7, <3>1, ConfirmReturnsType
        DEF ClientReadsYes, TypeOK, ClientTypeOK, ClientPhases
      <3>2. CASE /\ clicks' = [clicks EXCEPT ![c] = Tail(@)]
                 /\ clientLocal' = [clientLocal EXCEPT ![c] = "yes"]
                 /\ UNCHANGED <<phase, clientRemote, waiting>>
        <4>1. clicks' \in [Clients -> Seq({"yes", "no"})]
          BY <1>7, <3>2 DEF ClientReadsYes, TypeOK, ClientTypeOK
        <4> QED
          BY <1>7, <3>2, <4>1
          DEF ClientReadsYes, TypeOK, ClientTypeOK, Verdicts
      <3> QED BY <1>7, <3>1, <3>2 DEF ClientReadsYes
    <2> QED BY <1>7, <2>1, <2>2, ClientStepType DEF ClientReadsYes
  <1>8. CASE \E outcome : ClientRefuses(c, outcome)
    <2>1. toHost' \in Seq(ClientMessages)
      BY <1>8, ClientSendsType DEF ClientRefuses, ClientMessages
    <2>2. ClientTypeOK'
      BY <1>8, ConfirmReturnsType
      DEF ClientRefuses, TypeOK, ClientTypeOK, ClientPhases
    <2> QED BY <1>8, <2>1, <2>2, ClientStepType DEF ClientRefuses
  <1>9. CASE ClientReadsVerdict(c)
    <2>1. CASE Head(toClient[c]) = "yes"
      <3>1. toClient' \in [Clients -> Seq(HostMessages)]
        <4>1. Tail(toClient[c]) \in Seq(HostMessages)
          BY <1>9 DEF ClientReadsVerdict, TypeOK, ClientTypeOK
        <4>2. toClient' = [toClient EXCEPT ![c] = Tail(toClient[c])]
          BY <1>9, <2>1 DEF ClientReadsVerdict
        <4> QED BY <4>1, <4>2 DEF TypeOK, ClientTypeOK
      <3>2. UNCHANGED <<toHost, stage, dials, known, clientTrust>>
        BY <1>9, <2>1 DEF ClientReadsVerdict
      <3>3. ClientTypeOK'
        <4>1. CASE /\ ConfirmReturns(c)
                   /\ phase' = [phase EXCEPT ![c] = "store"]
          BY <3>1, <3>2, <4>1, ConfirmReturnsType
          DEF TypeOK, ClientTypeOK, ClientPhases
        <4>2. CASE /\ clientRemote' = [clientRemote EXCEPT ![c] = "yes"]
                   /\ UNCHANGED <<phase, clientLocal, clicks, waiting>>
          BY <3>1, <3>2, <4>2 DEF TypeOK, ClientTypeOK, Verdicts
        <4> QED BY <1>9, <2>1, <4>1, <4>2 DEF ClientReadsVerdict
      <3>4. toHost' \in Seq(ClientMessages)
        BY <3>2 DEF TypeOK, HostTypeOK
      <3> QED BY <1>9, <3>3, <3>4, ClientStepType DEF ClientReadsVerdict
    <2>2. CASE Head(toClient[c]) # "yes"
      <3>1. ClientLeaves(c, "first") /\ UNCHANGED <<toHost, clientTrust>>
        BY <1>9, <2>2 DEF ClientReadsVerdict, ClientProtocolError
      <3>2. ClientTypeOK' /\ toHost' \in Seq(ClientMessages)
        BY <3>1, ClientLeavesType DEF TypeOK, HostTypeOK
      <3> QED BY <1>9, <3>2, ClientStepType DEF ClientReadsVerdict
    <2> QED BY <2>1, <2>2
  <1>10. CASE ClientStores(c)
    <2>1. toClient' \in [Clients -> Seq(HostMessages)]
      BY <1>10 DEF ClientStores, ClientLeaves, TypeOK, ClientTypeOK
    <2>2. ClientTypeOK'
      BY <1>10, <2>1, ConfirmReturnsType
      DEF ClientStores, ClientLeaves, TypeOK, ClientTypeOK, ClientPhases
    <2> QED
      BY <1>10, <2>2, HostTypeKept, PanelTypeKept DEF ClientStores, TypeOK
  <1>11. CASE ClientFails(c) \/ ClientRestarts(c)
    <2>1. PICK s \in {"first", "pair", "second"} : ClientLeaves(c, s)
      BY <1>11 DEF ClientFails, ClientRestarts
    <2>2. UNCHANGED <<hostVars, panelVars, clientTrust, misses>>
      BY <1>11 DEF ClientFails, ClientRestarts
    <2>3. ClientTypeOK'
      BY <2>1, <2>2, ClientLeavesType
    <2> QED BY <2>2, <2>3, HostTypeKept, PanelTypeKept DEF TypeOK
  <1>12. CASE Forget(c)
    <2>1. ClientTypeOK'
      BY <1>12 DEF Forget, TypeOK, ClientTypeOK
    <2> QED BY <1>12, <2>1, HostTypeKept, PanelTypeKept DEF Forget, TypeOK
  <1> QED
    BY <1>1, <1>2, <1>3, <1>4, <1>5, <1>6, <1>7, <1>8, <1>9, <1>10, <1>11,
       <1>12
    DEF ClientNext, ClientReadsNo, ClientGivesUp

LEMMA TypeInit == Init => TypeOK
  BY NoConnAssumption
  DEF Init, TypeOK, HostTypeOK, PanelTypeOK, ClientTypeOK, NoAnswer,
     HostPhases, Verdicts, ClientPhases, Refusals, Conns

LEMMA TypeStep == TypeOK /\ [Next]_vars => TypeOK'
  <1>1. CASE UNCHANGED vars
    BY <1>1, HostTypeKept, PanelTypeKept, ClientTypeKept DEF TypeOK, vars
  <1> QED BY <1>1, HostNextType, PanelNextType, ClientNextType DEF Next

\* No interleaving of host, panel, devices and losses takes a variable out of
\* its range; in particular a connection is served exactly in the phases that
\* have one.
THEOREM TypeCorrect == Spec => []TypeOK
  BY TypeInit, TypeStep, PTL DEF Spec

(***************************************************************************)
(* What an accepted verdict means wherever it is found.                    *)
(***************************************************************************)

Says(q, m) == \E i \in 1..Len(q) : q[i] = m

HostYes(id) == <<"host", "yes", id>> \in log
ClientYes(id) == <<"client", "yes", id>> \in log

HostKnows ==
    /\ served = NoConn => /\ toHost = <<>>
                          /\ hostLocal = "none"
                          /\ hostRemote = "none"
    /\ hostLocal = "yes" => HostYes(served)
    /\ hostRemote = "yes" => ClientYes(served)
    /\ hostPhase = "store" => HostYes(served) /\ ClientYes(served)
    /\ Says(toHost, "yes") => ClientYes(served)

ClientKnows(c) ==
    /\ phase[c] = "off" => /\ toClient[c] = <<>>
                           /\ clicks[c] = <<>>
                           /\ clientLocal[c] = "none"
                           /\ clientRemote[c] = "none"
    /\ clientLocal[c] = "yes" => ClientYes(Conn(c))
    /\ clientRemote[c] = "yes" => HostYes(Conn(c))
    /\ phase[c] = "store" => HostYes(Conn(c)) /\ ClientYes(Conn(c))
    /\ Says(toClient[c], "yes") => HostYes(Conn(c))
    /\ Says(clicks[c], "yes") => ClientYes(Conn(c))

ClientsKnow == \A c \in Clients : ClientKnows(c)
FileKnows == decisionFile[2] = "accept" => HostYes(decisionFile[1])
Knows == HostKnows /\ ClientsKnow /\ FileKnows /\ TrustNeedsBoth
IInv == TypeOK /\ Knows

-----------------------------------------------------------------------------
(* Queues *)

LEMMA SaysAppend ==
    ASSUME NEW S, NEW q \in Seq(S), NEW m \in S, NEW w, Says(Append(q, m), w)
    PROVE  Says(q, w) \/ m = w
  BY DEF Says

LEMMA SaysTail ==
    ASSUME NEW S, NEW q \in Seq(S), q # <<>>, NEW w, Says(Tail(q), w)
    PROVE  Says(q, w)
  <1>1. PICK i \in 1..Len(Tail(q)) : Tail(q)[i] = w
    BY DEF Says
  <1>2. i + 1 \in 1..Len(q) /\ q[i + 1] = w
    BY <1>1
  <1> QED BY <1>2 DEF Says

LEMMA SaysHead ==
    ASSUME NEW S, NEW q \in Seq(S), q # <<>>
    PROVE  Says(q, Head(q))
  <1>1. 1 \in 1..Len(q) /\ q[1] = Head(q)
    OBVIOUS
  <1> QED BY <1>1 DEF Says

LEMMA SaysEmpty == ASSUME NEW w PROVE ~Says(<<>>, w)
  BY DEF Says

-----------------------------------------------------------------------------
(* What no step disturbs *)

LEMMA LogGrowsHost == HostNext => log \subseteq log'
  BY DEF HostNext, HostStep, HostDecide, HandshakeFails, HostCommit, HostReveal,
         HostReadsYes, HostReadsNo, HostReadsVerdict, HostReadsRefusal,
         HostExpires, HostCancels, HostLingerEnds, CeremonyFails, HostStores,
         HostStoreFails, HostAccept, HostSessionEnds, HostStops, HostDies,
         HostDown, Revoke, HostRefuses, HostFinish

LEMMA LogGrowsPanel == PanelNext => log \subseteq log'
  BY DEF PanelNext, PanelStart, PanelStop, PanelFinish, PanelReads, PanelAnswer

LEMMA LogGrowsClient ==
    ASSUME NEW c \in Clients, ClientNext(c)
    PROVE  log \subseteq log'
  BY DEF ClientNext, Dial, ClientHello, ClientReply, ClientNonce, ClickAccept,
         ClickReject, ClientReadsYes, ClientReadsNo, ClientReadsVerdict,
         ClientGivesUp, ClientStores, ClientFails, ClientRestarts, Forget,
         ClientRefuses, ClientProtocolError, SessionAccepted, AlreadyPaired,
         CeremonyStarts, Rejected, UnexpectedReply

LEMMA HostKept ==
    ASSUME HostKnows, log \subseteq log',
           UNCHANGED <<hostPhase, served, toHost, hostLocal, hostRemote>>
    PROVE  HostKnows'
  BY DEF HostKnows, HostYes, ClientYes

LEMMA HostClosed == HostClose => HostKnows'
  BY SaysEmpty DEF HostClose, HostKnows

LEMMA ClientKept ==
    ASSUME NEW c \in Clients, ClientKnows(c), log \subseteq log',
           phase'[c] = phase[c], dials'[c] = dials[c],
           toClient'[c] = toClient[c], clicks'[c] = clicks[c],
           clientLocal'[c] = clientLocal[c], clientRemote'[c] = clientRemote[c]
    PROVE  ClientKnows(c)'
  BY DEF ClientKnows, HostYes, ClientYes, Conn

LEMMA ClientsKept ==
    ASSUME ClientsKnow, log \subseteq log', UNCHANGED clientVars
    PROVE  ClientsKnow'
  BY ClientKept DEF ClientsKnow, clientVars

LEMMA OthersKept ==
    ASSUME ClientsKnow, log \subseteq log',
           NEW c \in Clients, ClientKnows(c)',
           \A k \in Clients \ {c} :
               /\ phase'[k] = phase[k]
               /\ dials'[k] = dials[k]
               /\ toClient'[k] = toClient[k]
               /\ clicks'[k] = clicks[k]
               /\ clientLocal'[k] = clientLocal[k]
               /\ clientRemote'[k] = clientRemote[k]
    PROVE  ClientsKnow'
  <1> SUFFICES ASSUME NEW k \in Clients \ {c}
               PROVE  ClientKnows(k)'
    BY DEF ClientsKnow
  <1> QED BY ClientKept DEF ClientsKnow

LEMMA FileKept ==
    ASSUME FileKnows, log \subseteq log',
           decisionFile' \in {decisionFile, NoAnswer}
    PROVE  FileKnows'
  BY DEF FileKnows, HostYes, NoAnswer

LEMMA TrustKept ==
    ASSUME TrustNeedsBoth, log \subseteq log',
           hostTrust' \subseteq hostTrust, clientTrust' \subseteq clientTrust
    PROVE  TrustNeedsBoth'
  <1> SUFFICES ASSUME NEW c \in hostTrust' \cup clientTrust'
               PROVE  \E e \in log' : Dev(e[3]) = c /\ Agreed(e[3])'
    BY DEF TrustNeedsBoth, Dev
  <1>1. PICK e \in log : Dev(e[3]) = c /\ Agreed(e[3])
    BY DEF TrustNeedsBoth
  <1> QED BY <1>1 DEF Agreed

\* A key is added when both people have accepted a request of its device.
LEMMA TrustGained ==
    ASSUME TrustNeedsBoth, log \subseteq log',
           NEW id, HostYes(id), ClientYes(id),
           hostTrust' \subseteq hostTrust \cup {Dev(id)},
           clientTrust' \subseteq clientTrust \cup {Dev(id)}
    PROVE  TrustNeedsBoth'
  <1> SUFFICES ASSUME NEW c \in hostTrust' \cup clientTrust'
               PROVE  \E e \in log' : Dev(e[3]) = c /\ Agreed(e[3])'
    BY DEF TrustNeedsBoth, Dev
  <1>1. CASE c = Dev(id)
    <2> DEFINE e == <<"host", "yes", id>>
    <2>1. e \in log' /\ e[3] = id
      BY DEF HostYes
    <2> QED BY <1>1, <2>1 DEF Agreed, HostYes, ClientYes
  <1>2. CASE c # Dev(id)
    <2>1. PICK e \in log : Dev(e[3]) = c /\ Agreed(e[3])
      BY <1>2 DEF TrustNeedsBoth
    <2> QED BY <2>1 DEF Agreed
  <1> QED BY <1>1, <1>2

-----------------------------------------------------------------------------
(* Messages *)

\* What the host sends: an acceptance is only sent when its person accepted.
LEMMA ClientHears ==
    ASSUME TypeOK, ClientsKnow, log \subseteq log',
           NEW m \in HostMessages, HostSends(m), m = "yes" => HostYes(served),
           UNCHANGED <<phase, dials, clientLocal, clientRemote, clicks>>
    PROVE  ClientsKnow'
  <1> SUFFICES ASSUME NEW c \in Clients
               PROVE  ClientKnows(c)'
    BY DEF ClientsKnow
  <1>1. CASE toClient'[c] = toClient[c]
    BY <1>1, ClientKept DEF ClientsKnow
  <1>2. CASE toClient'[c] # toClient[c]
    <2>1. /\ served = Conn(c)
          /\ phase[c] # "off"
          /\ toClient'[c] = Append(toClient[c], m)
      BY <1>2
      DEF HostSends, TypeOK, ClientTypeOK, HostTypeOK, Conns, Attached, Conn,
          Dev
    <2>2. Says(toClient'[c], "yes") => Says(toClient[c], "yes") \/ m = "yes"
      BY <2>1, SaysAppend DEF TypeOK, ClientTypeOK
    <2> QED
      BY <2>1, <2>2 DEF ClientKnows, ClientsKnow, HostYes, ClientYes, Conn
  <1> QED BY <1>1, <1>2

\* What the client sends.
LEMMA HostHears ==
    ASSUME TypeOK, HostKnows, log \subseteq log',
           NEW c \in Clients, NEW m \in ClientMessages, ClientSends(c, m),
           m = "yes" => ClientYes(Conn(c)),
           UNCHANGED <<hostPhase, served, hostLocal, hostRemote>>
    PROVE  HostKnows'
  <1>1. CASE toHost' = toHost
    BY <1>1, HostKept
  <1>2. CASE toHost' # toHost
    <2>1. served = Conn(c) /\ toHost' = Append(toHost, m)
      BY <1>2 DEF ClientSends
    <2>2. Says(toHost', "yes") => Says(toHost, "yes") \/ m = "yes"
      BY <2>1, SaysAppend DEF TypeOK, HostTypeOK
    <2>3. served # NoConn
      BY <2>1, NoConnAssumption DEF Conn, TypeOK, ClientTypeOK
    <2> QED BY <2>1, <2>2, <2>3 DEF HostKnows, HostYes, ClientYes
  <1> QED BY <1>1, <1>2

\* A client that reads a frame and goes on, without deciding anything by it.
LEMMA ClientReadsFrame ==
    ASSUME TypeOK, ClientsKnow, log \subseteq log',
           NEW c \in Clients, toClient[c] # <<>>, phase[c] # "off",
           toClient' = [toClient EXCEPT ![c] = Tail(@)],
           NEW p \in ClientPhases \ {"off", "store"},
           phase' = [phase EXCEPT ![c] = p],
           UNCHANGED <<dials, clientLocal, clientRemote, clicks>>
    PROVE  ClientsKnow'
  <1>1. phase'[c] = p /\ ClientKnows(c)
    BY DEF TypeOK, ClientTypeOK, ClientsKnow
  <1>2. Says(toClient'[c], "yes") => Says(toClient[c], "yes")
    BY SaysTail DEF TypeOK, ClientTypeOK
  <1>3. ClientKnows(c)'
    BY <1>1, <1>2 DEF ClientKnows, HostYes, ClientYes, Conn
  <1> QED BY <1>3, OthersKept DEF TypeOK, ClientTypeOK

LEMMA ClientLeft ==
    ASSUME TypeOK, ClientsKnow, log \subseteq log',
           NEW c \in Clients, NEW s, ClientLeaves(c, s)
    PROVE  ClientsKnow'
  <1>1. ClientKnows(c)'
    BY SaysEmpty
    DEF ClientKnows, ClientLeaves, ConfirmReturns, TypeOK, ClientTypeOK
  <1> QED
    BY <1>1, OthersKept DEF ClientLeaves, ConfirmReturns, TypeOK, ClientTypeOK

-----------------------------------------------------------------------------
(* Steps of the host *)

LEMMA HostDecideKnows ==
    ASSUME IInv, log \subseteq log', HostDecide
    PROVE  Knows'
  <1>1. PICK m \in HostMessages : m # "yes" /\ HostSends(m)
    BY DEF HostDecide, AdmitSession, RejectSession, ConfirmPaired,
           RefuseCeremony, BeginCeremony, HostMessages
  <1>2. HostKnows'
    <2>1. CASE AdmitSession \/ BeginCeremony
      <3>1. Says(toHost', "yes") => Says(toHost, "yes")
        BY <2>1, SaysTail
        DEF HostDecide, IInv, TypeOK, HostTypeOK, AdmitSession, BeginCeremony
      <3>2. served # NoConn
        BY DEF HostDecide, IInv, TypeOK, HostTypeOK
      <3> QED
        BY <2>1, <3>1, <3>2
        DEF HostKnows, HostYes, ClientYes, IInv, Knows, AdmitSession,
            BeginCeremony
    <2>2. CASE RejectSession \/ ConfirmPaired \/ RefuseCeremony
      BY <2>2, HostClosed DEF RejectSession, ConfirmPaired, RefuseCeremony
    <2> QED BY <2>1, <2>2 DEF HostDecide
  <1>3. ClientsKnow'
    BY <1>1, ClientHears DEF IInv, Knows, HostDecide
  <1>4. FileKnows'
    BY FileKept
    DEF IInv, Knows, HostDecide, AdmitSession, RejectSession, ConfirmPaired,
        RefuseCeremony, BeginCeremony
  <1>5. TrustNeedsBoth'
    BY TrustKept DEF IInv, Knows, HostDecide
  <1> QED BY <1>2, <1>3, <1>4, <1>5 DEF Knows

\* A refusal discards what the client may still say.
LEMMA HostRefusesKnows ==
    ASSUME IInv, log \subseteq log', NEW outcome, HostRefuses(outcome),
           served # NoConn, decisionFile' \in {decisionFile, NoAnswer}
    PROVE  Knows'
  <1>1. HostKnows'
    BY SaysEmpty DEF HostRefuses, HostKnows
  <1>2. ClientsKnow'
    BY ClientHears DEF IInv, Knows, HostRefuses, HostMessages
  <1> QED
    BY <1>1, <1>2, FileKept, TrustKept DEF IInv, Knows, HostRefuses

LEMMA HostClosedKnows ==
    ASSUME IInv, log \subseteq log', HostClose, UNCHANGED clientVars,
           decisionFile' \in {decisionFile, NoAnswer},
           hostTrust' = hostTrust
    PROVE  Knows'
  BY HostClosed, ClientsKept, FileKept, TrustKept
  DEF IInv, Knows, clientVars

LEMMA HostReadsYesKnows ==
    ASSUME IInv, log \subseteq log', HostReadsYes
    PROVE  Knows'
  <1>1. HostYes(served)
    BY DEF HostReadsYes, AnswerIsOurs, IInv, Knows, FileKnows
  <1>2. HostKnows'
    BY <1>1
    DEF HostReadsYes, BothAccepted, IInv, Knows, HostKnows, HostYes, ClientYes,
        TypeOK, HostTypeOK
  <1>3. ClientsKnow'
    BY <1>1, ClientHears DEF HostReadsYes, IInv, Knows, HostMessages
  <1> QED
    BY <1>2, <1>3, FileKept, TrustKept DEF HostReadsYes, IInv, Knows

LEMMA HostReadsFrame ==
    ASSUME IInv, log \subseteq log', toHost # <<>>, toHost' = Tail(toHost),
           hostPhase' # "store",
           UNCHANGED <<served, hostLocal, hostRemote>>, served # NoConn
    PROVE  HostKnows'
  <1>1. Says(toHost', "yes") => Says(toHost, "yes")
    BY SaysTail DEF IInv, TypeOK, HostTypeOK
  <1> QED BY <1>1 DEF IInv, Knows, HostKnows, HostYes, ClientYes

LEMMA HostReadsVerdictKnows ==
    ASSUME IInv, log \subseteq log', HostReadsVerdict
    PROVE  Knows'
  <1>1. toHost \in Seq(ClientMessages) /\ toHost # <<>> /\ served # NoConn
    BY DEF HostReadsVerdict, IInv, TypeOK, HostTypeOK
  <1>2. Says(toHost, "yes")
    BY <1>1, SaysHead DEF HostReadsVerdict
  <1>3. Says(toHost', "yes") => Says(toHost, "yes")
    BY <1>1, SaysTail DEF HostReadsVerdict
  <1>4. HostKnows'
    BY <1>1, <1>2, <1>3
    DEF HostReadsVerdict, BothAccepted, IInv, Knows, HostKnows, HostYes,
        ClientYes
  <1> QED
    BY <1>4, ClientsKept, FileKept, TrustKept
    DEF HostReadsVerdict, IInv, Knows, panelVars, clientVars

LEMMA HostStoresKnows ==
    ASSUME IInv, log \subseteq log', HostStores
    PROVE  Knows'
  <1>1. HostYes(served) /\ ClientYes(served)
    BY DEF HostStores, IInv, Knows, HostKnows
  <1>2. TrustNeedsBoth'
    BY <1>1, TrustGained DEF HostStores, IInv, Knows, clientVars
  <1> QED
    BY <1>2, HostClosed, ClientsKept, FileKept DEF HostStores, IInv, Knows

LEMMA HostNextKnows ==
    ASSUME IInv, log \subseteq log', HostNext
    PROVE  Knows'
  <1>1. CASE HandshakeFails \/ HostStoreFails \/ HostSessionEnds
    BY <1>1, HostClosedKnows
    DEF HandshakeFails, HostStoreFails, HostSessionEnds, panelVars
  <1>2. CASE HostReadsRefusal \/ HostLingerEnds \/ CeremonyFails
    BY <1>2, HostClosedKnows
    DEF HostReadsRefusal, HostLingerEnds, CeremonyFails, HostFinish
  <1>3. CASE HostReadsNo \/ HostExpires \/ HostCancels
    <2>1. served # NoConn
      BY <1>3
      DEF HostReadsNo, HostExpires, HostCancels, IInv, TypeOK, HostTypeOK
    <2> QED
      BY <1>3, <2>1, HostRefusesKnows DEF HostReadsNo, HostExpires, HostCancels
  <1>4. CASE HostCommit
    <2>1. HostKnows'
      BY <1>4, HostReadsFrame DEF HostCommit, IInv, TypeOK, HostTypeOK
    <2>2. ClientsKnow'
      BY <1>4, ClientHears DEF HostCommit, IInv, Knows, HostMessages
    <2> QED
      BY <1>4, <2>1, <2>2, FileKept, TrustKept
      DEF HostCommit, IInv, Knows, panelVars
  <1>5. CASE HostReveal
    <2>1. HostKnows'
      BY <1>5, HostReadsFrame DEF HostReveal, IInv, TypeOK, HostTypeOK
    <2> QED
      BY <1>5, <2>1, ClientsKept, FileKept, TrustKept
      DEF HostReveal, IInv, Knows, clientVars
  <1>6. CASE \E c \in Clients : HostAccept(c)
    <2>1. toHost = <<>> /\ hostPhase' # "store" /\ served = NoConn
      BY <1>6 DEF HostAccept, IInv, Knows, HostKnows, TypeOK, HostTypeOK
    <2>2. HostKnows'
      BY <1>6, <2>1, SaysEmpty DEF HostAccept, IInv, Knows, HostKnows
    <2> QED
      BY <1>6, <2>2, ClientsKept, FileKept, TrustKept
      DEF HostAccept, IInv, Knows, panelVars, clientVars
  <1>7. CASE HostStops \/ HostDies
    <2>1. HostKnows'
      BY <1>7, SaysEmpty DEF HostStops, HostDies, HostDown, HostKnows
    <2> QED
      BY <1>7, <2>1, ClientsKept, FileKept, TrustKept
      DEF HostStops, HostDies, HostDown, IInv, Knows, panelVars, clientVars
  <1>8. CASE \E c \in Clients : Revoke(c)
    BY <1>8, HostKept, ClientsKept, FileKept, TrustKept
    DEF Revoke, IInv, Knows, panelVars, clientVars
  <1> QED
    BY <1>1, <1>2, <1>3, <1>4, <1>5, <1>6, <1>7, <1>8, HostDecideKnows,
       HostReadsYesKnows, HostReadsVerdictKnows, HostStoresKnows
    DEF HostNext, HostStep

-----------------------------------------------------------------------------
(* Steps of the panel *)

LEMMA PanelNextKnows ==
    ASSUME IInv, log \subseteq log', PanelNext
    PROVE  Knows'
  <1>1. CASE \E mode \in {"panel", "none"} : PanelStart(mode)
    <2>1. HostKnows'
      BY <1>1 DEF PanelStart, IInv, Knows, HostKnows, HostYes, ClientYes
    <2> QED
      BY <1>1, <2>1, ClientsKept, FileKept, TrustKept
      DEF PanelStart, IInv, Knows, clientVars
  <1>2. CASE PanelStop \/ PanelFinish \/ PanelReads
    BY <1>2, HostKept, ClientsKept, FileKept, TrustKept
    DEF PanelStop, PanelFinish, PanelReads, IInv, Knows, hostVars, clientVars
  <1>3. CASE \E answer \in {"accept", "reject"} : PanelAnswer(answer)
    <2>1. FileKnows'
      BY <1>3 DEF PanelAnswer, FileKnows, HostYes
    <2> QED
      BY <1>3, <2>1, HostKept, ClientsKept, TrustKept
      DEF PanelAnswer, IInv, Knows, hostVars, clientVars
  <1> QED BY <1>1, <1>2, <1>3 DEF PanelNext

-----------------------------------------------------------------------------
(* Steps of a client *)

\* A client keeps neither file nor host list; only ClientStores adds a key.
LEMMA ClientStepKnows ==
    ASSUME IInv, log \subseteq log', HostKnows', ClientsKnow',
           UNCHANGED <<panelVars, hostTrust>>,
           clientTrust' \subseteq clientTrust
    PROVE  Knows'
  BY FileKept, TrustKept DEF IInv, Knows, panelVars

LEMMA DialKnows ==
    ASSUME IInv, log \subseteq log', NEW c \in Clients, Dial(c)
    PROVE  Knows'
  <1>1. ClientKnows(c) /\ phase[c] = "off"
    BY DEF IInv, Knows, ClientsKnow, Dial
  <1>2. /\ phase'[c] = "dialed"
        /\ toClient'[c] = <<>>
        /\ clicks'[c] = <<>>
        /\ clientLocal'[c] = "none"
        /\ clientRemote'[c] = "none"
    BY <1>1 DEF Dial, ClientKnows, IInv, TypeOK, ClientTypeOK
  <1>3. ClientKnows(c)'
    BY <1>2, SaysEmpty DEF ClientKnows
  <1>4. ClientsKnow'
    BY <1>3, OthersKept DEF Dial, IInv, Knows, TypeOK, ClientTypeOK
  <1> QED
    BY <1>4, HostKept, ClientStepKnows DEF Dial, IInv, Knows, hostVars

LEMMA ClientHelloKnows ==
    ASSUME IInv, log \subseteq log', NEW c \in Clients, ClientHello(c)
    PROVE  Knows'
  <1>1. HostKnows' /\ ClientsKnow'
    <2>1. CASE /\ ClientLeaves(c, AfterNotPaired(c))
               /\ UNCHANGED toHost
      BY <2>1, ClientLeft, HostKept DEF ClientHello, IInv, Knows
    <2>2. CASE /\ \E m \in Hellos : ClientSends(c, m)
               /\ phase' = [phase EXCEPT ![c] = "await"]
               /\ UNCHANGED <<dials, toClient, clientLocal, clientRemote,
                              clicks>>
      <3>1. HostKnows'
        BY <2>2, HostHears DEF ClientHello, IInv, Knows, ClientMessages, Hellos
      <3>2. phase'[c] = "await" /\ phase[c] = "dialed" /\ ClientKnows(c)
        BY <2>2
        DEF ClientHello, IInv, Knows, TypeOK, ClientTypeOK, ClientsKnow
      <3>3. ClientKnows(c)'
        BY <2>2, <3>2 DEF ClientKnows, HostYes, ClientYes, Conn
      <3> QED
        BY <2>2, <3>1, <3>3, OthersKept DEF IInv, Knows, TypeOK, ClientTypeOK
    <2> QED BY <2>1, <2>2 DEF ClientHello, Hellos
  <1> QED BY <1>1, ClientStepKnows DEF ClientHello

LEMMA ClientReplyKnows ==
    ASSUME IInv, log \subseteq log', NEW c \in Clients, ClientReply(c)
    PROVE  Knows'
  <1>1. HostKnows' /\ ClientsKnow'
    <2>1. CASE SessionAccepted(c)
      BY <2>1, HostKept, ClientReadsFrame
      DEF SessionAccepted, ClientReply, ClientPhases, IInv, Knows
    <2>2. CASE CeremonyStarts(c)
      <3>1. HostKnows'
        BY <2>2, HostHears
        DEF CeremonyStarts, ClientReply, IInv, Knows, ClientMessages
      <3> QED
        BY <2>2, <3>1, ClientReadsFrame
        DEF CeremonyStarts, ClientReply, ClientPhases, IInv, Knows
    <2>3. CASE AlreadyPaired(c) \/ Rejected(c) \/ UnexpectedReply(c)
      <3>1. UNCHANGED toHost /\ \E s : ClientLeaves(c, s)
        BY <2>3
        DEF AlreadyPaired, Rejected, UnexpectedReply, ClientProtocolError
      <3> QED
        BY <3>1, HostKept, ClientLeft DEF ClientReply, IInv, Knows
    <2> QED BY <2>1, <2>2, <2>3 DEF ClientReply
  <1> QED BY <1>1, ClientStepKnows DEF ClientReply

LEMMA ClientNonceKnows ==
    ASSUME IInv, log \subseteq log', NEW c \in Clients, ClientNonce(c)
    PROVE  Knows'
  <1>1. HostKnows' /\ ClientsKnow'
    <2>1. CASE Head(toClient[c]) = "nonce"
      <3>1. HostKnows'
        BY <2>1, HostHears DEF ClientNonce, IInv, Knows, ClientMessages
      <3> QED
        BY <2>1, <3>1, ClientReadsFrame
        DEF ClientNonce, ClientPhases, IInv, Knows
    <2>2. CASE ClientProtocolError(c)
      BY <2>2, ClientLeft, HostKept
      DEF ClientNonce, ClientProtocolError, IInv, Knows
    <2> QED BY <2>1, <2>2 DEF ClientNonce
  <1> QED BY <1>1, ClientStepKnows DEF ClientNonce

LEMMA ClickAcceptKnows ==
    ASSUME IInv, log \subseteq log', NEW c \in Clients, ClickAccept(c)
    PROVE  Knows'
  <1>1. /\ ClientKnows(c)
        /\ phase' = phase
        /\ ClientYes(Conn(c))'
    BY DEF ClickAccept, IInv, Knows, ClientsKnow, ClientYes, Conn
  <1>2. ClientKnows(c)'
    BY <1>1 DEF ClickAccept, ClientKnows, HostYes, ClientYes, Conn
  <1>3. ClientsKnow'
    BY <1>2, OthersKept DEF ClickAccept, IInv, Knows, TypeOK, ClientTypeOK
  <1> QED
    BY <1>3, HostKept, ClientStepKnows DEF ClickAccept, IInv, Knows, hostVars

LEMMA ClickRejectKnows ==
    ASSUME IInv, log \subseteq log', NEW c \in Clients, ClickReject(c)
    PROVE  Knows'
  <1>1. ClientKnows(c) /\ phase[c] = "confirm"
    BY DEF ClickReject, IInv, Knows, ClientsKnow
  <1>2. /\ clicks[c] \in Seq({"yes", "no"})
        /\ clicks'[c] = Append(clicks[c], "no")
    BY DEF ClickReject, IInv, TypeOK, ClientTypeOK
  <1>3. Says(Append(clicks[c], "no"), "yes") => Says(clicks[c], "yes")
    BY <1>2, SaysAppend, "no" # "yes"
  <1>4. ClientKnows(c)'
    BY <1>1, <1>2, <1>3 DEF ClickReject, ClientKnows, HostYes, ClientYes, Conn
  <1>5. ClientsKnow'
    BY <1>4, OthersKept DEF ClickReject, IInv, Knows, TypeOK, ClientTypeOK
  <1> QED
    BY <1>5, HostKept, ClientStepKnows DEF ClickReject, IInv, Knows, hostVars

LEMMA ConfirmReturned ==
    ASSUME TypeOK, NEW c \in Clients, ConfirmReturns(c)
    PROVE  /\ clientLocal'[c] = "none"
           /\ clientRemote'[c] = "none"
           /\ clicks'[c] = <<>>
           /\ \A k \in Clients \ {c} :
                  /\ clientLocal'[k] = clientLocal[k]
                  /\ clientRemote'[k] = clientRemote[k]
                  /\ clicks'[k] = clicks[k]
  BY DEF ConfirmReturns, TypeOK, ClientTypeOK

LEMMA ClientReadsYesKnows ==
    ASSUME IInv, log \subseteq log', NEW c \in Clients, ClientReadsYes(c)
    PROVE  Knows'
  <1>1. ClientKnows(c) /\ phase[c] = "confirm"
    BY DEF ClientReadsYes, IInv, Knows, ClientsKnow
  <1>2. clicks[c] \in Seq({"yes", "no"}) /\ clicks[c] # <<>>
    BY DEF ClientReadsYes, IInv, TypeOK, ClientTypeOK
  <1>3. ClientYes(Conn(c))
    BY <1>1, <1>2, SaysHead DEF ClientReadsYes, ClientKnows
  <1>4. HostKnows'
    BY <1>3, HostHears DEF ClientReadsYes, IInv, Knows, ClientMessages
  <1>5. ClientsKnow'
    <2>1. CASE /\ clientRemote[c] = "yes"
               /\ phase' = [phase EXCEPT ![c] = "store"]
               /\ ConfirmReturns(c)
      <3>1. phase'[c] = "store" /\ UNCHANGED <<dials, toClient>>
        BY <2>1 DEF ClientReadsYes, IInv, TypeOK, ClientTypeOK
      <3>2. ClientKnows(c)'
        BY <1>1, <1>3, <2>1, <3>1, ConfirmReturned, SaysEmpty
        DEF ClientKnows, HostYes, ClientYes, Conn, IInv
      <3> QED
        BY <2>1, <3>1, <3>2, ConfirmReturned, OthersKept
        DEF IInv, Knows, TypeOK, ClientTypeOK
    <2>2. CASE /\ clicks' = [clicks EXCEPT ![c] = Tail(@)]
               /\ clientLocal' = [clientLocal EXCEPT ![c] = "yes"]
               /\ UNCHANGED <<phase, clientRemote>>
      <3>1. ClientKnows(c)'
        BY <1>1, <1>3, <2>2
        DEF ClientReadsYes, ClientKnows, HostYes, ClientYes, Conn, IInv,
            TypeOK, ClientTypeOK
      <3> QED
        BY <2>2, <3>1, OthersKept
        DEF ClientReadsYes, IInv, Knows, TypeOK, ClientTypeOK
    <2> QED BY <2>1, <2>2 DEF ClientReadsYes
  <1> QED BY <1>4, <1>5, ClientStepKnows DEF ClientReadsYes

LEMMA ClientRefusesKnows ==
    ASSUME IInv, log \subseteq log',
           NEW c \in Clients, NEW outcome, ClientRefuses(c, outcome)
    PROVE  Knows'
  <1>1. phase'[c] = "linger" /\ UNCHANGED <<dials, toClient>> /\ ClientKnows(c)
    BY DEF ClientRefuses, IInv, Knows, ClientsKnow, TypeOK, ClientTypeOK
  <1>2. ConfirmReturns(c)
    BY DEF ClientRefuses
  <1>3. ClientKnows(c)'
    BY <1>1, <1>2, ConfirmReturned, SaysEmpty
    DEF ClientKnows, HostYes, ClientYes, Conn, IInv
  <1>4. ClientsKnow'
    BY <1>1, <1>2, <1>3, ConfirmReturned, OthersKept
    DEF ClientRefuses, IInv, Knows, TypeOK, ClientTypeOK
  <1>5. HostKnows'
    BY HostHears DEF ClientRefuses, IInv, Knows, ClientMessages
  <1> QED BY <1>4, <1>5, ClientStepKnows DEF ClientRefuses

LEMMA ClientReadsVerdictKnows ==
    ASSUME IInv, log \subseteq log', NEW c \in Clients, ClientReadsVerdict(c)
    PROVE  Knows'
  <1>1. HostKnows'
    BY HostKept DEF ClientReadsVerdict, ClientProtocolError, IInv, Knows
  <1>2. ClientsKnow'
    <2>1. CASE \E s : ClientLeaves(c, s)
      BY <2>1, ClientLeft DEF IInv, Knows
    <2>2. CASE Head(toClient[c]) = "yes"
      <3>1. /\ toClient[c] \in Seq(HostMessages)
            /\ toClient[c] # <<>>
            /\ toClient'[c] = Tail(toClient[c])
            /\ dials' = dials
        BY <2>2 DEF ClientReadsVerdict, IInv, TypeOK, ClientTypeOK
      <3>2. Says(toClient[c], "yes") /\ ClientKnows(c)
        BY <2>2, <3>1, SaysHead DEF IInv, Knows, ClientsKnow
      <3>3. HostYes(Conn(c)) /\ phase[c] = "confirm"
        BY <3>2 DEF ClientKnows, ClientReadsVerdict
      <3>4. ClientKnows(c)'
        <4>1. CASE /\ clientLocal[c] = "yes"
                   /\ phase' = [phase EXCEPT ![c] = "store"]
                   /\ ConfirmReturns(c)
          <5>1. phase'[c] = "store"
            BY <4>1 DEF IInv, TypeOK, ClientTypeOK
          <5> QED
            BY <3>1, <3>2, <3>3, <4>1, <5>1, ConfirmReturned, SaysEmpty
            DEF ClientKnows, HostYes, ClientYes, Conn, IInv
        <4>2. CASE /\ clientRemote' = [clientRemote EXCEPT ![c] = "yes"]
                   /\ UNCHANGED <<phase, clientLocal, clicks>>
          BY <3>1, <3>2, <3>3, <4>2
          DEF ClientKnows, HostYes, ClientYes, Conn
        <4> QED BY <2>2, <4>1, <4>2 DEF ClientReadsVerdict
      <3> QED
        BY <2>2, <3>4, OthersKept
        DEF ClientReadsVerdict, ConfirmReturns, IInv, Knows, TypeOK,
            ClientTypeOK
    <2> QED BY <2>1, <2>2 DEF ClientReadsVerdict, ClientProtocolError
  <1> QED
    BY <1>1, <1>2, ClientStepKnows DEF ClientReadsVerdict, ClientProtocolError

LEMMA ClientStoresKnows ==
    ASSUME IInv, log \subseteq log', NEW c \in Clients, ClientStores(c)
    PROVE  Knows'
  <1>1. HostYes(Conn(c)) /\ ClientYes(Conn(c))
    BY DEF ClientStores, IInv, Knows, ClientsKnow, ClientKnows
  <1>2. TrustNeedsBoth'
    BY <1>1, TrustGained DEF ClientStores, IInv, Knows, Conn, Dev, hostVars
  <1>3. ClientsKnow'
    BY ClientLeft DEF ClientStores, IInv, Knows
  <1> QED
    BY <1>2, <1>3, HostKept, FileKept
    DEF ClientStores, IInv, Knows, hostVars, panelVars

LEMMA ClientNextKnows ==
    ASSUME IInv, log \subseteq log', NEW c \in Clients, ClientNext(c)
    PROVE  Knows'
  <1>1. CASE ClientReadsNo(c) \/ ClientGivesUp(c)
    BY <1>1, ClientRefusesKnows DEF ClientReadsNo, ClientGivesUp
  <1>2. CASE ClientFails(c) \/ ClientRestarts(c)
    <2>1. HostKnows' /\ ClientsKnow'
      BY <1>2, HostKept, ClientLeft
      DEF ClientFails, ClientRestarts, IInv, Knows, hostVars
    <2> QED
      BY <1>2, <2>1, ClientStepKnows
      DEF ClientFails, ClientRestarts, hostVars
  <1>3. CASE Forget(c)
    <2>1. HostKnows' /\ ClientsKnow'
      BY <1>3, HostKept, ClientKept
      DEF Forget, IInv, Knows, ClientsKnow, hostVars
    <2> QED BY <1>3, <2>1, ClientStepKnows DEF Forget, hostVars
  <1> QED
    BY <1>1, <1>2, <1>3, DialKnows, ClientHelloKnows, ClientReplyKnows,
       ClientNonceKnows, ClickAcceptKnows, ClickRejectKnows,
       ClientReadsYesKnows, ClientReadsVerdictKnows, ClientStoresKnows
    DEF ClientNext

-----------------------------------------------------------------------------

LEMMA InitKnows == Init => IInv
  BY TypeInit, SaysEmpty
  DEF Init, IInv, Knows, HostKnows, ClientsKnow, ClientKnows, FileKnows,
      NoAnswer, TrustNeedsBoth

LEMMA StepKnows == IInv /\ [Next]_vars => IInv'
  <1> SUFFICES ASSUME IInv, [Next]_vars
               PROVE  Knows'
    BY TypeStep DEF IInv
  <1>1. CASE Next
    BY <1>1, LogGrowsHost, HostNextKnows, LogGrowsPanel, PanelNextKnows,
       LogGrowsClient, ClientNextKnows
    DEF Next
  <1>2. CASE UNCHANGED vars
    BY <1>2, HostKept, ClientsKept, FileKept, TrustKept
    DEF IInv, Knows, vars, hostVars, panelVars, clientVars
  <1> QED BY <1>1, <1>2

\* Whatever is lost, late, refused or restarted, a key in either trust list
\* goes back to one connection whose request both people accepted: for every
\* set of devices, every budget of failures, dials and clicks.
THEOREM BothPeopleAgreed == Spec => []TrustNeedsBoth
  <1>1. IInv => TrustNeedsBoth
    BY DEF IInv, Knows
  <1> QED BY InitKnows, StepKnows, <1>1, PTL DEF Spec

-----------------------------------------------------------------------------
(* The budget of failures *)

\* Every request that fails on screen is among the failures Security counts,
\* and a ceremony only begins below the limit.
BudgetInv ==
    /\ misses <= failed
    /\ failed <= MaxFailed
    /\ hostPhase \in Ceremony => failed < MaxFailed

LEMMA FinishKeepsBudget ==
    ASSUME TypeOK, BudgetInv, hostPhase \in Ceremony,
           NEW outcome, HostFinish(outcome)
    PROVE  BudgetInv'
  BY MaxFailedAssumption
  DEF TypeOK, HostTypeOK, BudgetInv, HostFinish, HostClose, Counts, Ceremony

LEMMA HostKeepsBudget ==
    ASSUME TypeOK, BudgetInv, HostNext
    PROVE  BudgetInv'
  <1>1. CASE HostReadsRefusal \/ HostLingerEnds \/ CeremonyFails
    BY <1>1, FinishKeepsBudget
    DEF HostReadsRefusal, HostLingerEnds, CeremonyFails, Ceremony
  <1>2. CASE HostDecide
    BY <1>2
    DEF HostDecide, AdmitSession, RejectSession, ConfirmPaired, RefuseCeremony,
        BeginCeremony, HostClose, BudgetInv, Ceremony
  <1>3. CASE HostStores
    BY <1>3, MaxFailedAssumption DEF HostStores, HostClose, BudgetInv, Ceremony
  <1>4. CASE HandshakeFails \/ HostStoreFails \/ HostSessionEnds
    BY <1>4
    DEF HandshakeFails, HostStoreFails, HostSessionEnds, HostClose, BudgetInv,
        Ceremony
  <1>5. CASE HostStops \/ HostDies
    BY <1>5 DEF HostStops, HostDies, HostDown, BudgetInv, Ceremony
  <1>6. CASE \/ \E c \in Clients : HostAccept(c) \/ Revoke(c)
             \/ HostCommit \/ HostReveal
    BY <1>6
    DEF HostAccept, Revoke, HostCommit, HostReveal, BudgetInv, Ceremony
  <1>7. CASE HostReadsYes \/ HostReadsVerdict
    BY <1>7
    DEF HostReadsYes, HostReadsVerdict, BothAccepted, BudgetInv, Ceremony
  <1>8. CASE HostReadsNo \/ HostExpires \/ HostCancels
    BY <1>8
    DEF HostReadsNo, HostExpires, HostCancels, HostRefuses, BudgetInv, Ceremony
  <1> QED
    BY <1>1, <1>2, <1>3, <1>4, <1>5, <1>6, <1>7, <1>8 DEF HostNext, HostStep

LEMMA PanelKeepsBudget ==
    ASSUME BudgetInv, PanelNext
    PROVE  BudgetInv'
  BY MaxFailedAssumption
  DEF PanelNext, PanelStart, PanelStop, PanelFinish, PanelReads, PanelAnswer,
      hostVars, BudgetInv, Ceremony

LEMMA ClientKeepsBudget ==
    ASSUME BudgetInv, NEW c \in Clients, ClientNext(c)
    PROVE  BudgetInv'
  <1>1. UNCHANGED <<hostPhase, failed, misses>>
    BY DEF ClientNext, Dial, ClientHello, ClientReply, ClientNonce,
           ClickAccept, ClickReject, ClientReadsYes, ClientReadsNo,
           ClientReadsVerdict, ClientGivesUp, ClientRefuses, ClientStores,
           ClientFails, ClientRestarts, Forget, hostVars
  <1> QED BY <1>1 DEF BudgetInv

\* At most MaxFailed requests in a row fail on screen.
THEOREM FailuresAreBounded == Spec => []FailureBudget
  <1>1. Init => BudgetInv
    BY MaxFailedAssumption DEF Init, BudgetInv, Ceremony
  <1>2. TypeOK /\ BudgetInv /\ [Next]_vars => BudgetInv'
    <2>1. CASE UNCHANGED vars
      BY <2>1 DEF vars, hostVars, BudgetInv
    <2> QED
      BY <2>1, HostKeepsBudget, PanelKeepsBudget, ClientKeepsBudget DEF Next
  <1>3. TypeOK /\ BudgetInv => FailureBudget
    BY MaxFailedAssumption
    DEF TypeOK, HostTypeOK, BudgetInv, FailureBudget
  <1> QED BY <1>1, <1>2, <1>3, TypeCorrect, PTL DEF Spec

-----------------------------------------------------------------------------
(* A rejection is final: once an end has told the other that its person    *)
(* accepts, it never says no for that connection, and the reverse.         *)

Refused(who, id) == <<who, "rejected", id>> \in log
Stored(who, id) == <<who, "paired", id>> \in log
Current(id) == Conn(Dev(id)) = id

\* The host's yes has been given for id: it is on its way, read or used.
HostGave(id) ==
    \/ Stored("client", id)
    \/ /\ Current(id)
       /\ \/ Says(toClient[Dev(id)], "yes")
          \/ clientRemote[Dev(id)] = "yes"
          \/ phase[Dev(id)] = "store"

ClientGave(id) ==
    \/ Stored("host", id)
    \/ served = id /\ (Says(toHost, "yes") \/ hostRemote = "yes" \/ hostPhase = "store")

\* The end has not decided yet.
HostOpen(id) ==
    /\ served = id
    /\ \/ hostPhase \in {"handshake", "commit", "reveal"}
       \/ hostPhase = "confirm" /\ hostLocal = "none"

ClientOpen(id) ==
    /\ Current(id)
    /\ \/ phase[Dev(id)] \in {"dialed", "await", "nonce"}
       \/ phase[Dev(id)] = "confirm" /\ clientLocal[Dev(id)] = "none"

HostBusy(id) == served = id /\ hostPhase # "linger"
ClientBusy(id) == Current(id) /\ phase[Dev(id)] \notin {"linger", "off"}

HostFinal(id) ==
    /\ HostGave(id) => ~Refused("host", id) /\ ~HostOpen(id)
    /\ Refused("host", id) => ~Stored("host", id) /\ ~HostBusy(id)
    /\ Stored("host", id) => served # id

ClientFinal(id) ==
    /\ ClientGave(id) => ~Refused("client", id) /\ ~ClientOpen(id)
    /\ Refused("client", id) => ~Stored("client", id) /\ ~ClientBusy(id)
    /\ Stored("client", id) /\ Current(id) => phase[Dev(id)] = "off"

\* No trace of a connection before it is dialed, and none of an answer before the
\* client's hello.
Traced(id) ==
    \/ served = id
    \/ \E who \in {"host", "client"} : Refused(who, id) \/ Stored(who, id)

Fresh(id) ==
    /\ Traced(id) => id[2] <= dials[Dev(id)]
    /\ Current(id) /\ phase[Dev(id)] = "dialed" =>
          /\ ~HostGave(id) /\ ~Refused("host", id) /\ ~Stored("host", id)
          /\ served = id => hostPhase = "handshake" /\ toHost = <<>>

Final == \A id \in Conns : HostFinal(id) /\ ClientFinal(id) /\ Fresh(id)

\* Who rejects, and which connection.
Rejecters ==
    \A e \in log : e[2] = "rejected" =>
        /\ e[3] \in Conns
        /\ e \in {<<"host", "rejected", e[3]>>, <<"client", "rejected", e[3]>>}
\* What the steps below have in common: nothing of id gets nearer to a yes or a
\* no than it was.
LEMMA HostStepFinal ==
    ASSUME TypeOK, NEW id \in Conns, HostFinal(id), ClientFinal(id), Fresh(id),
           UNCHANGED <<phase, dials, clientLocal, clientRemote>>,
           \A c \in Clients : Says(toClient'[c], "yes") => Says(toClient[c], "yes"),
           \A who : Refused(who, id)' => Refused(who, id),
           \A who : Stored(who, id)' => Stored(who, id),
           \/ served' = NoConn
           \/ /\ served' = served
              /\ HostOpen(id)' => HostOpen(id)
              /\ ClientGave(id)' => ClientGave(id)
              /\ hostPhase = "linger" => hostPhase' = "linger"
              /\ toHost # <<>> \/ hostPhase # "handshake"
    PROVE  HostFinal(id)' /\ ClientFinal(id)' /\ Fresh(id)'
  <1>1. Dev(id) \in Clients /\ id # NoConn
    BY NoConnAssumption DEF Conns, Dev
  <1>2. Current(id)' = Current(id)
    BY DEF Current, Conn
  <1>3. HostGave(id)' => HostGave(id)
    BY <1>1, <1>2 DEF HostGave
  <1>4. ClientGave(id)' => ClientGave(id)
    BY <1>1 DEF ClientGave
  <1>5. (HostOpen(id)' => HostOpen(id)) /\ (HostBusy(id)' => HostBusy(id))
    BY <1>1 DEF HostOpen, HostBusy
  <1>6. (ClientOpen(id)' <=> ClientOpen(id)) /\ (ClientBusy(id)' <=> ClientBusy(id))
    BY <1>2 DEF ClientOpen, ClientBusy
  <1>7. HostFinal(id)'
    BY <1>1, <1>3, <1>5 DEF HostFinal
  <1>8. ClientFinal(id)'
    BY <1>2, <1>4, <1>6 DEF ClientFinal
  <1>9. Fresh(id)'
    BY <1>1, <1>2, <1>3 DEF Fresh, Traced
  <1> QED BY <1>7, <1>8, <1>9

LEMMA ClientStepFinal ==
    ASSUME TypeOK, NEW id \in Conns, HostFinal(id), ClientFinal(id), Fresh(id),
           NEW c \in Clients,
           UNCHANGED <<hostPhase, served, hostLocal, hostRemote, dials>>,
           \A k \in Clients \ {c} :
               /\ phase'[k] = phase[k]
               /\ toClient'[k] = toClient[k]
               /\ clientLocal'[k] = clientLocal[k]
               /\ clientRemote'[k] = clientRemote[k],
           \A who : Refused(who, id)' => Refused(who, id),
           \A who : Stored(who, id)' => Stored(who, id),
           Says(toHost', "yes") => Says(toHost, "yes"),
           toHost' = toHost \/ served = Conn(c),
           \/ phase'[c] = "off" /\ ~Says(toClient'[c], "yes") /\ clientRemote'[c] = "none"
           \/ /\ phase[c] # "off" /\ phase'[c] # "dialed"
              /\ ClientOpen(id)' => ClientOpen(id)
              /\ HostGave(id)' => HostGave(id)
              /\ phase[c] = "linger" => phase'[c] = "linger"
    PROVE  HostFinal(id)' /\ ClientFinal(id)' /\ Fresh(id)'
  <1>1. Dev(id) \in Clients
    BY DEF Conns, Dev
  <1>2. Current(id)' = Current(id)
    BY DEF Current, Conn
  <1>3. HostGave(id)' => HostGave(id)
    BY <1>1, <1>2 DEF HostGave
  <1>4. ClientGave(id)' => ClientGave(id)
    BY DEF ClientGave
  <1>5. (HostOpen(id)' <=> HostOpen(id)) /\ (HostBusy(id)' <=> HostBusy(id))
    BY DEF HostOpen, HostBusy
  <1>6. (ClientOpen(id)' => ClientOpen(id)) /\ (ClientBusy(id)' => ClientBusy(id))
    BY <1>1, <1>2 DEF ClientOpen, ClientBusy
  <1>7. HostFinal(id)'
    BY <1>3, <1>5 DEF HostFinal
  <1>8. ClientFinal(id)'
    BY <1>1, <1>2, <1>4, <1>6 DEF ClientFinal
  <1>9. Fresh(id)'
    <2>1. Traced(id)' => Traced(id)
      BY DEF Traced
    <2>2. Current(id)' /\ phase'[Dev(id)] = "dialed" => Dev(id) # c
      BY <1>1
    <2>3. Dev(id) # c => Conn(c) # id
      BY DEF Conn, Dev
    <2> QED BY <1>1, <1>2, <1>3, <2>1, <2>2, <2>3 DEF Fresh
  <1> QED BY <1>7, <1>8, <1>9

LEMMA UntouchedFinal ==
    ASSUME Final,
           UNCHANGED <<hostPhase, served, toHost, hostLocal, hostRemote, phase, dials,
                       toClient, clientLocal, clientRemote>>,
           \A id \in Conns : \A who : Refused(who, id)' => Refused(who, id),
           \A id \in Conns : \A who : Stored(who, id)' => Stored(who, id)
    PROVE  Final'
  <1> SUFFICES ASSUME NEW id \in Conns
               PROVE  HostFinal(id)' /\ ClientFinal(id)' /\ Fresh(id)'
    BY DEF Final
  <1>1. HostFinal(id) /\ ClientFinal(id) /\ Fresh(id)
    BY DEF Final
  <1>2. Current(id)' = Current(id)
    BY DEF Current, Conn
  <1>3. HostGave(id)' => HostGave(id)
    BY <1>2 DEF HostGave
  <1>4. ClientGave(id)' => ClientGave(id)
    BY DEF ClientGave
  <1>5. (HostOpen(id)' <=> HostOpen(id)) /\ (HostBusy(id)' <=> HostBusy(id))
    BY DEF HostOpen, HostBusy
  <1>6. (ClientOpen(id)' <=> ClientOpen(id)) /\ (ClientBusy(id)' <=> ClientBusy(id))
    BY <1>2 DEF ClientOpen, ClientBusy
  <1>7. HostFinal(id)'
    BY <1>1, <1>3, <1>5 DEF HostFinal
  <1>8. ClientFinal(id)'
    BY <1>1, <1>2, <1>4, <1>6 DEF ClientFinal
  <1>9. Fresh(id)'
    BY <1>1, <1>2, <1>3 DEF Fresh, Traced
  <1> QED BY <1>7, <1>8, <1>9

\* Where a frame of the host arrives.
LEMMA HostSendsFinal ==
    ASSUME TypeOK, NEW m \in HostMessages, HostSends(m)
    PROVE  \A c \in Clients :
              Says(toClient'[c], "yes") =>
                  Says(toClient[c], "yes") \/ (m = "yes" /\ served = Conn(c))
  <1> SUFFICES ASSUME NEW c \in Clients
               PROVE  Says(toClient'[c], "yes") =>
                          Says(toClient[c], "yes") \/ (m = "yes" /\ served = Conn(c))
    OBVIOUS
  <1>0. \/ toClient'[c] = toClient[c]
        \/ Attached(c) /\ toClient'[c] = Append(toClient[c], m)
    BY DEF HostSends, TypeOK, ClientTypeOK, HostTypeOK, Attached, Conn, Dev
  <1>2. toClient[c] \in Seq(HostMessages)
    BY DEF TypeOK, ClientTypeOK
  <1> QED BY <1>0, <1>2, SaysAppend DEF Attached

-----------------------------------------------------------------------------
(* ... by the steps of the host and the panel *)

LEMMA HostDecideFinal ==
    ASSUME IInv, Final, HostDecide
    PROVE  Final'
  <1> SUFFICES ASSUME NEW id \in Conns
               PROVE  HostFinal(id)' /\ ClientFinal(id)' /\ Fresh(id)'
    BY DEF Final
  <1>1. HostFinal(id) /\ ClientFinal(id) /\ Fresh(id) /\ TypeOK
    BY DEF Final, IInv
  <1>2. PICK m \in HostMessages : m # "yes" /\ HostSends(m)
    BY DEF HostDecide, AdmitSession, RejectSession, ConfirmPaired,
           RefuseCeremony, BeginCeremony, HostMessages
  <1>3. \A c \in Clients : Says(toClient'[c], "yes") => Says(toClient[c], "yes")
    BY <1>1, <1>2, HostSendsFinal
  <1>4. /\ UNCHANGED <<phase, dials, clientLocal, clientRemote, log>>
        /\ hostPhase = "handshake" /\ toHost # <<>> /\ toHost \in Seq(ClientMessages)
    BY <1>1 DEF HostDecide, TypeOK, HostTypeOK
  <1>5. \/ served' = NoConn
        \/ /\ served' = served /\ hostPhase' \in {"session", "commit"}
           /\ toHost' = Tail(toHost) /\ UNCHANGED <<hostLocal, hostRemote>>
    BY DEF HostDecide, AdmitSession, RejectSession, ConfirmPaired,
           RefuseCeremony, BeginCeremony, HostClose
  <1>6. served' = served /\ served' # NoConn => (ClientGave(id)' => ClientGave(id))
    BY <1>4, <1>5, SaysTail DEF ClientGave, Stored
  <1>7. served' = served /\ served' # NoConn => (HostOpen(id)' => HostOpen(id))
    BY <1>4, <1>5 DEF HostOpen
  <1> QED
    BY <1>1, <1>3, <1>4, <1>5, <1>6, <1>7, HostStepFinal DEF Refused, Stored

\* The host closes.
LEMMA HostClosedFinal ==
    ASSUME IInv, Final, HostClose,
           UNCHANGED <<phase, dials, toClient, clientLocal, clientRemote>>,
           \A id \in Conns : \A who : Refused(who, id)' => Refused(who, id),
           \A id \in Conns : \A who : Stored(who, id)' => Stored(who, id)
    PROVE  Final'
  <1> SUFFICES ASSUME NEW id \in Conns
               PROVE  HostFinal(id)' /\ ClientFinal(id)' /\ Fresh(id)'
    BY DEF Final
  <1>1. HostFinal(id) /\ ClientFinal(id) /\ Fresh(id) /\ TypeOK
    BY DEF Final, IInv
  <1> QED BY <1>1, HostStepFinal DEF HostClose

LEMMA HostExchangeFinal ==
    ASSUME IInv, Final, HostCommit \/ HostReveal
    PROVE  Final'
  <1> SUFFICES ASSUME NEW id \in Conns
               PROVE  HostFinal(id)' /\ ClientFinal(id)' /\ Fresh(id)'
    BY DEF Final
  <1>1. HostFinal(id) /\ ClientFinal(id) /\ Fresh(id) /\ TypeOK
    BY DEF Final, IInv
  <1>2. \A c \in Clients : Says(toClient'[c], "yes") => Says(toClient[c], "yes")
    BY <1>1, HostSendsFinal DEF HostCommit, HostReveal, HostMessages, clientVars
  <1>3. /\ UNCHANGED <<phase, dials, clientLocal, clientRemote, log>>
        /\ hostPhase \in {"commit", "reveal"} /\ hostPhase' \in {"reveal", "confirm"}
        /\ toHost # <<>> /\ toHost' = Tail(toHost)
        /\ UNCHANGED <<served, hostLocal, hostRemote>>
    BY DEF HostCommit, HostReveal, clientVars
  <1>4. ClientGave(id)' => ClientGave(id)
    BY <1>1, <1>3, SaysTail DEF ClientGave, Stored, TypeOK, HostTypeOK
  <1>5. HostOpen(id)' => HostOpen(id)
    BY <1>3 DEF HostOpen
  <1> QED
    BY <1>1, <1>2, <1>3, <1>4, <1>5, HostStepFinal DEF Refused, Stored

LEMMA HostWithdrawsFinal ==
    ASSUME IInv, Final, HostExpires \/ HostCancels
    PROVE  Final'
  <1> SUFFICES ASSUME NEW id \in Conns
               PROVE  HostFinal(id)' /\ ClientFinal(id)' /\ Fresh(id)'
    BY DEF Final
  <1>1. HostFinal(id) /\ ClientFinal(id) /\ Fresh(id) /\ TypeOK
    BY DEF Final, IInv
  <1>2. \A c \in Clients : Says(toClient'[c], "yes") => Says(toClient[c], "yes")
    BY <1>1, HostSendsFinal DEF HostExpires, HostCancels, HostRefuses, HostMessages
  <1>3. /\ UNCHANGED <<phase, dials, clientLocal, clientRemote, log, served>>
        /\ hostPhase = "confirm" /\ hostPhase' = "linger"
        /\ toHost' = <<>> /\ hostRemote' = "none"
    BY DEF HostExpires, HostCancels, HostRefuses
  <1>4. ClientGave(id)' => ClientGave(id)
    BY <1>3, SaysEmpty DEF ClientGave, Stored
  <1>5. HostOpen(id)' => HostOpen(id)
    BY <1>3 DEF HostOpen
  <1> QED
    BY <1>1, <1>2, <1>3, <1>4, <1>5, HostStepFinal DEF Refused, Stored

LEMMA HostReadsVerdictFinal ==
    ASSUME IInv, Final, HostReadsVerdict
    PROVE  Final'
  <1> SUFFICES ASSUME NEW id \in Conns
               PROVE  HostFinal(id)' /\ ClientFinal(id)' /\ Fresh(id)'
    BY DEF Final
  <1>1. HostFinal(id) /\ ClientFinal(id) /\ Fresh(id) /\ TypeOK
    BY DEF Final, IInv
  <1>2. /\ UNCHANGED <<phase, dials, toClient, clientLocal, clientRemote, log, served>>
        /\ hostPhase = "confirm" /\ hostPhase' \in {"store", "confirm"}
        /\ toHost # <<>> /\ toHost' = Tail(toHost)
        /\ hostPhase' = "confirm" => hostLocal' = hostLocal
    BY DEF HostReadsVerdict, BothAccepted, clientVars
  <1>3. Says(toHost, "yes")
    BY <1>1, SaysHead DEF HostReadsVerdict, TypeOK, HostTypeOK
  <1>4. ClientGave(id)' => ClientGave(id)
    BY <1>2, <1>3 DEF ClientGave, Stored
  <1>5. HostOpen(id)' => HostOpen(id)
    BY <1>2 DEF HostOpen
  <1> QED
    BY <1>1, <1>2, <1>4, <1>5, HostStepFinal DEF Refused, Stored

\* The three steps that decide, store or begin.
LEMMA HostReadsYesFinal ==
    ASSUME IInv, Final, HostReadsYes
    PROVE  Final'
  <1> SUFFICES ASSUME NEW id \in Conns
               PROVE  HostFinal(id)' /\ ClientFinal(id)' /\ Fresh(id)'
    BY DEF Final
  <1>1. HostFinal(id) /\ ClientFinal(id) /\ Fresh(id) /\ TypeOK
    BY DEF Final, IInv
  <1>2. /\ UNCHANGED <<phase, dials, clientLocal, clientRemote, log, served, toHost>>
        /\ hostPhase = "confirm" /\ hostLocal = "none"
        /\ \/ hostPhase' = "store" /\ hostRemote = "yes" /\ hostRemote' = "none"
           \/ hostPhase' = "confirm" /\ hostLocal' = "yes" /\ hostRemote' = hostRemote
    BY DEF HostReadsYes, BothAccepted
  <1>3. Dev(id) \in Clients
    BY DEF Conns, Dev
  <1>4. Current(id)' = Current(id)
    BY <1>2 DEF Current, Conn
  <1>5. HostGave(id)' => HostGave(id) \/ served = id
    <2>1. Says(toClient'[Dev(id)], "yes") =>
              Says(toClient[Dev(id)], "yes") \/ served = Conn(Dev(id))
      BY <1>1, <1>3, HostSendsFinal DEF HostReadsYes, HostMessages
    <2> QED BY <2>1, <1>2, <1>4 DEF HostGave, Current, Stored
  <1>6. ClientGave(id)' => ClientGave(id)
    BY <1>2 DEF ClientGave, Stored
  <1>7. ~HostOpen(id)' /\ (HostBusy(id)' <=> HostBusy(id)) /\ (served = id => HostBusy(id))
    BY <1>2 DEF HostOpen, HostBusy
  <1>8. (ClientOpen(id)' <=> ClientOpen(id)) /\ (ClientBusy(id)' <=> ClientBusy(id))
    BY <1>2, <1>4 DEF ClientOpen, ClientBusy
  <1>9. HostFinal(id)'
    BY <1>1, <1>2, <1>5, <1>7 DEF HostFinal, Refused, Stored
  <1>10. ClientFinal(id)'
    BY <1>1, <1>2, <1>4, <1>6, <1>8 DEF ClientFinal, Refused, Stored
  <1>11. Fresh(id)'
    BY <1>1, <1>2, <1>4, <1>5 DEF Fresh, Traced, Refused, Stored
  <1> QED BY <1>9, <1>10, <1>11

LEMMA HostReadsNoFinal ==
    ASSUME IInv, Final, HostReadsNo
    PROVE  Final'
  <1> SUFFICES ASSUME NEW id \in Conns
               PROVE  HostFinal(id)' /\ ClientFinal(id)' /\ Fresh(id)'
    BY DEF Final
  <1>1. HostFinal(id) /\ ClientFinal(id) /\ Fresh(id) /\ TypeOK
    BY DEF Final, IInv
  <1>2. /\ UNCHANGED <<phase, dials, clientLocal, clientRemote, served>>
        /\ log' = log \cup {<<"host", "rejected", served>>}
        /\ hostPhase = "confirm" /\ hostLocal = "none" /\ hostPhase' = "linger"
        /\ toHost' = <<>> /\ hostRemote' = "none"
    BY DEF HostReadsNo, HostRefuses
  <1>3. Dev(id) \in Clients
    BY DEF Conns, Dev
  <1>4. Current(id)' = Current(id)
    BY <1>2 DEF Current, Conn
  <1>5. HostGave(id)' => HostGave(id)
    <2>1. Says(toClient'[Dev(id)], "yes") => Says(toClient[Dev(id)], "yes")
      BY <1>1, <1>3, HostSendsFinal DEF HostReadsNo, HostRefuses, HostMessages
    <2> QED BY <2>1, <1>2, <1>4 DEF HostGave, Stored
  <1>6. ClientGave(id)' => ClientGave(id)
    BY <1>2, SaysEmpty DEF ClientGave, Stored
  <1>7. ~HostOpen(id)' /\ ~HostBusy(id)' /\ (served = id => HostOpen(id))
    BY <1>2 DEF HostOpen, HostBusy
  <1>8. (ClientOpen(id)' <=> ClientOpen(id)) /\ (ClientBusy(id)' <=> ClientBusy(id))
    BY <1>2, <1>4 DEF ClientOpen, ClientBusy
  <1>9. HostFinal(id)'
    BY <1>1, <1>2, <1>5, <1>7 DEF HostFinal, Refused, Stored
  <1>10. ClientFinal(id)'
    BY <1>1, <1>2, <1>4, <1>6, <1>8 DEF ClientFinal, Refused, Stored
  <1>11. Fresh(id)'
    BY <1>1, <1>2, <1>4, <1>5 DEF Fresh, Traced, Refused, Stored
  <1> QED BY <1>9, <1>10, <1>11

LEMMA HostStoresFinal ==
    ASSUME IInv, Final, HostStores
    PROVE  Final'
  <1> SUFFICES ASSUME NEW id \in Conns
               PROVE  HostFinal(id)' /\ ClientFinal(id)' /\ Fresh(id)'
    BY DEF Final
  <1>1. HostFinal(id) /\ ClientFinal(id) /\ Fresh(id) /\ TypeOK
    BY DEF Final, IInv
  <1>2. /\ UNCHANGED <<phase, dials, clientLocal, clientRemote, toClient>>
        /\ log' = log \cup {<<"host", "paired", served>>}
        /\ hostPhase = "store" /\ served' = NoConn /\ toHost' = <<>>
    BY DEF HostStores, HostClose, clientVars
  <1>3. id # NoConn
    BY NoConnAssumption DEF Conns
  <1>4. Current(id)' = Current(id)
    BY <1>2 DEF Current, Conn
  <1>5. HostGave(id)' => HostGave(id)
    BY <1>2, <1>4 DEF HostGave, Stored
  <1>6. ClientGave(id)' => ClientGave(id)
    BY <1>2, <1>3 DEF ClientGave, Stored
  <1>7. ~HostOpen(id)' /\ ~HostBusy(id)' /\ (served = id => HostBusy(id))
    BY <1>2, <1>3 DEF HostOpen, HostBusy
  <1>8. (ClientOpen(id)' <=> ClientOpen(id)) /\ (ClientBusy(id)' <=> ClientBusy(id))
    BY <1>2, <1>4 DEF ClientOpen, ClientBusy
  <1>9. HostFinal(id)'
    BY <1>1, <1>2, <1>3, <1>5, <1>7 DEF HostFinal, Refused, Stored
  <1>10. ClientFinal(id)'
    BY <1>1, <1>2, <1>4, <1>6, <1>8 DEF ClientFinal, Refused, Stored
  <1>11. Fresh(id)'
    BY <1>1, <1>2, <1>3, <1>4, <1>5 DEF Fresh, Traced, Refused, Stored
  <1> QED BY <1>9, <1>10, <1>11

LEMMA HostAcceptFinal ==
    ASSUME IInv, Final, NEW c \in Clients, HostAccept(c)
    PROVE  Final'
  <1> SUFFICES ASSUME NEW id \in Conns
               PROVE  HostFinal(id)' /\ ClientFinal(id)' /\ Fresh(id)'
    BY DEF Final
  <1>1. HostFinal(id) /\ ClientFinal(id) /\ Fresh(id) /\ TypeOK
    BY DEF Final, IInv
  <1>2. /\ UNCHANGED <<phase, dials, clientLocal, clientRemote, toClient, log>>
        /\ UNCHANGED <<toHost, hostRemote>>
        /\ phase[c] = "dialed" /\ served' = Conn(c) /\ hostPhase' = "handshake"
    BY DEF HostAccept, clientVars
  <1>3. toHost = <<>> /\ hostRemote = "none"
    BY DEF HostAccept, IInv, Knows, HostKnows, TypeOK, HostTypeOK
  <1>4. /\ Current(id)' = Current(id)
        /\ served' = id => Current(id) /\ Dev(id) = c /\ id[2] <= dials[c]
    BY <1>1, <1>2 DEF Current, Conn, Dev, TypeOK, ClientTypeOK
  <1>5. HostGave(id)' => HostGave(id)
    BY <1>2, <1>4 DEF HostGave, Stored
  <1>6. ClientGave(id)' => ClientGave(id)
    BY <1>2, <1>3, SaysEmpty DEF ClientGave, Stored
  <1>7. (HostOpen(id)' => served' = id) /\ (HostBusy(id)' => served' = id)
    BY DEF HostOpen, HostBusy
  <1>8. (ClientOpen(id)' <=> ClientOpen(id)) /\ (ClientBusy(id)' <=> ClientBusy(id))
    BY <1>2, <1>4 DEF ClientOpen, ClientBusy
  <1>9. HostFinal(id)'
    BY <1>1, <1>2, <1>4, <1>5, <1>7 DEF HostFinal, Fresh, Refused, Stored
  <1>10. ClientFinal(id)'
    BY <1>1, <1>2, <1>4, <1>6, <1>8 DEF ClientFinal, Refused, Stored
  <1>11. Fresh(id)'
    BY <1>1, <1>2, <1>3, <1>4, <1>5 DEF Fresh, Traced, Refused, Stored
  <1> QED BY <1>9, <1>10, <1>11

LEMMA HostNextFinal ==
    ASSUME IInv, Final, HostNext
    PROVE  Final'
  <1>1. CASE HandshakeFails \/ HostStoreFails \/ HostSessionEnds
    BY <1>1, HostClosedFinal
    DEF HandshakeFails, HostStoreFails, HostSessionEnds, clientVars, Refused, Stored
  <1>2. CASE HostReadsRefusal \/ HostLingerEnds \/ CeremonyFails
    BY <1>2, HostClosedFinal
    DEF HostReadsRefusal, HostLingerEnds, CeremonyFails, HostFinish, clientVars,
        Refused, Stored
  <1>3. CASE \E c \in Clients : HostAccept(c)
    BY <1>3, HostAcceptFinal
  <1>4. CASE HostStops \/ HostDies
    <2> SUFFICES ASSUME NEW id \in Conns
                 PROVE  HostFinal(id)' /\ ClientFinal(id)' /\ Fresh(id)'
      BY DEF Final
    <2>1. HostFinal(id) /\ ClientFinal(id) /\ Fresh(id) /\ TypeOK
      BY DEF Final, IInv
    <2> QED
      BY <1>4, <2>1, HostStepFinal
      DEF HostStops, HostDies, HostDown, clientVars, Refused, Stored
  <1>5. CASE \E c \in Clients : Revoke(c)
    BY <1>5, UntouchedFinal DEF Revoke, clientVars, Refused, Stored
  <1> QED
    BY <1>1, <1>2, <1>3, <1>4, <1>5, HostDecideFinal, HostExchangeFinal,
       HostWithdrawsFinal, HostReadsVerdictFinal, HostReadsYesFinal,
       HostReadsNoFinal, HostStoresFinal
    DEF HostNext, HostStep

LEMMA PanelNextFinal ==
    ASSUME IInv, Final, PanelNext
    PROVE  Final'
  <1>1. CASE \E mode \in {"panel", "none"} : PanelStart(mode)
    <2> SUFFICES ASSUME NEW id \in Conns
                 PROVE  HostFinal(id)' /\ ClientFinal(id)' /\ Fresh(id)'
      BY DEF Final
    <2>1. HostFinal(id) /\ ClientFinal(id) /\ Fresh(id) /\ TypeOK
      BY DEF Final, IInv
    <2>2. served' = NoConn
      BY <1>1, <2>1 DEF PanelStart, TypeOK, HostTypeOK
    <2> QED
      BY <1>1, <2>1, <2>2, HostStepFinal DEF PanelStart, clientVars, Refused, Stored
  <1>2. CASE PanelStop \/ PanelFinish \/ PanelReads
    BY <1>2, UntouchedFinal
    DEF PanelStop, PanelFinish, PanelReads, hostVars, clientVars, Refused, Stored
  <1>3. CASE \E answer \in {"accept", "reject"} : PanelAnswer(answer)
    BY <1>3, UntouchedFinal DEF PanelAnswer, hostVars, clientVars, Refused, Stored
  <1> QED BY <1>1, <1>2, <1>3 DEF PanelNext

-----------------------------------------------------------------------------
(* ... and by those of the clients *)

\* What the client sends, other than its yes, gives nothing.
LEMMA ClientSendsFinal ==
    ASSUME TypeOK, NEW c \in Clients, NEW m \in ClientMessages, ClientSends(c, m)
    PROVE  /\ Says(toHost', "yes") => Says(toHost, "yes") \/ (m = "yes" /\ served = Conn(c))
           /\ toHost' = toHost \/ served = Conn(c)
  <1>1. toHost \in Seq(ClientMessages)
    BY DEF TypeOK, HostTypeOK
  <1> QED BY <1>1, SaysAppend DEF ClientSends

LEMMA ClientLeavesFinal ==
    ASSUME IInv, Final, NEW c \in Clients, NEW s, ClientLeaves(c, s),
           UNCHANGED <<hostPhase, served, toHost, hostLocal, hostRemote>>,
           \A id \in Conns : \A who : Refused(who, id)' => Refused(who, id),
           \A id \in Conns : \A who : Stored(who, id)' => Stored(who, id)
    PROVE  Final'
  <1> SUFFICES ASSUME NEW id \in Conns
               PROVE  HostFinal(id)' /\ ClientFinal(id)' /\ Fresh(id)'
    BY DEF Final
  <1>1. HostFinal(id) /\ ClientFinal(id) /\ Fresh(id) /\ TypeOK
    BY DEF Final, IInv
  <1>2. /\ dials' = dials /\ phase'[c] = "off" /\ clientRemote'[c] = "none"
        /\ toClient'[c] = <<>>
        /\ \A k \in Clients \ {c} :
               /\ phase'[k] = phase[k]
               /\ toClient'[k] = toClient[k]
               /\ clientLocal'[k] = clientLocal[k]
               /\ clientRemote'[k] = clientRemote[k]
    BY <1>1 DEF ClientLeaves, ConfirmReturns, TypeOK, ClientTypeOK
  <1>3. ~Says(toClient'[c], "yes")
    BY <1>2, SaysEmpty
  <1> QED BY <1>1, <1>2, <1>3, ClientStepFinal

\* Before the ceremony asks: a frame is read or sent, and the client goes on.
LEMMA ClientTalksFinal ==
    ASSUME IInv, Final, NEW c \in Clients, NEW m \in ClientMessages, m # "yes",
           ClientSends(c, m) \/ toHost' = toHost,
           UNCHANGED <<hostPhase, served, hostLocal, hostRemote, dials, clientLocal,
                       clientRemote, log>>,
           \/ toClient' = toClient
           \/ toClient[c] # <<>> /\ toClient' = [toClient EXCEPT ![c] = Tail(@)],
           NEW p \in {"await", "nonce", "session", "confirm"},
           phase' = [phase EXCEPT ![c] = p],
           phase[c] \in {"dialed", "await", "nonce"}
    PROVE  Final'
  <1> SUFFICES ASSUME NEW id \in Conns
               PROVE  HostFinal(id)' /\ ClientFinal(id)' /\ Fresh(id)'
    BY DEF Final
  <1>1. HostFinal(id) /\ ClientFinal(id) /\ Fresh(id) /\ TypeOK
    BY DEF Final, IInv
  <1>2. /\ Says(toHost', "yes") => Says(toHost, "yes")
        /\ toHost' = toHost \/ served = Conn(c)
    BY <1>1, ClientSendsFinal
  <1>3. /\ phase'[c] = p
        /\ \A k \in Clients \ {c} : phase'[k] = phase[k] /\ toClient'[k] = toClient[k]
    BY <1>1 DEF TypeOK, ClientTypeOK
  <1>4. \A k \in Clients : Says(toClient'[k], "yes") => Says(toClient[k], "yes")
    <2>1. toClient \in [Clients -> Seq(HostMessages)]
      BY <1>1 DEF TypeOK, ClientTypeOK
    <2>2. Says(toClient'[c], "yes") => Says(toClient[c], "yes")
      BY <2>1, SaysTail
    <2> QED BY <1>3, <2>2
  <1>5. Dev(id) \in Clients /\ Current(id)' = Current(id)
    BY DEF Conns, Dev, Current, Conn
  <1>6. HostGave(id)' => HostGave(id)
    BY <1>3, <1>4, <1>5 DEF HostGave, Stored
  <1>7. ClientOpen(id)' => ClientOpen(id)
    BY <1>3, <1>5 DEF ClientOpen
  <1> QED
    BY <1>1, <1>2, <1>3, <1>6, <1>7, ClientStepFinal DEF Refused, Stored

LEMMA DialFinal ==
    ASSUME IInv, Final, NEW c \in Clients, Dial(c)
    PROVE  Final'
  <1> SUFFICES ASSUME NEW id \in Conns
               PROVE  HostFinal(id)' /\ ClientFinal(id)' /\ Fresh(id)'
    BY DEF Final
  <1>1. HostFinal(id) /\ ClientFinal(id) /\ Fresh(id) /\ TypeOK
    BY DEF Final, IInv
  <1>2. /\ UNCHANGED <<hostPhase, served, toHost, hostLocal, hostRemote, toClient,
                       clientLocal, clientRemote, log>>
        /\ phase[c] = "off" /\ phase'[c] = "dialed" /\ dials'[c] = dials[c] + 1
        /\ \A k \in Clients \ {c} : phase'[k] = phase[k] /\ dials'[k] = dials[k]
        /\ dials \in [Clients -> Nat]
    BY <1>1 DEF Dial, hostVars, TypeOK, ClientTypeOK
  <1>3. toClient[c] = <<>> /\ clientRemote[c] = "none"
    BY <1>2 DEF IInv, Knows, ClientsKnow, ClientKnows
  <1>4. /\ Dev(id) \in Clients /\ id[2] \in Nat
        /\ Current(id) <=> id[2] = dials[Dev(id)]
        /\ Current(id)' <=> id[2] = dials'[Dev(id)]
    BY DEF Conns, Dev, Current, Conn
  <1>5. CASE Dev(id) # c
    <2>1. /\ Current(id)' <=> Current(id)
          /\ phase'[Dev(id)] = phase[Dev(id)] /\ dials'[Dev(id)] = dials[Dev(id)]
      BY <1>2, <1>4, <1>5
    <2> QED
      BY <1>1, <1>2, <2>1
      DEF HostFinal, ClientFinal, Fresh, Traced, HostGave, ClientGave, HostOpen,
          ClientOpen, HostBusy, ClientBusy, Refused, Stored
  <1>6. CASE Dev(id) = c
    <2>1. /\ Traced(id) => id[2] <= dials[c] /\ ~Current(id)'
          /\ Traced(id)' <=> Traced(id)
          /\ dials[c] <= dials'[c]
      BY <1>1, <1>2, <1>4, <1>6 DEF Fresh, Traced, Refused, Stored
    <2>2. HostGave(id)' => Stored("client", id)
      BY <1>2, <1>3, <1>6, SaysEmpty DEF HostGave, Stored
    <2>3. /\ ClientGave(id)' <=> ClientGave(id)
          /\ HostOpen(id)' <=> HostOpen(id)
          /\ HostBusy(id)' <=> HostBusy(id)
          /\ \A who : Refused(who, id)' <=> Refused(who, id)
          /\ \A who : Stored(who, id)' <=> Stored(who, id)
      BY <1>2 DEF ClientGave, HostOpen, HostBusy, Refused, Stored
    <2>4. ClientGave(id) => Traced(id)
      BY DEF ClientGave, Traced
    <2>5. ClientOpen(id)' \/ ClientBusy(id)' => Current(id)'
      BY DEF ClientOpen, ClientBusy
    <2>6. HostFinal(id)'
      BY <1>1, <1>2, <2>2, <2>3 DEF HostFinal, HostGave
    <2>7. ClientFinal(id)'
      BY <1>1, <2>1, <2>3, <2>4, <2>5 DEF ClientFinal, Traced
    <2>8. Fresh(id)'
      BY <1>2, <1>4, <1>6, <2>1, <2>2, <2>3 DEF Fresh, Traced
    <2> QED BY <2>6, <2>7, <2>8
  <1> QED BY <1>5, <1>6

LEMMA ClientReadsYesFinal ==
    ASSUME IInv, Final, NEW c \in Clients, ClientReadsYes(c)
    PROVE  Final'
  <1> SUFFICES ASSUME NEW id \in Conns
               PROVE  HostFinal(id)' /\ ClientFinal(id)' /\ Fresh(id)'
    BY DEF Final
  <1>1. HostFinal(id) /\ ClientFinal(id) /\ Fresh(id) /\ TypeOK
    BY DEF Final, IInv
  <1>2. /\ UNCHANGED <<hostPhase, served, hostLocal, hostRemote, dials, toClient, log>>
        /\ phase[c] = "confirm" /\ clientLocal[c] = "none"
        /\ \/ phase'[c] = "store" /\ clientRemote[c] = "yes" /\ clientRemote'[c] = "none"
           \/ /\ phase'[c] = "confirm" /\ clientLocal'[c] = "yes"
              /\ clientRemote'[c] = clientRemote[c]
        /\ \A k \in Clients \ {c} :
               /\ phase'[k] = phase[k]
               /\ clientLocal'[k] = clientLocal[k]
               /\ clientRemote'[k] = clientRemote[k]
    BY <1>1 DEF ClientReadsYes, ConfirmReturns, TypeOK, ClientTypeOK
  <1>3. /\ Says(toHost', "yes") => Says(toHost, "yes") \/ served = Conn(c)
        /\ toHost' = toHost \/ served = Conn(c)
    BY <1>1, ClientSendsFinal DEF ClientReadsYes, ClientMessages
  <1>4. /\ Dev(id) \in Clients /\ Current(id)' = Current(id)
        /\ Conn(c) = id <=> Current(id) /\ Dev(id) = c
    BY <1>2 DEF Conns, Dev, Current, Conn
  <1>5. HostGave(id)' => HostGave(id)
    BY <1>2, <1>4 DEF HostGave, Stored
  <1>6. ClientGave(id)' => ClientGave(id) \/ Conn(c) = id
    BY <1>2, <1>3 DEF ClientGave, Stored
  <1>7. /\ ClientOpen(id)' => ClientOpen(id) /\ Conn(c) # id
        /\ ClientBusy(id)' => ClientBusy(id)
        /\ Conn(c) = id => ClientBusy(id)
    BY <1>2, <1>4 DEF ClientOpen, ClientBusy
  <1>8. (HostOpen(id)' <=> HostOpen(id)) /\ (HostBusy(id)' <=> HostBusy(id))
    BY <1>2 DEF HostOpen, HostBusy
  <1>9. HostFinal(id)'
    BY <1>1, <1>2, <1>5, <1>8 DEF HostFinal, Refused, Stored
  <1>10. ClientFinal(id)'
    BY <1>1, <1>2, <1>4, <1>6, <1>7 DEF ClientFinal, Refused, Stored
  <1>11. Fresh(id)'
    BY <1>1, <1>2, <1>3, <1>4, <1>5 DEF Fresh, Traced, Refused, Stored
  <1> QED BY <1>9, <1>10, <1>11

LEMMA ClientReadsNoFinal ==
    ASSUME IInv, Final, NEW c \in Clients, ClientReadsNo(c) \/ ClientGivesUp(c)
    PROVE  Final'
  <1> SUFFICES ASSUME NEW id \in Conns
               PROVE  HostFinal(id)' /\ ClientFinal(id)' /\ Fresh(id)'
    BY DEF Final
  <1>1. HostFinal(id) /\ ClientFinal(id) /\ Fresh(id) /\ TypeOK
    BY DEF Final, IInv
  <1>2. /\ UNCHANGED <<hostPhase, served, hostLocal, hostRemote, dials, toClient>>
        /\ \/ log' = log
           \/ clientLocal[c] = "none" /\ log' = log \cup {<<"client", "rejected", Conn(c)>>}
        /\ phase[c] = "confirm" /\ phase'[c] = "linger" /\ clientRemote'[c] = "none"
        /\ \A k \in Clients \ {c} :
               /\ phase'[k] = phase[k]
               /\ clientLocal'[k] = clientLocal[k]
               /\ clientRemote'[k] = clientRemote[k]
    BY <1>1
    DEF ClientReadsNo, ClientGivesUp, ClientRefuses, ConfirmReturns, TypeOK,
        ClientTypeOK
  <1>3. /\ Says(toHost', "yes") => Says(toHost, "yes")
        /\ toHost' = toHost \/ served = Conn(c)
    BY <1>1, ClientSendsFinal
    DEF ClientReadsNo, ClientGivesUp, ClientRefuses, ClientMessages
  <1>4. /\ Dev(id) \in Clients /\ Current(id)' = Current(id)
        /\ Conn(c) = id <=> Current(id) /\ Dev(id) = c
    BY <1>2 DEF Conns, Dev, Current, Conn
  <1>5. HostGave(id)' => HostGave(id)
    BY <1>2, <1>4 DEF HostGave, Stored
  <1>6. ClientGave(id)' => ClientGave(id)
    BY <1>2, <1>3 DEF ClientGave, Stored
  <1>7. /\ ClientOpen(id)' => ClientOpen(id) /\ Conn(c) # id
        /\ ClientBusy(id)' => ClientBusy(id) /\ Conn(c) # id
        /\ Conn(c) = id => ClientBusy(id)
        /\ Conn(c) = id /\ clientLocal[c] = "none" => ClientOpen(id)
    BY <1>2, <1>4 DEF ClientOpen, ClientBusy
  <1>8. (HostOpen(id)' <=> HostOpen(id)) /\ (HostBusy(id)' <=> HostBusy(id))
    BY <1>2 DEF HostOpen, HostBusy
  <1>9. HostFinal(id)'
    BY <1>1, <1>2, <1>5, <1>8 DEF HostFinal, Refused, Stored
  <1>10. ClientFinal(id)'
    <2>1. \A who : Stored(who, id)' <=> Stored(who, id)
      BY <1>2 DEF Stored
    <2>2. Refused("client", id)' =>
              Refused("client", id) \/ (Conn(c) = id /\ clientLocal[c] = "none")
      BY <1>2 DEF Refused
    <2>3. Conn(c) = id => ~Stored("client", id)
      BY <1>1, <1>2, <1>4 DEF ClientFinal
    <2> QED
      BY <1>1, <1>2, <1>4, <1>6, <1>7, <2>1, <2>2, <2>3 DEF ClientFinal
  <1>11. Fresh(id)'
    <2>1. Conn(c) = id => id[2] <= dials[Dev(id)]
      BY <1>1, <1>4 DEF Conn, TypeOK, ClientTypeOK
    <2> QED
      BY <1>1, <1>2, <1>3, <1>4, <1>5, <2>1 DEF Fresh, Traced, Refused, Stored
  <1> QED BY <1>9, <1>10, <1>11

LEMMA ClientReadsVerdictFinal ==
    ASSUME IInv, Final, NEW c \in Clients, ClientReadsVerdict(c)
    PROVE  Final'
  <1> USE DEF IInv
  <1>1. CASE (UNCHANGED log /\ ClientLeaves(c, "first")) \/ ClientProtocolError(c)
    BY <1>1, ClientLeavesFinal
    DEF ClientReadsVerdict, ClientProtocolError, Refused, Stored
  <1>2. CASE ~((UNCHANGED log /\ ClientLeaves(c, "first")) \/ ClientProtocolError(c))
    <2> SUFFICES ASSUME NEW id \in Conns
                 PROVE  HostFinal(id)' /\ ClientFinal(id)' /\ Fresh(id)'
      BY DEF Final
    <2>1. HostFinal(id) /\ ClientFinal(id) /\ Fresh(id) /\ TypeOK
      BY DEF Final
    <2>2. /\ UNCHANGED <<hostPhase, served, toHost, hostLocal, hostRemote, dials, log>>
          /\ phase[c] = "confirm" /\ toClient[c] # <<>> /\ Head(toClient[c]) = "yes"
          /\ \/ phase'[c] = "store"
             \/ phase'[c] = "confirm" /\ clientLocal'[c] = clientLocal[c]
          /\ \A k \in Clients \ {c} :
                 /\ phase'[k] = phase[k]
                 /\ toClient'[k] = toClient[k]
                 /\ clientLocal'[k] = clientLocal[k]
                 /\ clientRemote'[k] = clientRemote[k]
      BY <1>2, <2>1 DEF ClientReadsVerdict, ConfirmReturns, TypeOK, ClientTypeOK
    <2>3. Says(toClient[c], "yes")
      BY <2>1, <2>2, SaysHead DEF TypeOK, ClientTypeOK
    <2>4. Dev(id) \in Clients /\ Current(id)' = Current(id)
      BY <2>2 DEF Conns, Dev, Current, Conn
    <2>5. HostGave(id)' => HostGave(id)
      BY <2>2, <2>3, <2>4 DEF HostGave, Stored
    <2>6. ClientOpen(id)' => ClientOpen(id)
      BY <2>2, <2>4 DEF ClientOpen
    <2> QED
      BY <2>1, <2>2, <2>5, <2>6, ClientStepFinal DEF Refused, Stored
  <1> QED BY <1>1, <1>2

LEMMA ClientStoresFinal ==
    ASSUME IInv, Final, NEW c \in Clients, ClientStores(c)
    PROVE  Final'
  <1> SUFFICES ASSUME NEW id \in Conns
               PROVE  HostFinal(id)' /\ ClientFinal(id)' /\ Fresh(id)'
    BY DEF Final
  <1>1. HostFinal(id) /\ ClientFinal(id) /\ Fresh(id) /\ TypeOK
    BY DEF Final, IInv
  <1>2. /\ UNCHANGED <<hostPhase, served, toHost, hostLocal, hostRemote, dials>>
        /\ log' = log \cup {<<"client", "paired", Conn(c)>>}
        /\ phase[c] = "store" /\ phase'[c] = "off" /\ toClient'[c] = <<>>
        /\ clientRemote'[c] = "none"
        /\ \A k \in Clients \ {c} :
               /\ phase'[k] = phase[k]
               /\ toClient'[k] = toClient[k]
               /\ clientLocal'[k] = clientLocal[k]
               /\ clientRemote'[k] = clientRemote[k]
    BY <1>1
    DEF ClientStores, ClientLeaves, ConfirmReturns, hostVars, TypeOK, ClientTypeOK
  <1>4. /\ Dev(id) \in Clients /\ Current(id)' = Current(id)
        /\ Conn(c) = id <=> Current(id) /\ Dev(id) = c
    BY <1>2 DEF Conns, Dev, Current, Conn
  <1>5. HostGave(id)' => HostGave(id)
    BY <1>2, <1>4, SaysEmpty DEF HostGave, Stored
  <1>6. ClientGave(id)' => ClientGave(id)
    BY <1>2 DEF ClientGave, Stored
  <1>7. /\ ClientOpen(id)' => ClientOpen(id)
        /\ ClientBusy(id)' => ClientBusy(id) /\ Conn(c) # id
        /\ Conn(c) = id => ClientBusy(id)
    BY <1>2, <1>4 DEF ClientOpen, ClientBusy
  <1>8. (HostOpen(id)' <=> HostOpen(id)) /\ (HostBusy(id)' <=> HostBusy(id))
    BY <1>2 DEF HostOpen, HostBusy
  <1>9. HostFinal(id)'
    BY <1>1, <1>2, <1>5, <1>8 DEF HostFinal, Refused, Stored
  <1>10. ClientFinal(id)'
    BY <1>1, <1>2, <1>4, <1>6, <1>7 DEF ClientFinal, Refused, Stored
  <1>11. Fresh(id)'
    <2>1. Conn(c) = id => id[2] <= dials[Dev(id)]
      BY <1>1, <1>4 DEF Conn, TypeOK, ClientTypeOK
    <2>2. Traced(id)' => Traced(id) \/ Conn(c) = id
      BY <1>2 DEF Traced, Refused, Stored
    <2>3. Current(id)' /\ phase'[Dev(id)] = "dialed" =>
              Current(id) /\ phase[Dev(id)] = "dialed"
      BY <1>2, <1>4
    <2> QED
      BY <1>1, <1>2, <1>4, <1>5, <2>1, <2>2, <2>3 DEF Fresh, Refused, Stored
  <1> QED BY <1>9, <1>10, <1>11

LEMMA ClientNextFinal ==
    ASSUME IInv, Final, NEW c \in Clients, ClientNext(c)
    PROVE  Final'
  <1>1. CASE ClientHello(c)
    <2>1. CASE ClientLeaves(c, AfterNotPaired(c)) /\ UNCHANGED toHost
      BY <1>1, <2>1, ClientLeavesFinal DEF ClientHello, Refused, Stored
    <2>2. CASE ~(ClientLeaves(c, AfterNotPaired(c)) /\ UNCHANGED toHost)
      BY <1>1, <2>2, ClientTalksFinal DEF ClientHello, ClientMessages, Hellos
    <2> QED BY <2>1, <2>2
  <1>2. CASE ClientReply(c)
    <2>1. CASE SessionAccepted(c)
      BY <1>2, <2>1, ClientTalksFinal DEF ClientReply, SessionAccepted, ClientMessages
    <2>2. CASE CeremonyStarts(c)
      BY <1>2, <2>2, ClientTalksFinal DEF ClientReply, CeremonyStarts, ClientMessages
    <2>3. CASE AlreadyPaired(c) \/ Rejected(c) \/ UnexpectedReply(c)
      <3>1. PICK s : ClientLeaves(c, s)
        BY <2>3
        DEF AlreadyPaired, Rejected, UnexpectedReply, ClientProtocolError
      <3> QED
        BY <1>2, <2>3, <3>1, ClientLeavesFinal
        DEF ClientReply, AlreadyPaired, Rejected, UnexpectedReply,
            ClientProtocolError, Refused, Stored
    <2> QED BY <1>2, <2>1, <2>2, <2>3 DEF ClientReply
  <1>3. CASE ClientNonce(c)
    <2>1. CASE ClientProtocolError(c)
      BY <1>3, <2>1, ClientLeavesFinal
      DEF ClientNonce, ClientProtocolError, Refused, Stored
    <2>2. CASE ~ClientProtocolError(c)
      BY <1>3, <2>2, ClientTalksFinal DEF ClientNonce, ClientMessages
    <2> QED BY <2>1, <2>2
  <1>4. CASE ClickAccept(c) \/ ClickReject(c) \/ Forget(c)
    BY <1>4, UntouchedFinal
    DEF ClickAccept, ClickReject, Forget, hostVars, Refused, Stored
  <1>5. CASE ClientFails(c) \/ ClientRestarts(c)
    BY <1>5, ClientLeavesFinal
    DEF ClientFails, ClientRestarts, hostVars, Refused, Stored
  <1> QED
    BY <1>1, <1>2, <1>3, <1>4, <1>5, DialFinal, ClientReadsYesFinal,
       ClientReadsNoFinal, ClientReadsVerdictFinal, ClientStoresFinal
    DEF ClientNext

-----------------------------------------------------------------------------

LEMMA FinalInit == Init => Final
  <1> SUFFICES ASSUME Init, NEW id \in Conns
               PROVE  HostFinal(id) /\ ClientFinal(id) /\ Fresh(id)
    BY DEF Final
  <1>1. Dev(id) \in Clients /\ id # NoConn
    BY NoConnAssumption DEF Conns, Dev
  <1> QED
    BY <1>1
    DEF Init, HostFinal, ClientFinal, Fresh, Traced, HostGave, ClientGave, HostOpen,
        ClientOpen, HostBusy, ClientBusy, Refused, Stored

LEMMA FinalStep == IInv /\ Final /\ [Next]_vars => Final'
  <1> SUFFICES ASSUME IInv, Final, [Next]_vars
               PROVE  Final'
    OBVIOUS
  <1>1. CASE UNCHANGED vars
    BY <1>1, UntouchedFinal DEF vars, hostVars, clientVars, Refused, Stored
  <1> QED
    BY <1>1, HostNextFinal, PanelNextFinal, ClientNextFinal DEF Next

\* Only an entry of a rejection matters, and it names the connection.
LEMMA RejectersGrow ==
    ASSUME Rejecters, NEW who \in {"host", "client"}, NEW what, NEW id,
           what = "rejected" => id \in Conns,
           log' \subseteq log \cup {<<who, what, id>>}
    PROVE  Rejecters'
  <1> SUFFICES ASSUME NEW e \in log', e[2] = "rejected"
               PROVE  /\ e[3] \in Conns
                      /\ e \in {<<"host", "rejected", e[3]>>,
                               <<"client", "rejected", e[3]>>}
    BY DEF Rejecters
  <1>1. CASE e \in log
    BY <1>1 DEF Rejecters
  <1>2. CASE e = <<who, what, id>>
    BY <1>2
  <1> QED BY <1>1, <1>2

\* A client writes of its own connection.
LEMMA ClientLogs ==
    ASSUME NEW c \in Clients, ClientNext(c)
    PROVE  \E what : log' \subseteq log \cup {<<"client", what, Conn(c)>>}
  <1>1. CASE \E what : log' = log \cup {<<"client", what, Conn(c)>>}
    BY <1>1
  <1>2. CASE log' = log
    BY <1>2
  <1> QED
    BY <1>1, <1>2
    DEF ClientNext, Dial, ClientHello, ClientReply, ClientNonce, ClickAccept,
        ClickReject, ClientReadsYes, ClientReadsNo, ClientReadsVerdict,
        ClientGivesUp, ClientStores, ClientFails, ClientRestarts, Forget,
        ClientRefuses, ClientProtocolError, SessionAccepted, AlreadyPaired,
        CeremonyStarts, Rejected, UnexpectedReply

LEMMA RejectersStep == TypeOK /\ Rejecters /\ [Next]_vars => Rejecters'
  <1> SUFFICES ASSUME TypeOK, Rejecters, [Next]_vars
               PROVE  Rejecters'
    OBVIOUS
  <1>1. CASE UNCHANGED vars
    BY <1>1 DEF vars, Rejecters
  <1>2. CASE HostNext
    <2>1. CASE HostReadsNo \/ HostExpires \/ HostCancels
      <3>1. /\ log' \subseteq log \cup {<<"host", "rejected", served>>}
            /\ hostPhase = "confirm"
        BY <2>1 DEF HostReadsNo, HostExpires, HostCancels, HostRefuses
      <3>2. served \in Conns
        BY <3>1 DEF TypeOK, HostTypeOK
      <3> QED BY <3>1, <3>2, RejectersGrow
    <2>2. CASE HostStores
      <3>1. log' \subseteq log \cup {<<"host", "paired", served>>}
        BY <2>2 DEF HostStores
      <3> QED BY <3>1, RejectersGrow
    <2>3. CASE HostStoreFails
      <3>1. log' \subseteq log \cup {<<"host", "storeFailed", served>>}
        BY <2>3 DEF HostStoreFails
      <3> QED BY <3>1, RejectersGrow
    <2>4. CASE \E c \in Clients : Revoke(c)
      <3>1. \A e \in log' \ log : e[2] = "revoked"
        BY <2>4 DEF Revoke
      <3> QED BY <3>1 DEF Rejecters
    <2>5. CASE log' = log
      BY <2>5 DEF Rejecters
    <2> QED
      BY <1>2, <2>1, <2>2, <2>3, <2>4, <2>5
      DEF HostNext, HostStep, HostDecide, HandshakeFails, HostCommit, HostReveal,
          HostReadsYes, HostReadsVerdict, HostReadsRefusal, HostLingerEnds,
          CeremonyFails, HostAccept, HostSessionEnds, HostStops, HostDies, HostDown,
          HostFinish
  <1>3. CASE PanelNext
    <2>1. log' \subseteq log \cup {<<"host", "yes", shown>>}
      BY <1>3
      DEF PanelNext, PanelStart, PanelStop, PanelFinish, PanelReads, PanelAnswer
    <2> QED BY <2>1, RejectersGrow
  <1>4. ASSUME NEW c \in Clients, ClientNext(c)
        PROVE  Rejecters'
    <2>1. PICK what : log' \subseteq log \cup {<<"client", what, Conn(c)>>}
      BY <1>4, ClientLogs
    <2>2. Conn(c) \in Conns
      BY DEF Conn, Conns, TypeOK, ClientTypeOK
    <2> QED BY <2>1, <2>2, RejectersGrow
  <1> QED BY <1>1, <1>2, <1>3, <1>4 DEF Next

LEMMA FinalImplies ==
    ASSUME Final, Rejecters
    PROVE  RejectionIsFinal
  <1> SUFFICES ASSUME NEW e \in log, e[2] = "rejected",
                      NEW who \in {"host", "client"}
               PROVE  <<who, "paired", e[3]>> \notin log
    BY DEF RejectionIsFinal
  <1>1. Refused("host", e[3]) \/ Refused("client", e[3])
    BY DEF Rejecters, Refused
  <1>2. HostFinal(e[3]) /\ ClientFinal(e[3])
    BY DEF Final, Rejecters
  <1> QED
    BY <1>1, <1>2 DEF HostFinal, ClientFinal, HostGave, ClientGave, Stored

\* Neither end stores a key of a connection that either person rejected, for any
\* number of devices and however their verdicts cross.
THEOREM RejectionStands == Spec => []RejectionIsFinal
  <1>1. Init => IInv /\ Final /\ Rejecters
    BY FinalInit, InitKnows, TypeInit DEF IInv, Init, Rejecters
  <1>2. IInv /\ Final /\ Rejecters /\ [Next]_vars => (IInv /\ Final /\ Rejecters)'
    BY FinalStep, RejectersStep, StepKnows DEF IInv
  <1>3. IInv /\ Final /\ Rejecters => RejectionIsFinal
    BY FinalImplies
  <1> QED BY <1>1, <1>2, <1>3, PTL DEF Spec

-----------------------------------------------------------------------------
(* A revocation lasts.  That a device of the list has a pairing which stands *)
(* is not inductive: a key could be stored a second time for a connection    *)
(* whose pairing was undone.  Final excludes it (a connection that has been  *)
(* stored is not served any more), with what the history says of itself.     *)

TrustStands ==
    /\ \A c \in hostTrust : Standing(c) # {}
    /\ \A e \in log :
           /\ e = <<"host", "paired", e[3]>> => Agreed(e[3])
           /\ e = <<"host", "revoked", e[3]>> =>
                 <<"host", "paired", e[3]>> \in log

\* Nothing is added to the list, and no pairing or revocation to the history.
LEMMA StandsKept ==
    ASSUME TrustStands, log \subseteq log', hostTrust' \subseteq hostTrust,
           \A e \in log' \ log :
               /\ e # <<"host", "paired", e[3]>>
               /\ e # <<"host", "revoked", e[3]>>
    PROVE  TrustStands'
  <1>1. \A c : Standing(c) \subseteq Standing(c)'
    BY DEF Standing, Dev
  <1>2. \A c \in hostTrust' : Standing(c)' # {}
    BY <1>1 DEF TrustStands
  <1>3. ASSUME NEW e \in log'
        PROVE  /\ e = <<"host", "paired", e[3]>> => Agreed(e[3])'
               /\ e = <<"host", "revoked", e[3]>> =>
                     <<"host", "paired", e[3]>> \in log'
    <2>1. CASE e \in log
      BY <2>1 DEF TrustStands, Agreed
    <2>2. CASE e \notin log
      BY <2>2
    <2> QED BY <2>1, <2>2
  <1> QED BY <1>2, <1>3 DEF TrustStands

\* One entry that is neither.
LEMMA StandsGrown ==
    ASSUME TrustStands, log \subseteq log', hostTrust' \subseteq hostTrust,
           NEW who \in {"host", "client"}, NEW what, NEW id,
           who = "host" => what \notin {"paired", "revoked"},
           log' \subseteq log \cup {<<who, what, id>>}
    PROVE  TrustStands'
  <1>1. \A e \in log' \ log : e = <<who, what, id>>
    OBVIOUS
  <1>2. ASSUME NEW e \in log' \ log
        PROVE  /\ e # <<"host", "paired", e[3]>>
               /\ e # <<"host", "revoked", e[3]>>
    <2>1. e[1] = who /\ e[2] = what
      BY <1>1
    <2> QED BY <2>1
  <1> QED BY <1>2, StandsKept

\* The connection whose key is stored has not been stored before, so it was not
\* revoked either.
LEMMA HostStoresStands ==
    ASSUME IInv, Final, TrustStands, HostStores
    PROVE  TrustStands'
  <1> DEFINE new == <<"host", "paired", served>>
  <1>1. /\ log' = log \cup {new}
        /\ hostTrust' = hostTrust \cup {Dev(served)}
        /\ HostYes(served) /\ ClientYes(served)
        /\ served \in Conns
    BY DEF HostStores, IInv, Knows, HostKnows, TypeOK, HostTypeOK
  <1>2. new \notin log
    BY <1>1 DEF Final, HostFinal, Stored
  <1>3. <<"host", "revoked", served>> \notin log'
    <2> DEFINE r == <<"host", "revoked", served>>
    <2>1. r[3] = served /\ r # new
      OBVIOUS
    <2>2. r \notin log
      BY <1>2, <2>1 DEF TrustStands
    <2> QED BY <1>1, <2>1, <2>2
  <1>4. ASSUME NEW c, c = Dev(served)
        PROVE  new \in Standing(c)'
    <2>1. new[3] = served /\ new \in log'
      BY <1>1
    <2> QED BY <1>3, <1>4, <2>1 DEF Standing, Dev
  <1>5. \A c : Standing(c) \subseteq Standing(c)'
    <2> SUFFICES ASSUME NEW c, NEW e \in Standing(c)
                 PROVE  e \in Standing(c)'
      OBVIOUS
    <2>1. <<"host", "revoked", e[3]>> # new
      OBVIOUS
    <2> QED BY <1>1, <2>1 DEF Standing, Dev
  <1>6. \A c \in hostTrust' : Standing(c)' # {}
    BY <1>1, <1>4, <1>5 DEF TrustStands
  <1>7. ASSUME NEW e \in log'
        PROVE  /\ e = <<"host", "paired", e[3]>> => Agreed(e[3])'
               /\ e = <<"host", "revoked", e[3]>> =>
                     <<"host", "paired", e[3]>> \in log'
    <2>1. CASE e \in log
      BY <1>1, <2>1 DEF TrustStands, Agreed
    <2>2. CASE e = new
      <3>1. e[3] = served /\ e[2] = "paired"
        BY <2>2
      <3>2. Agreed(e[3])'
        BY <1>1, <3>1 DEF Agreed, HostYes, ClientYes
      <3> QED BY <3>1, <3>2
    <2> QED BY <1>1, <2>1, <2>2
  <1> QED BY <1>6, <1>7 DEF TrustStands

\* A revocation leaves the pairings of the other devices alone.
LEMMA RevokeStands ==
    ASSUME TrustStands, NEW d \in Clients, Revoke(d)
    PROVE  TrustStands'
  <1> DEFINE undone == {<<"host", "revoked", e[3]>> : e \in Standing(d)}
  <1>1. log' = log \cup undone /\ hostTrust' = hostTrust \ {d}
    BY DEF Revoke
  <1>2. ASSUME NEW r \in undone
        PROVE  /\ r = <<"host", "revoked", r[3]>>
               /\ Dev(r[3]) = d
               /\ <<"host", "paired", r[3]>> \in log
    <2>1. PICK e \in Standing(d) : r = <<"host", "revoked", e[3]>>
      OBVIOUS
    <2>2. r[3] = e[3]
      BY <2>1
    <2> QED BY <2>1, <2>2 DEF Standing
  <1>3. ASSUME NEW c \in hostTrust'
        PROVE  Standing(c)' # {}
    <2>1. PICK e \in Standing(c) : TRUE
      BY <1>1 DEF TrustStands
    <2>2. c # d /\ Dev(e[3]) = c
      BY <1>1, <2>1 DEF Standing
    <2>3. <<"host", "revoked", e[3]>> \notin undone
      <3> SUFFICES ASSUME <<"host", "revoked", e[3]>> \in undone
                   PROVE  FALSE
        OBVIOUS
      <3> DEFINE r == <<"host", "revoked", e[3]>>
      <3>1. r[3] = e[3]
        OBVIOUS
      <3>2. Dev(r[3]) = d
        BY <1>2
      <3> QED BY <2>2, <3>1, <3>2
    <2>4. e \in Standing(c)'
      BY <1>1, <2>1, <2>3 DEF Standing, Dev
    <2> QED BY <2>4
  <1>4. ASSUME NEW e \in log'
        PROVE  /\ e = <<"host", "paired", e[3]>> => Agreed(e[3])'
               /\ e = <<"host", "revoked", e[3]>> =>
                     <<"host", "paired", e[3]>> \in log'
    <2>1. CASE e \in log
      BY <1>1, <2>1 DEF TrustStands, Agreed
    <2>2. CASE e \in undone
      <3>1. e[2] = "revoked" /\ <<"host", "paired", e[3]>> \in log
        BY <1>2, <2>2
      <3> QED BY <1>1, <3>1
    <2> QED BY <1>1, <2>1, <2>2
  <1> QED BY <1>3, <1>4 DEF TrustStands

LEMMA HostNextStands ==
    ASSUME IInv, Final, TrustStands, HostNext
    PROVE  TrustStands'
  <1>1. CASE HostReadsNo \/ HostExpires \/ HostCancels
    <2>1. /\ log' \subseteq log \cup {<<"host", "rejected", served>>}
          /\ hostTrust' = hostTrust /\ log \subseteq log'
      BY <1>1 DEF HostReadsNo, HostExpires, HostCancels, HostRefuses
    <2> QED BY <2>1, StandsGrown
  <1>2. CASE HostStoreFails
    <2>1. /\ log' = log \cup {<<"host", "storeFailed", served>>}
          /\ hostTrust' = hostTrust
      BY <1>2 DEF HostStoreFails
    <2> QED BY <2>1, StandsGrown
  <1>3. CASE \E c \in Clients : Revoke(c)
    BY <1>3, RevokeStands
  <1>4. CASE UNCHANGED <<log, hostTrust>>
    BY <1>4, StandsKept
  <1> QED
    BY <1>1, <1>2, <1>3, <1>4, HostStoresStands
    DEF HostNext, HostStep, HostDecide, HandshakeFails, HostCommit, HostReveal,
        HostReadsYes, HostReadsVerdict, HostReadsRefusal, HostLingerEnds,
        CeremonyFails, HostAccept, HostSessionEnds, HostStops, HostDies, HostDown,
        HostFinish

LEMMA StandsStep == IInv /\ Final /\ TrustStands /\ [Next]_vars => TrustStands'
  <1> SUFFICES ASSUME IInv, Final, TrustStands, [Next]_vars
               PROVE  TrustStands'
    OBVIOUS
  <1>1. CASE UNCHANGED vars
    BY <1>1, StandsKept DEF vars, hostVars
  <1>2. CASE PanelNext
    <2>1. /\ log' \subseteq log \cup {<<"host", "yes", shown>>}
          /\ hostTrust' = hostTrust /\ log \subseteq log'
      BY <1>2, LogGrowsPanel
      DEF PanelNext, PanelStart, PanelStop, PanelFinish, PanelReads, PanelAnswer,
          hostVars
    <2> QED BY <2>1, StandsGrown
  <1>3. ASSUME NEW c \in Clients, ClientNext(c)
        PROVE  TrustStands'
    <2>1. PICK what : log' \subseteq log \cup {<<"client", what, Conn(c)>>}
      BY <1>3, ClientLogs
    <2>2. hostTrust' = hostTrust
      BY <1>3
      DEF ClientNext, Dial, ClientHello, ClientReply, ClientNonce, ClickAccept,
          ClickReject, ClientReadsYes, ClientReadsNo, ClientReadsVerdict,
          ClientGivesUp, ClientStores, ClientFails, ClientRestarts, Forget,
          ClientRefuses, hostVars
    <2> QED BY <1>3, <2>1, <2>2, LogGrowsClient, StandsGrown
  <1> QED BY <1>1, <1>2, <1>3, HostNextStands DEF Next

\* No session begins for a device unless a ceremony that both people accepted has
\* paired it since it was last revoked, whenever the revocations fall, for every
\* number of devices and connections.
THEOREM SessionsRestOnPairings == Spec => RevocationLasts
  <1> DEFINE Inv == IInv /\ Final /\ TrustStands
  <1>1. Init => Inv
    BY FinalInit, InitKnows DEF Init, TrustStands
  <1>2. Inv /\ [Next]_vars => Inv'
    BY FinalStep, StandsStep, StepKnows
  <1>3. ASSUME Inv, [Next]_vars, hostPhase # "session", hostPhase' = "session"
        PROVE  \E e \in Standing(Dev(served)) : Agreed(e[3])
    <2>1. Dev(served) \in hostTrust
      <3>1. CASE HostNext
        BY <1>3, <3>1
        DEF HostNext, HostStep, HostDecide, AdmitSession, RejectSession,
            ConfirmPaired, RefuseCeremony, BeginCeremony, HandshakeFails,
            HostCommit, HostReveal, HostReadsYes, HostReadsNo, HostReadsVerdict,
            HostReadsRefusal, HostExpires, HostCancels, HostLingerEnds,
            CeremonyFails, HostStores, HostStoreFails, HostAccept,
            HostSessionEnds, HostStops, HostDies, HostDown, HostClose,
            HostRefuses, HostFinish, BothAccepted, Revoke
      <3>2. CASE PanelNext
        BY <1>3, <3>2
        DEF PanelNext, PanelStart, PanelStop, PanelFinish, PanelReads,
            PanelAnswer, hostVars
      <3>3. ASSUME NEW c \in Clients, ClientNext(c)
            PROVE  FALSE
        BY <1>3, <3>3
        DEF ClientNext, Dial, ClientHello, ClientReply, ClientNonce, ClickAccept,
            ClickReject, ClientReadsYes, ClientReadsNo, ClientReadsVerdict,
            ClientGivesUp, ClientStores, ClientFails, ClientRestarts, Forget,
            ClientRefuses, hostVars
      <3>4. CASE UNCHANGED vars
        BY <1>3, <3>4 DEF vars, hostVars
      <3> QED BY <1>3, <3>1, <3>2, <3>3, <3>4 DEF Next
    <2>2. PICK e \in Standing(Dev(served)) : TRUE
      BY <1>3, <2>1 DEF TrustStands
    <2>3. e \in log /\ e = <<"host", "paired", e[3]>>
      BY <2>2 DEF Standing
    <2> QED BY <1>3, <2>2, <2>3 DEF TrustStands
  <1> QED BY <1>1, <1>2, <1>3, PTL DEF Spec, RevocationLasts

-----------------------------------------------------------------------------
(* The answers a client meets.  Until the codes are on screen the two ends *)
(* move in lock step: one message is on its way at most, and it is the one *)
(* that the other end waits for.                                           *)

\* An answer to the hello of client c that secure::connect understands.
Answers(c, m) ==
    \/ m = "accepted" /\ (stage[c] # "pair" \/ c \in known)
    \/ m \in {"notPaired", "tooMany", "unavailable"}
    \/ m = "required" /\ stage[c] = "pair"

\* The hello that client c has sent.
Said(c, h) ==
    \/ h = "session" /\ stage[c] # "pair"
    \/ h = "pairKnown" /\ stage[c] = "pair" /\ c \in known
    \/ h = "pairNew" /\ stage[c] = "pair"

\* What client c has not read yet, even of a host that is gone.
Unread(c) ==
    /\ phase[c] \in {"off", "dialed"} => toClient[c] = <<>>
    /\ phase[c] = "await" => \/ toClient[c] = <<>>
                             \/ \E m \in HostMessages : toClient[c] = <<m>> /\ Answers(c, m)
    /\ phase[c] = "nonce" => toClient[c] \in {<<>>, <<"nonce">>}
    /\ phase[c] = "confirm" => \A i \in 1 .. Len(toClient[c]) : toClient[c][i] \in {"yes", "no"}

\* Where the host is while it serves client c.
InStep(c) ==
    /\ phase[c] = "dialed" => hostPhase = "handshake" /\ toHost = <<>>
    /\ phase[c] = "await" =>
          \/ /\ hostPhase = "handshake" /\ toClient[c] = <<>>
             /\ \E h \in Hellos : toHost = <<h>> /\ Said(c, h)
          \/ hostPhase = "commit" /\ toHost = <<>> /\ toClient[c] = <<"required">>
          \/ hostPhase = "session" /\ toClient[c] = <<"accepted">>
    /\ phase[c] = "nonce" =>
          \/ hostPhase = "commit" /\ toHost = <<"commit">> /\ toClient[c] = <<>>
          \/ hostPhase = "reveal" /\ toHost = <<>> /\ toClient[c] = <<"nonce">>
    /\ phase[c] = "confirm" => hostPhase \in {"reveal", "confirm", "linger", "store"}

StepInv ==
    /\ hostPhase \in {"down", "listening"} => toHost = <<>>
    /\ served # NoConn => served[2] <= dials[Dev(served)]
    /\ \A c \in Clients : Unread(c) /\ (served = Conn(c) => InStep(c))

ClientTypes ==
    /\ phase \in [Clients -> ClientPhases] /\ stage \in [Clients -> {"first", "pair", "second"}]
    /\ dials \in [Clients -> Nat] /\ toClient \in [Clients -> Seq(HostMessages)]
    /\ clientRemote \in [Clients -> Verdicts]
    /\ toHost \in Seq(ClientMessages)

LEMMA TypesOfClients == TypeOK => ClientTypes
  BY DEF TypeOK, ClientTypeOK, HostTypeOK, ClientTypes

LEMMA OneFrame == \A m : Append(<<>>, m) = <<m>> /\ Head(<<m>>) = m /\ Tail(<<m>>) = <<>>
  OBVIOUS

\* The connection being served is the present one of one client, or of none.
LEMMA ServedIsOne ==
    ASSUME TypeOK, NEW c \in Clients, served = Conn(c)
    PROVE  /\ Dev(served) = c /\ served # NoConn
           /\ \A d \in Clients \ {c} : served # Conn(d)
  BY NoConnAssumption DEF TypeOK, ClientTypeOK, Conn, Dev

LEMMA SentByHost ==
    ASSUME TypeOK, NEW m \in HostMessages, HostSends(m)
    PROVE  \A c \in Clients :
              toClient'[c] = IF served = Conn(c) /\ phase[c] # "off"
                             THEN Append(toClient[c], m) ELSE toClient[c]
<1> TAKE c \in Clients
<1>1. toClient \in [Clients -> Seq(HostMessages)] /\ dials \in [Clients -> Nat]
    BY DEF TypeOK, ClientTypeOK
<1>2. served = NoConn \/ served \in Conns
    BY DEF TypeOK, HostTypeOK
<1>3. served # NoConn => Dev(served) \in Clients
    BY <1>2 DEF Conns, Dev
<1>4. CASE served = Conn(c)
    <2>1. Dev(served) = c /\ served # NoConn
        BY <1>4, ServedIsOne
    <2> QED  BY <1>1, <1>4, <2>1 DEF HostSends, Attached
<1>5. CASE served # Conn(c)
    <2>1. served # NoConn /\ Attached(Dev(served)) => Dev(served) # c
        BY <1>5 DEF Attached
    <2> QED  BY <1>1, <1>3, <1>5, <2>1 DEF HostSends
<1> QED  BY <1>4, <1>5

\* The steps of the host that close the connection, whether it answers or not.
LEMMA ClosingSteps ==
    ASSUME TypeOK, StepInv, served' = NoConn, toHost' = <<>>,
           UNCHANGED <<phase, stage, dials, known>>,
           \A c \in Clients : \/ toClient'[c] = toClient[c]
                              \/ /\ hostPhase = "handshake" /\ served = Conn(c) /\ toHost # <<>>
                                 /\ \E m \in HostMessages :
                                       /\ toClient'[c] = IF phase[c] = "off" THEN toClient[c]
                                                         ELSE Append(toClient[c], m)
                                       /\ \A h \in Hellos :
                                             toHost = <<h>> /\ Said(c, h) => Answers(c, m)
    PROVE  StepInv'
<1>1. ASSUME NEW c \in Clients PROVE Unread(c)'
    <2>1. CASE toClient'[c] = toClient[c]
        BY <2>1 DEF StepInv, Unread, Answers
    <2>2. ASSUME hostPhase = "handshake", served = Conn(c), toHost # <<>>, phase[c] # "off",
                 NEW m \in HostMessages, toClient'[c] = Append(toClient[c], m),
                 \A h \in Hellos : toHost = <<h>> /\ Said(c, h) => Answers(c, m)
          PROVE  Unread(c)'
        <3>0. InStep(c)
            BY <2>2 DEF StepInv
        <3>1. phase[c] \notin {"dialed", "nonce", "confirm"}
            BY <2>2, <3>0 DEF InStep
        <3>2. phase[c] = "await" => toClient[c] = <<>> /\ Answers(c, m)
            BY <2>2, <3>0 DEF InStep
        <3>3. phase[c] = "await" => toClient'[c] = <<m>>
            BY <2>2, <3>2, OneFrame
        <3> QED  BY <2>2, <3>1, <3>2, <3>3 DEF Unread, Answers
    <2> QED  BY <2>1, <2>2
<1>2. \A c \in Clients : served' # Conn(c)'
    BY NoConnAssumption DEF Conn, TypeOK, ClientTypeOK
<1> QED  BY <1>1, <1>2 DEF StepInv

\* Steps of the host that touch no client, nor what it reads from one.
LEMMA OtherSteps ==
    ASSUME TypeOK, StepInv,
           UNCHANGED <<served, toHost, phase, stage, dials, known, toClient>>,
           hostPhase' = hostPhase \/ served = NoConn
    PROVE  StepInv'
<1>1. \A c \in Clients : Unread(c)'
    BY DEF StepInv, Unread, Answers
<1>2. served = NoConn => toHost = <<>>
    BY DEF StepInv, TypeOK, HostTypeOK
<1>3. ASSUME NEW c \in Clients, served = Conn(c) PROVE InStep(c)'
    <2>1. hostPhase' = hostPhase
        BY <1>3, ServedIsOne
    <2> QED  BY <1>3, <2>1 DEF StepInv, InStep, Said
<1> QED  BY <1>1, <1>2, <1>3 DEF StepInv, Conn

\* The steps of the host that go on with the client it serves: what becomes of
\* that client is what has to be shown.
LEMMA ServingSteps ==
    ASSUME TypeOK, StepInv, UNCHANGED <<served, phase, stage, dials, known>>,
           hostPhase' \notin {"down", "listening"},
           \A c \in Clients : served # Conn(c) \/ phase[c] = "off" => toClient'[c] = toClient[c],
           \A c \in Clients : served = Conn(c) /\ phase[c] # "off" => Unread(c)' /\ InStep(c)'
    PROVE  StepInv'
<1>1. ASSUME NEW c \in Clients PROVE Unread(c)' /\ (served' = Conn(c)' => InStep(c)')
    <2>1. Conn(c)' = Conn(c)
        BY DEF Conn
    <2>2. CASE served = Conn(c) /\ phase[c] # "off"
        BY <2>2
    <2>3. CASE served # Conn(c) \/ phase[c] = "off"
        <3>1. toClient'[c] = toClient[c]
            BY <2>3
        <3>2. Unread(c)'
            BY <3>1 DEF StepInv, Unread, Answers
        <3>3. phase[c] = "off" => InStep(c)'
            BY DEF InStep
        <3> QED  BY <2>1, <2>3, <3>2, <3>3
    <2> QED  BY <2>2, <2>3
<1> QED  BY <1>1 DEF StepInv

LEMMA HostDecideStep ==
    ASSUME TypeOK, StepInv, HostDecide
    PROVE  StepInv'
<1>1. /\ hostPhase = "handshake" /\ toHost # <<>>
      /\ UNCHANGED <<phase, stage, dials, known>>
    BY DEF HostDecide
<1>2. ASSUME NEW c \in Clients, served = Conn(c), phase[c] # "off"
      PROVE  /\ InStep(c) /\ Unread(c)
             /\ phase[c] \notin {"dialed", "nonce", "confirm"}
             /\ phase[c] = "await" =>
                   /\ toClient[c] = <<>>
                   /\ \E h \in Hellos : toHost = <<h>> /\ Said(c, h)
    <2>1. InStep(c) /\ Unread(c)
        BY <1>2 DEF StepInv
    <2> QED  BY <1>1, <2>1 DEF InStep
<1>3. \A h \in Hellos : toHost = <<h>> => Head(toHost) = h /\ Tail(toHost) = <<>>
    OBVIOUS
<1>4. served # NoConn => Dev(served) \in Clients
    BY DEF TypeOK, HostTypeOK, Conns, Dev
<1>5. ASSUME NEW m \in HostMessages, HostSends(m), HostClose,
             \A c \in Clients, h \in Hellos : toHost = <<h>> /\ Said(c, h) => Answers(c, m)
      PROVE  StepInv'
    <2>1. \A c \in Clients :
             toClient'[c] = IF served = Conn(c) /\ phase[c] # "off"
                            THEN Append(toClient[c], m) ELSE toClient[c]
        BY <1>5, SentByHost
    <2>2. served' = NoConn /\ toHost' = <<>>
        BY <1>5 DEF HostClose
    <2> QED  BY <1>1, <1>5, <2>1, <2>2, ClosingSteps
<1>6. CASE AdmitSession
    <2>1. HostSends("accepted") /\ hostPhase' = "session" /\ served' = served
        BY <1>6 DEF AdmitSession
    <2>2. \A c \in Clients :
             toClient'[c] = IF served = Conn(c) /\ phase[c] # "off"
                            THEN Append(toClient[c], "accepted") ELSE toClient[c]
        BY <2>1, SentByHost DEF HostMessages
    <2>3. ASSUME NEW c \in Clients, served = Conn(c), phase[c] # "off"
          PROVE  Unread(c)' /\ InStep(c)'
        <3>1. phase[c] = "await" => Answers(c, "accepted")
            BY <1>2, <1>3, <1>6, <2>3 DEF AdmitSession, Said, Answers
        <3>2. phase[c] = "await" => toClient'[c] = <<"accepted">>
            BY <1>2, <2>2, <2>3, OneFrame
        <3> QED  BY <1>1, <1>2, <2>1, <2>3, <3>1, <3>2 DEF Unread, InStep, Answers, HostMessages
    <2> QED  BY <1>1, <2>1, <2>2, <2>3, ServingSteps
<1>7. CASE RejectSession
    BY <1>7, <1>5 DEF RejectSession, Answers, HostMessages
<1>8. CASE ConfirmPaired
    <2>1. \A c \in Clients, h \in Hellos : toHost = <<h>> /\ Said(c, h) => Answers(c, "accepted")
        BY <1>3, <1>8 DEF ConfirmPaired, Said, Answers
    <2> QED  BY <1>8, <1>5, <2>1 DEF ConfirmPaired, HostMessages
<1>9. CASE RefuseCeremony
    BY <1>9, <1>5 DEF RefuseCeremony, Answers, HostMessages
<1>10. CASE BeginCeremony
    <2>1. /\ HostSends("required") /\ hostPhase' = "commit" /\ served' = served
          /\ toHost' = Tail(toHost)
        BY <1>10 DEF BeginCeremony
    <2>2. \A c \in Clients :
             toClient'[c] = IF served = Conn(c) /\ phase[c] # "off"
                            THEN Append(toClient[c], "required") ELSE toClient[c]
        BY <2>1, SentByHost DEF HostMessages
    <2>3. ASSUME NEW c \in Clients, served = Conn(c), phase[c] # "off"
          PROVE  Unread(c)' /\ InStep(c)'
        <3>1. phase[c] = "await" => Answers(c, "required")
            BY <1>2, <1>3, <1>10, <2>3 DEF BeginCeremony, NeedsCeremony, Said, Answers
        <3>2. phase[c] = "await" => toClient'[c] = <<"required">> /\ toHost' = <<>>
            BY <1>2, <1>3, <2>1, <2>2, <2>3, OneFrame
        <3> QED  BY <1>1, <1>2, <2>1, <2>3, <3>1, <3>2 DEF Unread, InStep, Answers, HostMessages
    <2> QED  BY <1>1, <2>1, <2>2, <2>3, ServingSteps
<1> QED  BY <1>6, <1>7, <1>8, <1>9, <1>10 DEF HostDecide

\* Steps of the host that close the connection without an answer.
LEMMA ClosedQuietly ==
    ASSUME TypeOK, StepInv, served' = NoConn, toHost' = <<>>, UNCHANGED clientVars
    PROVE  StepInv'
<1>1. UNCHANGED <<phase, stage, dials, known, toClient>>
    BY DEF clientVars
<1> QED  BY <1>1, ClosingSteps

\* Once the codes are on screen the host only sends verdicts.
LEMMA VerdictSteps ==
    ASSUME TypeOK, StepInv, hostPhase = "confirm",
           hostPhase' \in {"confirm", "linger", "store"},
           UNCHANGED <<served, phase, stage, dials, known>>,
           \/ UNCHANGED toClient
           \/ \E m \in {"yes", "no"} : HostSends(m)
    PROVE  StepInv'
<1>1. \A c \in Clients : served # Conn(c) \/ phase[c] = "off" => toClient'[c] = toClient[c]
    BY SentByHost DEF HostMessages
<1>2. ASSUME NEW c \in Clients, served = Conn(c), phase[c] # "off"
      PROVE  Unread(c)' /\ InStep(c)'
    <2>1. InStep(c) /\ Unread(c) /\ toClient[c] \in Seq(HostMessages)
        BY <1>2, TypesOfClients DEF StepInv, ClientTypes
    <2>2. phase[c] \notin {"dialed", "await", "nonce"}
        BY <2>1 DEF InStep
    <2>3. InStep(c)'
        BY <2>2 DEF InStep
    <2>4. toClient'[c] = toClient[c] \/ \E m \in {"yes", "no"} : toClient'[c] = Append(toClient[c], m)
        BY <1>2, SentByHost DEF HostMessages
    <2>5. phase[c] = "confirm" =>
             \A i \in 1 .. Len(toClient'[c]) : toClient'[c][i] \in {"yes", "no"}
        BY <2>1, <2>4 DEF Unread
    <2>6. Unread(c)'
        BY <1>2, <2>2, <2>5 DEF Unread
    <2> QED  BY <2>3, <2>6
<1> QED  BY <1>1, <1>2, ServingSteps

LEMMA HostNextStep ==
    ASSUME TypeOK, StepInv, HostNext
    PROVE  StepInv'
<1>1. CASE HostDecide
    BY <1>1, HostDecideStep
<1>2. ASSUME HandshakeFails \/ HostLingerEnds \/ HostReadsRefusal \/ CeremonyFails \/ HostStores
             \/ HostStoreFails \/ HostSessionEnds \/ HostStops \/ HostDies
      PROVE  StepInv'
    <2>1. served' = NoConn /\ toHost' = <<>> /\ UNCHANGED clientVars
        BY <1>2
        DEF HandshakeFails, HostLingerEnds, HostReadsRefusal, CeremonyFails, HostStores,
            HostStoreFails, HostSessionEnds, HostStops, HostDies, HostFinish, HostClose, HostDown
    <2> QED  BY <2>1, ClosedQuietly
<1>3. CASE HostReadsYes \/ HostReadsNo \/ HostReadsVerdict \/ HostExpires \/ HostCancels
    <2>1. /\ hostPhase = "confirm" /\ hostPhase' \in {"confirm", "linger", "store"}
          /\ UNCHANGED <<served, phase, stage, dials, known>>
          /\ UNCHANGED toClient \/ HostSends("yes") \/ HostSends("no")
        BY <1>3
        DEF HostReadsYes, HostReadsNo, HostReadsVerdict, HostExpires, HostCancels, HostRefuses,
            BothAccepted, clientVars
    <2> QED  BY <2>1, VerdictSteps
<1>4. CASE HostCommit
    <2>1. /\ hostPhase = "commit" /\ hostPhase' = "reveal" /\ HostSends("nonce")
          /\ toHost # <<>> /\ Head(toHost) = "commit" /\ toHost' = Tail(toHost)
          /\ UNCHANGED <<served, phase, stage, dials, known>>
        BY <1>4 DEF HostCommit
    <2>2. \A c \in Clients :
             toClient'[c] = IF served = Conn(c) /\ phase[c] # "off"
                            THEN Append(toClient[c], "nonce") ELSE toClient[c]
        BY <2>1, SentByHost DEF HostMessages
    <2>3. ASSUME NEW c \in Clients, served = Conn(c), phase[c] # "off"
          PROVE  Unread(c)' /\ InStep(c)'
        <3>1. InStep(c) /\ Unread(c)
            BY <2>3 DEF StepInv
        <3>2. /\ phase[c] \notin {"dialed", "await", "confirm"}
              /\ phase[c] = "nonce" => toHost = <<"commit">> /\ toClient[c] = <<>>
            BY <2>1, <3>1 DEF InStep
        <3>3. phase[c] = "nonce" => toHost' = <<>> /\ toClient'[c] = <<"nonce">>
            BY <2>1, <2>2, <2>3, <3>2, OneFrame
        <3> QED  BY <2>1, <2>3, <3>2, <3>3 DEF Unread, InStep
    <2> QED  BY <2>1, <2>2, <2>3, ServingSteps
<1>5. CASE HostReveal
    <2>1. /\ hostPhase = "reveal" /\ hostPhase' = "confirm" /\ toHost # <<>>
          /\ UNCHANGED <<served, phase, stage, dials, known, toClient>>
        BY <1>5 DEF HostReveal, clientVars
    <2>2. ASSUME NEW c \in Clients, served = Conn(c), phase[c] # "off"
          PROVE  Unread(c)' /\ InStep(c)'
        <3>1. InStep(c) /\ Unread(c)
            BY <2>2 DEF StepInv
        <3>2. phase[c] \notin {"dialed", "await", "nonce"}
            BY <2>1, <3>1 DEF InStep
        <3> QED  BY <2>1, <2>2, <3>1, <3>2 DEF Unread, InStep
    <2> QED  BY <2>1, <2>2, ServingSteps
<1>6. ASSUME NEW c \in Clients, HostAccept(c)
      PROVE  StepInv'
    <2>1. /\ hostPhase = "listening" /\ phase[c] = "dialed"
          /\ hostPhase' = "handshake" /\ served' = Conn(c)
          /\ UNCHANGED <<toHost, phase, stage, dials, known, toClient>>
        BY <1>6 DEF HostAccept, clientVars
    <2>2. toHost = <<>>
        BY <2>1 DEF StepInv
    <2>3. served'[2] <= dials'[Dev(served')]
        BY <2>1 DEF Conn, Dev, TypeOK, ClientTypeOK
    <2>4. \A d \in Clients : Unread(d)'
        BY <2>1 DEF StepInv, Unread, Answers
    <2>5. \A d \in Clients : served' = Conn(d)' => d = c
        BY <2>1 DEF Conn
    <2>6. InStep(c)'
        BY <2>1, <2>2 DEF InStep
    <2> QED  BY <2>1, <2>3, <2>4, <2>5, <2>6 DEF StepInv
<1>7. ASSUME NEW c \in Clients, Revoke(c)
      PROVE  StepInv'
    BY <1>7, OtherSteps DEF Revoke, clientVars
<1> QED
    BY <1>1, <1>2, <1>3, <1>4, <1>5, <1>6, <1>7 DEF HostNext, HostStep

LEMMA PanelNextStep ==
    ASSUME TypeOK, StepInv, PanelNext
    PROVE  StepInv'
<1>1. UNCHANGED <<served, toHost, phase, stage, dials, known, toClient>>
    BY DEF PanelNext, PanelStart, PanelStop, PanelFinish, PanelReads, PanelAnswer, hostVars, clientVars
<1>2. hostPhase' = hostPhase \/ hostPhase = "down"
    BY DEF PanelNext, PanelStart, PanelStop, PanelFinish, PanelReads, PanelAnswer, hostVars
<1>3. hostPhase = "down" => served = NoConn
    BY DEF TypeOK, HostTypeOK
<1> QED  BY <1>1, <1>2, <1>3, OtherSteps

\* A step of client c leaves the others alone.
LEMMA ClientSteps ==
    ASSUME TypeOK, StepInv, NEW c \in Clients,
           UNCHANGED <<hostPhase, served>>,
           \A d \in Clients \ {c} : /\ phase'[d] = phase[d] /\ stage'[d] = stage[d]
                                    /\ dials'[d] = dials[d] /\ toClient'[d] = toClient[d]
                                    /\ (d \in known') = (d \in known),
           dials'[c] \in {dials[c], dials[c] + 1},
           \/ toHost' = toHost
           \/ served = Conn(c),
           Unread(c)', served = Conn(c)' => InStep(c)'
    PROVE  StepInv'
<1>0. dials[c] \in Nat
    BY DEF TypeOK, ClientTypeOK
<1>1. ASSUME NEW d \in Clients \ {c}
      PROVE  Unread(d)' /\ (served' = Conn(d)' => InStep(d)')
    <2>1. Unread(d)'
        BY <1>1 DEF StepInv, Unread, Answers
    <2>2. Conn(d)' = Conn(d)
        BY <1>1 DEF Conn
    <2>3. ASSUME served = Conn(d) PROVE InStep(d)'
        <3>1. toHost' = toHost
            BY <1>1, <2>3, ServedIsOne
        <3>2. InStep(d)
            BY <2>3 DEF StepInv
        <3> QED  BY <1>1, <3>1, <3>2 DEF InStep, Said
    <2> QED  BY <2>1, <2>2, <2>3
<1>2. hostPhase \in {"down", "listening"} => toHost' = <<>>
    <2>1. hostPhase \in {"down", "listening"} => served = NoConn
        BY DEF TypeOK, HostTypeOK
    <2>2. served = Conn(c) => served # NoConn
        BY ServedIsOne
    <2> QED  BY <2>1, <2>2 DEF StepInv
<1>3. served # NoConn => served[2] <= dials'[Dev(served)]
    <2>1. served # NoConn => Dev(served) \in Clients /\ served[2] \in Nat
        BY DEF TypeOK, HostTypeOK, Conns, Dev
    <2>2. served # NoConn => served[2] <= dials[Dev(served)]
        BY DEF StepInv
    <2>3. \A d \in Clients : dials[d] \in Nat /\ dials'[d] \in {dials[d], dials[d] + 1}
        BY DEF TypeOK, ClientTypeOK
    <2> QED  BY <2>1, <2>2, <2>3
<1> QED  BY <1>1, <1>2, <1>3 DEF StepInv

LEMMA LeavesStep ==
    ASSUME TypeOK, StepInv, NEW c \in Clients, NEW s, ClientLeaves(c, s),
           UNCHANGED <<hostPhase, served, toHost>>
    PROVE  StepInv'
<1>1. /\ phase' = [phase EXCEPT ![c] = "off"] /\ stage' = [stage EXCEPT ![c] = s]
      /\ toClient' = [toClient EXCEPT ![c] = <<>>] /\ known' = known \ {c} /\ dials' = dials
    BY DEF ClientLeaves
<1>2. ClientTypes
    BY TypesOfClients
<1>3. /\ phase'[c] = "off" /\ toClient'[c] = <<>>
      /\ \A d \in Clients \ {c} : /\ phase'[d] = phase[d] /\ stage'[d] = stage[d]
                                  /\ dials'[d] = dials[d] /\ toClient'[d] = toClient[d]
                                  /\ (d \in known') = (d \in known)
    BY <1>1, <1>2 DEF ClientTypes
<1>4. Unread(c)' /\ InStep(c)'
    BY <1>3 DEF Unread, InStep
<1>5. dials'[c] = dials[c]
    BY <1>1
<1> QED  BY <1>3, <1>4, <1>5, ClientSteps

\* Client c writes to the host that serves it.
LEMMA SentByClient ==
    ASSUME TypeOK, NEW c \in Clients, NEW m, ClientSends(c, m)
    PROVE  toHost' = IF served = Conn(c) /\ hostPhase # "linger" THEN Append(toHost, m) ELSE toHost
  BY DEF ClientSends

\* A step of client c that changes at most its own phase, queue and stage.
OnlyClient(c) ==
    \A d \in Clients \ {c} : /\ phase'[d] = phase[d] /\ stage'[d] = stage[d]
                             /\ dials'[d] = dials[d] /\ toClient'[d] = toClient[d]
                             /\ (d \in known') = (d \in known)

LEMMA DialStep ==
    ASSUME TypeOK, StepInv, NEW c \in Clients, Dial(c)
    PROVE  StepInv'
<1>1. /\ phase[c] = "off" /\ phase' = [phase EXCEPT ![c] = "dialed"]
      /\ dials' = [dials EXCEPT ![c] = @ + 1]
      /\ UNCHANGED <<hostPhase, served, toHost, stage, known, toClient>>
    BY DEF Dial, hostVars
<1>2. ClientTypes
    BY TypesOfClients
<1>3. phase'[c] = "dialed" /\ dials'[c] = dials[c] + 1 /\ dials[c] \in Nat
    BY <1>1, <1>2 DEF ClientTypes
<1>4. OnlyClient(c)
    BY <1>1, <1>2 DEF ClientTypes, OnlyClient
<1>5. Unread(c)'
    BY <1>1, <1>3 DEF StepInv, Unread
<1>6. served' # Conn(c)'
    <2>1. served = NoConn \/ served \in Conns
        BY DEF TypeOK, HostTypeOK
    <2>2. Conn(c)' = <<c, dials[c] + 1>>
        BY <1>3 DEF Conn
    <2>3. CASE served = NoConn
        BY <1>1, <1>3, <2>2, <2>3, NoConnAssumption
    <2>4. CASE served # NoConn
        <3>1. served[2] <= dials[served[1]]
            BY <2>4 DEF StepInv, Dev
        <3> QED  BY <1>1, <1>3, <2>2, <3>1
    <2> QED  BY <2>3, <2>4
<1> QED  BY <1>1, <1>3, <1>4, <1>5, <1>6, ClientSteps DEF OnlyClient

LEMMA ClientHelloStep ==
    ASSUME TypeOK, StepInv, NEW c \in Clients, ClientHello(c)
    PROVE  StepInv'
<1>1. /\ phase[c] = "dialed" /\ served = Conn(c) /\ UNCHANGED <<hostPhase, served>>
    BY DEF ClientHello
<1>2. CASE stage[c] # "pair" /\ c \notin clientTrust
    <2>1. ClientLeaves(c, AfterNotPaired(c)) /\ UNCHANGED toHost
        BY <1>2 DEF ClientHello
    <2> QED  BY <1>1, <2>1, LeavesStep
<1>3. CASE ~(stage[c] # "pair" /\ c \notin clientTrust)
    <2>0. PICK h \in Hellos : /\ ClientSends(c, h)
                              /\ h = IF stage[c] # "pair" THEN "session"
                                     ELSE IF c \in clientTrust THEN "pairKnown" ELSE "pairNew"
        BY <1>3 DEF ClientHello, Hellos
    <2>1. /\ known' = IF c \in clientTrust THEN known \cup {c} ELSE known \ {c}
          /\ phase' = [phase EXCEPT ![c] = "await"]
          /\ UNCHANGED <<stage, dials, toClient>>
        BY <1>3 DEF ClientHello
    <2>2. InStep(c) /\ Unread(c) /\ ClientTypes
        BY <1>1, TypesOfClients DEF StepInv
    <2>3. hostPhase = "handshake" /\ toHost = <<>> /\ toClient[c] = <<>>
        BY <1>1, <2>2 DEF InStep, Unread
    <2>4. phase'[c] = "await" /\ toClient'[c] = <<>> /\ stage'[c] = stage[c] /\ dials'[c] = dials[c]
        BY <2>1, <2>2, <2>3 DEF ClientTypes
    <2>5. Said(c, h)'
        BY <1>3, <2>0, <2>1, <2>4 DEF Said
    <2>6. toHost' = <<h>>
        <3>1. toHost' = Append(toHost, h)
            BY <1>1, <2>0, <2>3 DEF ClientSends
        <3> QED  BY <2>3, <3>1, OneFrame
    <2>7. OnlyClient(c)
        BY <2>1, <2>2 DEF ClientTypes, OnlyClient
    <2>8. Unread(c)'
        BY <2>4 DEF Unread
    <2>9. InStep(c)'
        BY <1>1, <2>3, <2>4, <2>5, <2>6 DEF InStep
    <2> QED  BY <1>1, <2>4, <2>7, <2>8, <2>9, ClientSteps DEF OnlyClient
<1> QED  BY <1>2, <1>3

\* Client c has an answer to read, and whatever it is, it is one it expects.
LEMMA ReplyIsExpected ==
    ASSUME TypeOK, StepInv, NEW c \in Clients, phase[c] = "await", toClient[c] # <<>>
    PROVE  \E m \in HostMessages : toClient[c] = <<m>> /\ Answers(c, m)
  BY DEF StepInv, Unread

LEMMA NoUnexpectedReply ==
    ASSUME TypeOK, StepInv, NEW c \in Clients, phase[c] = "await", toClient[c] # <<>>
    PROVE  ~UnexpectedReply(c)
<1>1. PICK m \in HostMessages : toClient[c] = <<m>> /\ Answers(c, m)
    BY ReplyIsExpected
<1>2. Head(toClient[c]) = m
    BY <1>1, OneFrame
<1> QED  BY <1>1, <1>2 DEF UnexpectedReply, Answers

LEMMA ClientReplyStep ==
    ASSUME TypeOK, StepInv, NEW c \in Clients, ClientReply(c)
    PROVE  StepInv'
<1>1. /\ phase[c] = "await" /\ toClient[c] # <<>> /\ UNCHANGED <<hostPhase, served>>
    BY DEF ClientReply
<1>2. PICK m \in HostMessages : toClient[c] = <<m>> /\ Answers(c, m)
    BY <1>1, ReplyIsExpected
<1>3. Head(toClient[c]) = m /\ Tail(toClient[c]) = <<>> /\ ClientTypes
    BY <1>2, OneFrame, TypesOfClients
<1>4. served = Conn(c) => InStep(c)
    BY DEF StepInv
<1>5. CASE SessionAccepted(c)
    <2>1. /\ phase' = [phase EXCEPT ![c] = "session"] /\ stage' = [stage EXCEPT ![c] = "second"]
          /\ toClient' = [toClient EXCEPT ![c] = Tail(@)]
          /\ UNCHANGED <<toHost, dials, known>>
        BY <1>5 DEF SessionAccepted
    <2>2. phase'[c] = "session" /\ dials'[c] = dials[c] /\ OnlyClient(c)
        BY <1>3, <2>1 DEF ClientTypes, OnlyClient
    <2>3. Unread(c)' /\ InStep(c)'
        BY <2>2 DEF Unread, InStep
    <2> QED  BY <1>1, <2>1, <2>2, <2>3, ClientSteps DEF OnlyClient
<1>6. CASE AlreadyPaired(c)
    BY <1>1, <1>6, LeavesStep DEF AlreadyPaired
<1>7. CASE Rejected(c)
    BY <1>1, <1>7, LeavesStep DEF Rejected
<1>8. CASE CeremonyStarts(c)
    <2>1. /\ Head(toClient[c]) = "required" /\ ClientSends(c, "commit")
          /\ phase' = [phase EXCEPT ![c] = "nonce"]
          /\ toClient' = [toClient EXCEPT ![c] = Tail(@)]
          /\ UNCHANGED <<stage, dials, known>>
        BY <1>8 DEF CeremonyStarts
    <2>2. /\ phase'[c] = "nonce" /\ toClient'[c] = <<>> /\ dials'[c] = dials[c] /\ OnlyClient(c)
        BY <1>3, <2>1 DEF ClientTypes, OnlyClient
    <2>3. Unread(c)'
        BY <2>2 DEF Unread
    <2>4. served = Conn(c) => hostPhase \in {"commit", "session"} /\ (hostPhase = "commit" => toHost = <<>>)
        BY <1>1, <1>4 DEF InStep
    <2>5. served = Conn(c) => hostPhase = "commit"
        <3>1. toClient[c] # <<"accepted">>
            BY <1>3, <2>1, OneFrame
        <3> QED  BY <1>1, <1>4, <3>1 DEF InStep
    <2>6. served = Conn(c) => toHost' = <<"commit">>
        <3>1. served = Conn(c) => toHost' = Append(<<>>, "commit")
            BY <2>1, <2>4, <2>5 DEF ClientSends
        <3> QED  BY <3>1, OneFrame
    <2>7. served = Conn(c) => InStep(c)'
        BY <1>1, <2>2, <2>5, <2>6 DEF InStep
    <2>8. Conn(c)' = Conn(c) /\ (toHost' = toHost \/ served = Conn(c))
        BY <2>1 DEF Conn, ClientSends
    <2> QED  BY <1>1, <2>2, <2>3, <2>7, <2>8, ClientSteps DEF OnlyClient
<1>9. ~UnexpectedReply(c)
    BY <1>1, NoUnexpectedReply
<1> QED  BY <1>5, <1>6, <1>7, <1>8, <1>9 DEF ClientReply

\* The host is about to be told the client's value: it waits for it.
LEMMA NonceIsExpected ==
    ASSUME TypeOK, StepInv, NEW c \in Clients, phase[c] = "nonce", toClient[c] # <<>>
    PROVE  /\ Head(toClient[c]) = "nonce" /\ Tail(toClient[c]) = <<>>
           /\ served = Conn(c) => hostPhase = "reveal" /\ toHost = <<>>
<1>1. toClient[c] = <<"nonce">>
    BY DEF StepInv, Unread
<1>2. served = Conn(c) => InStep(c)
    BY DEF StepInv
<1> QED  BY <1>1, <1>2, OneFrame DEF InStep

LEMMA ClientNonceStep ==
    ASSUME TypeOK, StepInv, NEW c \in Clients, ClientNonce(c)
    PROVE  StepInv'
<1>1. /\ phase[c] = "nonce" /\ toClient[c] # <<>> /\ UNCHANGED <<hostPhase, served>>
    BY DEF ClientNonce
<1>2. /\ Head(toClient[c]) = "nonce" /\ Tail(toClient[c]) = <<>>
      /\ served = Conn(c) => hostPhase = "reveal" /\ toHost = <<>>
    BY <1>1, NonceIsExpected
<1>3. /\ ClientSends(c, "reveal") /\ phase' = [phase EXCEPT ![c] = "confirm"]
      /\ toClient' = [toClient EXCEPT ![c] = Tail(@)] /\ UNCHANGED <<stage, dials, known>>
    BY <1>2 DEF ClientNonce
<1>4. ClientTypes
    BY TypesOfClients
<1>5. phase'[c] = "confirm" /\ toClient'[c] = <<>> /\ dials'[c] = dials[c] /\ OnlyClient(c)
    BY <1>2, <1>3, <1>4 DEF ClientTypes, OnlyClient
<1>6. Unread(c)'
    BY <1>5 DEF Unread
<1>7. served = Conn(c) => InStep(c)'
    BY <1>1, <1>2, <1>5 DEF InStep
<1>8. Conn(c)' = Conn(c) /\ (toHost' = toHost \/ served = Conn(c))
    BY <1>3 DEF Conn, ClientSends
<1> QED  BY <1>1, <1>5, <1>6, <1>7, <1>8, ClientSteps DEF OnlyClient

\* Once its code is on screen a client reads verdicts only.
LEMMA VerdictIsExpected ==
    ASSUME TypeOK, StepInv, NEW c \in Clients, phase[c] = "confirm", toClient[c] # <<>>
    PROVE  /\ Head(toClient[c]) \in {"yes", "no"}
           /\ \A i \in 1 .. Len(Tail(toClient[c])) : Tail(toClient[c])[i] \in {"yes", "no"}
<1>1. /\ toClient[c] \in Seq(HostMessages)
      /\ \A i \in 1 .. Len(toClient[c]) : toClient[c][i] \in {"yes", "no"}
    BY TypesOfClients DEF StepInv, Unread, ClientTypes
<1>2. Len(toClient[c]) >= 1 /\ Head(toClient[c]) = toClient[c][1]
    BY <1>1
<1>3. Head(toClient[c]) \in {"yes", "no"}
    BY <1>1, <1>2
<1>4. /\ Len(Tail(toClient[c])) = Len(toClient[c]) - 1 /\ Len(toClient[c]) \in Nat
      /\ \A i \in 1 .. Len(toClient[c]) - 1 : Tail(toClient[c])[i] = toClient[c][i + 1]
    BY <1>1, <1>2
<1>5. \A i \in 1 .. Len(toClient[c]) - 1 : i + 1 \in 1 .. Len(toClient[c])
    BY <1>4
<1> QED  BY <1>1, <1>3, <1>4, <1>5

\* The client's steps once its code is on screen, short of leaving.
LEMMA ConfirmSteps ==
    ASSUME TypeOK, StepInv, NEW c \in Clients, phase[c] = "confirm",
           NEW p \in {"confirm", "linger", "store"}, phase' = [phase EXCEPT ![c] = p],
           UNCHANGED <<hostPhase, served, stage, dials, known>>,
           \/ UNCHANGED toHost
           \/ \E m \in {"yes", "no"} : ClientSends(c, m),
           \/ UNCHANGED toClient
           \/ toClient[c] # <<>> /\ toClient' = [toClient EXCEPT ![c] = Tail(@)]
    PROVE  StepInv'
<1>1. ClientTypes
    BY TypesOfClients
<1>2. phase'[c] = p /\ dials'[c] = dials[c] /\ OnlyClient(c)
    BY <1>1 DEF ClientTypes, OnlyClient
<1>3. \A i \in 1 .. Len(toClient'[c]) : toClient'[c][i] \in {"yes", "no"}
    <2>1. CASE UNCHANGED toClient
        BY <2>1 DEF StepInv, Unread
    <2>2. CASE toClient[c] # <<>> /\ toClient' = [toClient EXCEPT ![c] = Tail(@)]
        <3>1. toClient'[c] = Tail(toClient[c])
            BY <1>1, <2>2 DEF ClientTypes
        <3> QED  BY <2>2, <3>1, VerdictIsExpected
    <2> QED  BY <2>1, <2>2
<1>4. Unread(c)'
    BY <1>2, <1>3 DEF Unread
<1>5. served = Conn(c) => InStep(c)'
    <2>1. served = Conn(c) => hostPhase \in {"reveal", "confirm", "linger", "store"}
        BY DEF StepInv, InStep
    <2> QED  BY <1>2, <2>1 DEF InStep
<1>6. Conn(c)' = Conn(c) /\ (toHost' = toHost \/ served = Conn(c))
    BY DEF Conn, ClientSends
<1> QED  BY <1>2, <1>4, <1>5, <1>6, ClientSteps DEF OnlyClient

\* A step that leaves the connections alone.
LEMMA QuietSteps ==
    ASSUME TypeOK, StepInv,
           UNCHANGED <<hostPhase, served, toHost, phase, stage, dials, known, toClient>>
    PROVE  StepInv'
  BY OtherSteps

LEMMA ClientReadsVerdictStep ==
    ASSUME TypeOK, StepInv, NEW c \in Clients, ClientReadsVerdict(c)
    PROVE  StepInv'
<1>1. /\ phase[c] = "confirm" /\ toClient[c] # <<>> /\ UNCHANGED <<hostPhase, served>>
    BY DEF ClientReadsVerdict
<1>2. Head(toClient[c]) \in {"yes", "no"}
    BY <1>1, VerdictIsExpected
<1>3. CASE Head(toClient[c]) = "no"
    <2>1. \E s \in {"first"} : ClientLeaves(c, s) /\ UNCHANGED toHost
        BY <1>3 DEF ClientReadsVerdict
    <2> QED  BY <1>1, <2>1, LeavesStep
<1>4. CASE Head(toClient[c]) = "yes"
    <2>1. /\ toClient' = [toClient EXCEPT ![c] = Tail(@)]
          /\ UNCHANGED <<toHost, stage, dials, known>>
          /\ phase' = [phase EXCEPT ![c] = "store"] \/ UNCHANGED phase
        BY <1>4 DEF ClientReadsVerdict
    <2>2. UNCHANGED phase => phase' = [phase EXCEPT ![c] = "confirm"]
        BY <1>1, TypesOfClients DEF ClientTypes
    <2> QED  BY <1>1, <2>1, <2>2, ConfirmSteps
<1> QED  BY <1>2, <1>3, <1>4

LEMMA ClientNextStep ==
    ASSUME TypeOK, StepInv, NEW c \in Clients, ClientNext(c)
    PROVE  StepInv'
<1>1. CASE Dial(c) \/ ClientHello(c) \/ ClientReply(c) \/ ClientNonce(c) \/ ClientReadsVerdict(c)
    BY <1>1, DialStep, ClientHelloStep, ClientReplyStep, ClientNonceStep, ClientReadsVerdictStep
<1>2. CASE ClickAccept(c) \/ ClickReject(c) \/ Forget(c)
    BY <1>2, QuietSteps DEF ClickAccept, ClickReject, Forget, hostVars
<1>3. CASE ClientReadsYes(c) \/ ClientReadsNo(c) \/ ClientGivesUp(c)
    <2>1. /\ phase[c] = "confirm" /\ UNCHANGED <<hostPhase, served, stage, dials, known, toClient>>
          /\ ClientSends(c, "yes") \/ ClientSends(c, "no")
          /\ \/ phase' = [phase EXCEPT ![c] = "store"] \/ phase' = [phase EXCEPT ![c] = "linger"]
             \/ UNCHANGED phase
        BY <1>3 DEF ClientReadsYes, ClientReadsNo, ClientGivesUp, ClientRefuses
    <2>2. UNCHANGED phase => phase' = [phase EXCEPT ![c] = "confirm"]
        BY <2>1, TypesOfClients DEF ClientTypes
    <2> QED  BY <2>1, <2>2, ConfirmSteps
<1>4. CASE ClientStores(c) \/ ClientFails(c) \/ ClientRestarts(c)
    <2>1. /\ UNCHANGED <<hostPhase, served, toHost>>
          /\ \E s \in {"first", "second"} : ClientLeaves(c, s)
        BY <1>4 DEF ClientStores, ClientFails, ClientRestarts, hostVars
    <2> QED  BY <2>1, LeavesStep
<1> QED  BY <1>1, <1>2, <1>3, <1>4 DEF ClientNext

LEMMA StepsInLockStep ==
    ASSUME TypeOK, StepInv, [Next]_vars
    PROVE  StepInv'
<1>1. CASE HostNext
    BY <1>1, HostNextStep
<1>2. CASE PanelNext
    BY <1>2, PanelNextStep
<1>3. ASSUME NEW c \in Clients, ClientNext(c)
      PROVE  StepInv'
    BY <1>3, ClientNextStep
<1>4. CASE UNCHANGED vars
    BY <1>4, QuietSteps DEF vars, hostVars, clientVars
<1> QED  BY <1>1, <1>2, <1>3, <1>4 DEF Next

\* Nobody writes "protocolError" in the log but a client that meets an answer it
\* does not expect, and in lock step there is none.
LEMMA NobodyErrs ==
    ASSUME TypeOK, StepInv, NoProtocolError, [Next]_vars
    PROVE  NoProtocolError'
<1>1. CASE HostNext
    BY <1>1
    DEF HostNext, HostStep, NoProtocolError, HostDecide, HandshakeFails, HostCommit, HostReveal,
        HostReadsYes, HostReadsNo, HostReadsVerdict, HostReadsRefusal, HostExpires, HostCancels,
        HostRefuses, HostLingerEnds, CeremonyFails, HostStores, HostStoreFails, HostAccept,
        HostSessionEnds, HostStops, HostDies, HostDown, HostFinish, Revoke
<1>2. CASE PanelNext
    BY <1>2
    DEF PanelNext, NoProtocolError, PanelStart, PanelStop, PanelFinish, PanelReads, PanelAnswer
<1>3. ASSUME NEW c \in Clients, ClientReply(c)
      PROVE  UNCHANGED log
    <2>1. ~UnexpectedReply(c)
        BY <1>3, NoUnexpectedReply DEF ClientReply
    <2> QED
        BY <1>3, <2>1 DEF ClientReply, SessionAccepted, AlreadyPaired, CeremonyStarts, Rejected
<1>4. ASSUME NEW c \in Clients, ClientNonce(c)
      PROVE  UNCHANGED log
    <2>1. Head(toClient[c]) = "nonce"
        BY <1>4, NonceIsExpected DEF ClientNonce
    <2> QED  BY <1>4, <2>1 DEF ClientNonce
<1>5. ASSUME NEW c \in Clients, ClientReadsVerdict(c)
      PROVE  UNCHANGED log
    <2>1. Head(toClient[c]) \in {"yes", "no"}
        BY <1>5, VerdictIsExpected DEF ClientReadsVerdict
    <2> QED  BY <1>5, <2>1 DEF ClientReadsVerdict
<1>6. ASSUME NEW c \in Clients, ClientNext(c),
             ~(ClientReply(c) \/ ClientNonce(c) \/ ClientReadsVerdict(c))
      PROVE  NoProtocolError'
    BY <1>6
    DEF ClientNext, NoProtocolError, Dial, ClientHello, ClickAccept, ClickReject, ClientReadsYes,
        ClientReadsNo, ClientGivesUp, ClientRefuses, ClientStores, ClientFails, ClientRestarts,
        Forget
<1>7. CASE UNCHANGED log
    BY <1>7 DEF NoProtocolError
<1>8. UNCHANGED vars => UNCHANGED log
    BY DEF vars
<1> QED  BY <1>1, <1>2, <1>3, <1>4, <1>5, <1>6, <1>7, <1>8 DEF Next

LEMMA StepsBegin ==
    ASSUME Init
    PROVE  StepInv /\ NoProtocolError
<1>1. \A c \in Clients : phase[c] = "off" /\ toClient[c] = <<>>
    BY DEF Init
<1>2. \A c \in Clients : Unread(c) /\ InStep(c)
    BY <1>1 DEF Unread, InStep
<1> QED  BY <1>2 DEF Init, StepInv, NoProtocolError

\* Whatever either list held and however it was edited meanwhile, whatever was
\* lost, refused or restarted, no client of any set of them meets an answer that
\* connect or pair_as_client treats as an error of the protocol.
THEOREM AnswersAreExpected == Spec => []NoProtocolError
<1>1. Init => StepInv /\ NoProtocolError
    BY StepsBegin
<1>2. TypeOK /\ StepInv /\ NoProtocolError /\ [Next]_vars => (StepInv /\ NoProtocolError)'
    BY StepsInLockStep, NobodyErrs
<1>3. Spec => []TypeOK
    BY TypeCorrect
<1> QED  BY <1>1, <1>2, <1>3, PTL DEF Spec
=============================================================================
