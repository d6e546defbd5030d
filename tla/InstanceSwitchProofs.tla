------------------------ MODULE InstanceSwitchProofs ------------------------
(***************************************************************************)
(* What holds of InstanceSwitch for every set of zones, fingerprints and   *)
(* launches and every bound: its types, and that no socket goes out        *)
(* through another network than the one it was made for.                   *)
(***************************************************************************)
EXTENDS InstanceSwitch, TLAPS

-----------------------------------------------------------------------------
(* Types. *)

LEMMA Records ==
    /\ Down \in ZoneState
    /\ NoLink \in LinkState /\ ~NoLink.on
    /\ Idle \in OpState
    /\ Silence.word = "none" /\ Silence.to = Offline
BY DEF Down, ZoneState, NoLink, LinkState, Idle, OpState, Silence, Said, Networks

LEMMA InitType == Init => TypeOK
<1> SUFFICES ASSUME Init PROVE TypeOK
  OBVIOUS
<1>1. zone \in [Zones -> ZoneState]
  BY Records DEF Init, ZoneState
<1>a. /\ watch \in BOOLEAN /\ event \in BOOLEAN
      /\ whole \in BOOLEAN /\ outside \in BOOLEAN
      /\ bell \in BOOLEAN /\ mark \in BOOLEAN
  BY DEF Init
<1>b. /\ now \in Nat /\ file \in Nat /\ dirs \subseteq Nat
      /\ pc = "poll" /\ op \in OpState
      /\ answer \in [word : {"none", "refused", "failed", "done"}, to : Networks]
  BY Records DEF Init, Silence, Said, Networks
<1>c. /\ lpc \in [Launches -> {"none", "asking", "held", "forked", "placed",
                               "registered", "running", "done"}]
      /\ asked \in [Launches -> Networks]
      /\ lep \in [Launches -> Nat] /\ place \in [Launches -> Nat]
      /\ sharers = {} /\ socks = {}
      /\ starts \in Nat /\ asks \in Nat /\ faults \in Nat
  BY DEF Init, Networks
<1>2. CASE network = Offline
  <2>1. network \in Networks /\ network \notin Zones
    BY <1>2, SwitchAssumption DEF Networks
  <2>2. link = NoLink /\ why = "offline" /\ fp = NoFp /\ zonePid = 0
    BY <1>2, <2>1 DEF Init
  <2> QED
    BY <1>1, <1>a, <1>b, <1>c, <2>1, <2>2, Records DEF TypeOK
<1>3. CASE network # Offline
  <2>1. network \in Zones
    BY <1>3 DEF Init
  <2>2. zone[network].fp \in Fingerprints \cup {NoFp}
    BY <1>1, <2>1 DEF ZoneState
  <2>3. /\ link = [on |-> TRUE, relay |-> TRUE, net |-> network, pid |-> 1,
                   fp |-> zone[network].fp, wall |-> 0]
        /\ why = "none" /\ fp = zone[network].fp /\ zonePid = 1
    BY <1>3 DEF Init
  <2>4. link \in LinkState /\ link.net \in Zones
    BY <2>1, <2>2, <2>3 DEF LinkState, Networks
  <2> QED
    BY <1>1, <1>a, <1>b, <1>c, <2>1, <2>2, <2>3, <2>4 DEF TypeOK, Networks
<1> QED
  BY <1>2, <1>3

LEMMA GiveUpType ==
  ASSUME TypeOK, NEW phase, GiveUp(phase)
  PROVE  /\ why' \in {"none", "offline", "zone-changed", "cut"}
         /\ watch' \in BOOLEAN /\ event' \in BOOLEAN
         /\ answer' \in [word : {"none", "refused", "failed", "done"}, to : Networks]
         /\ pc' \in {"poll", "look"}
         /\ op' = Idle
<1>1. why' \in {"none", "offline", "zone-changed", "cut"}
  BY DEF GiveUp
<1>2. watch' \in BOOLEAN /\ event' \in BOOLEAN
  BY DEF TypeOK, GiveUp, Watched
<1>3. answer' \in [word : {"none", "refused", "failed", "done"}, to : Networks]
  BY DEF TypeOK, GiveUp, OpState, Said
<1>4. pc' \in {"poll", "look"} /\ op' = Idle
  BY DEF GiveUp, Return
<1> QED
  BY <1>1, <1>2, <1>3, <1>4

LEMMA ZoneStepType ==
  ASSUME TypeOK, NEW z \in Zones, ZoneStep(z) PROVE TypeOK'
<1>1. ASSUME BindBridge(z) PROVE TypeOK'
  BY <1>1 DEF TypeOK, BindBridge, Appears, lvars, evars, kvars, ZoneState
<1>2. ASSUME TouchReady(z) PROVE TypeOK'
  BY <1>2 DEF TypeOK, TouchReady, Appears, lvars, evars, kvars, ZoneState
<1>3. ASSUME ZoneDies(z) PROVE TypeOK'
  BY <1>3, Records DEF TypeOK, ZoneDies, lvars, tvars, evars, kvars
<1> QED
  BY <1>1, <1>2, <1>3 DEF ZoneStep

LEMMA RelayEndsType == ASSUME TypeOK, RelayEnds PROVE TypeOK'
<1>1. link' \in LinkState /\ link'.on = link.on /\ link'.net = link.net
  BY DEF TypeOK, RelayEnds, LinkState
<1> QED
  BY <1>1 DEF TypeOK, RelayEnds, Fault, zvars, lvars, evars, kvars

LEMMA HearType == ASSUME TypeOK, Hear PROVE TypeOK'
<1>1. ASSUME CutDetected PROVE TypeOK'
  <2>1. watch' \in BOOLEAN /\ event' \in BOOLEAN
    BY <1>1 DEF TypeOK, CutDetected, Watched
  <2> QED
    BY <1>1, <2>1, Records DEF TypeOK, CutDetected, zvars, lvars, evars
<1>2. ASSUME ZoneEvent PROVE TypeOK'
  BY <1>2 DEF TypeOK, ZoneEvent, zvars, lvars, evars
<1>3. ASSUME Doorbell PROVE TypeOK'
  <2>1. op' \in OpState
    BY <1>3, Records DEF TypeOK, Doorbell, OpState
  <2>2. /\ pc' \in {"lock", "attach", "look"}
        /\ bell' \in BOOLEAN /\ mark' \in BOOLEAN
        /\ UNCHANGED <<zvars, lvars, tvars, evars, answer, socks, asks, faults>>
    BY <1>3 DEF Doorbell
  <2> QED
    BY <2>1, <2>2 DEF TypeOK, zvars, lvars, tvars, evars
<1> QED
  BY <1>1, <1>2, <1>3 DEF Hear

LEMMA PersonType == ASSUME TypeOK, Person PROVE TypeOK'
<1>1. ASSUME NEW to \in Networks, AskSwitch(to) PROVE TypeOK'
  <2>1. outside' \in BOOLEAN
    BY <1>1 DEF AskSwitch, OutsideNow
  <2>2. op' \in OpState
    BY <1>1, Records DEF TypeOK, AskSwitch, OpState
  <2>3. answer' \in [word : {"none", "refused", "failed", "done"}, to : Networks]
    BY <1>1 DEF TypeOK, AskSwitch, Said
  <2>4. pc' \in {"lock", "look"} /\ asks' = asks + 1
    BY <1>1 DEF AskSwitch
  <2> QED
    BY <1>1, <2>1, <2>2, <2>3, <2>4 DEF TypeOK, AskSwitch, zvars, lvars, tvars
<1>2. ASSUME AskReattach PROVE TypeOK'
  BY <1>2 DEF TypeOK, AskReattach, zvars, lvars, tvars, evars, kvars
<1> QED
  BY <1>1, <1>2 DEF Person

LEMMA CallType == ASSUME TypeOK, CallInv, Call PROVE TypeOK'
<1>1. ASSUME ZoneBack PROVE TypeOK'
  <2>1. [Idle EXCEPT !.kind = "back", !.to = network, !.expect = Remembered]
           \in OpState
    BY DEF TypeOK, Idle, Remembered, OpState
  <2>2. /\ op' \in OpState /\ pc' \in {"poll", "lock", "attach"}
        /\ UNCHANGED <<zvars, lvars, tvars, evars, answer, bell, mark, socks,
                       asks, faults>>
    BY <1>1, <2>1 DEF TypeOK, ZoneBack
  <2> QED
    BY <2>2 DEF TypeOK, zvars, lvars, tvars, evars
<1>2. ASSUME Look PROVE TypeOK'
  <2>1. outside' \in BOOLEAN /\ answer' = Silence /\ pc' = "poll"
    BY <1>2 DEF Look, OutsideNow
  <2> QED
    BY <1>2, <2>1 DEF TypeOK, Look, zvars, lvars, tvars, Silence, Said, Networks
<1>3. ASSUME TryLock PROVE TypeOK'
  <2>1. ASSUME LockTaken PROVE TypeOK'
    <3>1. op' \in OpState /\ pc' \in {"cut", "make"}
      BY <2>1 DEF TypeOK, LockTaken, OpState
    <3> QED
      BY <1>3, <2>1, <3>1 DEF TypeOK, TryLock, LockTaken, zvars, lvars, evars
  <2>2. ASSUME LockBusy PROVE TypeOK'
    <3>1. watch' \in BOOLEAN /\ event' \in BOOLEAN
      BY <2>2 DEF TypeOK, LockBusy, Watched
    <3>2. answer' \in [word : {"none", "refused", "failed", "done"}, to : Networks]
      BY <2>2 DEF TypeOK, LockBusy, OpState, Said
    <3>3. why' \in {why, "cut"} /\ op' = Idle /\ pc' \in {"poll", "look"}
      BY <2>2 DEF LockBusy, Return
    <3> QED
      BY <1>3, <3>1, <3>2, <3>3, Records DEF TypeOK, TryLock, zvars, lvars, evars
  <2> QED
    BY <1>3, <2>1, <2>2 DEF TryLock
<1>4. ASSUME Cut PROVE TypeOK'
  <2>1. op.to \in Networks
    BY DEF TypeOK, OpState
  <2> QED
    BY <1>4, <2>1, Records DEF TypeOK, Cut, Unwatched, zvars, lvars, evars
<1>5. ASSUME MakeEpoch PROVE TypeOK'
  <2>1. ASSUME MakeFails PROVE TypeOK'
    <3>1. dirs' \in SUBSET Nat /\ faults' \in Nat
      <4>1. CASE UNCHANGED <<dirs, faults>>
        BY <4>1 DEF TypeOK
      <4>2. CASE Fault /\ dirs' \in {dirs, dirs \cup {now + 1}}
        BY <4>2 DEF TypeOK, Fault
      <4> QED
        BY <2>1, <4>1, <4>2 DEF MakeFails
    <3>2. GiveUp("epoch")
      BY <2>1 DEF MakeFails
    <3> QED
      BY <1>5, <3>1, <3>2, GiveUpType, Records
         DEF TypeOK, MakeEpoch, zvars, lvars
  <2>2. ASSUME ~MakeFails PROVE TypeOK'
    <3>1. dirs' \subseteq Nat
      <4>1. dirs' = dirs \cup {now + 1}
        BY <1>5, <2>2 DEF MakeEpoch
      <4> QED
        BY <4>1 DEF TypeOK
    <3>2. pc' = "move" /\ whole' \in BOOLEAN
      BY <1>5, <2>2 DEF MakeEpoch
    <3>3. /\ UNCHANGED <<why, watch, event, op, answer, faults>>
          /\ UNCHANGED <<zvars, lvars, network, link, fp, zonePid, now, file,
                         outside, bell, mark, socks, asks>>
      BY <1>5, <2>2 DEF MakeEpoch
    <3> QED
      BY <3>1, <3>2, <3>3 DEF TypeOK, zvars, lvars
  <2> QED
    BY <2>1, <2>2
<1>6. ASSUME NEW l \in Launches, MoveOne(l) PROVE TypeOK'
  <2>1. place' \in [Launches -> Nat]
    BY <1>6 DEF TypeOK, MoveOne
  <2>2. socks' \subseteq [launch : Launches, birth : Nat, net : Networks]
    BY <1>6 DEF TypeOK, MoveOne, Sock
  <2> QED
    BY <1>6, <2>1, <2>2 DEF TypeOK, MoveOne, zvars, tvars, evars, kvars
<1>7. ASSUME MoveFails PROVE TypeOK'
  <2>1. GiveUp("epoch") /\ faults' \in Nat
    BY <1>7 DEF MoveFails, Fault, TypeOK
  <2> QED
    BY <1>7, <2>1, GiveUpType, Records DEF TypeOK, MoveFails, zvars, lvars, evars
<1>8. ASSUME Moved PROVE TypeOK'
  <2>1. dirs' \subseteq Nat
    BY <1>8 DEF TypeOK, Moved
  <2>2. file' \in Nat /\ faults' \in Nat
    BY <1>8 DEF TypeOK, Moved, Fault
  <2> QED
    BY <1>8, <2>1, <2>2 DEF TypeOK, Moved, zvars, lvars, tvars
<1>9. ASSUME Seal PROVE TypeOK'
  <2>1. ASSUME SealFails PROVE TypeOK'
    <3>1. GiveUp("seal") /\ faults' \in Nat /\ whole' = whole
      BY <2>1 DEF SealFails, Fault, TypeOK
    <3> QED
      BY <1>9, <3>1, GiveUpType, Records DEF TypeOK, Seal, zvars, lvars
  <2>2. ASSUME Sealed PROVE TypeOK'
    <3>1. answer' \in [word : {"none", "refused", "failed", "done"}, to : Networks]
      BY <2>2 DEF TypeOK, Sealed, OpState, Said
    <3>2. op' \in {op, Idle} /\ pc' \in {"poll", "look", "attach"}
      BY <2>2 DEF Sealed, Return
    <3> QED
      BY <1>9, <2>2, <3>1, <3>2, Records DEF TypeOK, Seal, Sealed, zvars, lvars
  <2> QED
    BY <1>9, <2>1, <2>2 DEF Seal
<1>10. ASSUME Attach PROVE TypeOK'
  <2>1. network \in Zones
    BY <1>10 DEF CallInv, Attach, TypeOK, Networks
  <2>2. zone[network].pid \in Nat
    BY <2>1 DEF TypeOK, ZoneState
  <2>3. CASE whole /\ Up(network)
    <3>1. [op EXCEPT !.pid = zone[network].pid] \in OpState
      BY <2>2 DEF TypeOK, OpState
    <3> QED
      BY <1>10, <2>3, <3>1 DEF TypeOK, Attach, zvars, lvars, evars
  <2>4. CASE ~(whole /\ Up(network))
    <3>1. GiveUp("attach")
      BY <1>10, <2>4 DEF Attach
    <3> QED
      BY <1>10, <3>1, GiveUpType, Records DEF TypeOK, Attach, zvars, lvars, evars
  <2> QED
    BY <2>3, <2>4
<1>11. ASSUME Bridge PROVE TypeOK'
  <2>1. network \in Zones
    BY <1>11 DEF CallInv, Bridge, TypeOK, Networks
  <2>2. zone[network].pid \in Nat /\ zone[network].fp \in Fingerprints \cup {NoFp}
    BY <2>1 DEF TypeOK, ZoneState
  <2>3. ASSUME BridgeFails PROVE TypeOK'
    <3>1. GiveUp("attach") /\ faults' \in Nat /\ UNCHANGED <<link, fp, zonePid>>
      BY <2>3 DEF BridgeFails, Fault, TypeOK
    <3> QED
      BY <1>11, <3>1, GiveUpType, Records DEF TypeOK, Bridge, zvars, lvars, evars
  <2>4. ASSUME BridgeChanged PROVE TypeOK'
    <3>1. /\ why' = "zone-changed" /\ watch' = FALSE /\ event' = FALSE
          /\ op' = Idle /\ pc' \in {"poll", "look"}
          /\ UNCHANGED <<link, fp, zonePid, answer, faults>>
      BY <2>4 DEF BridgeChanged, Unwatched, Return
    <3> QED
      BY <1>11, <3>1, Records DEF TypeOK, Bridge, zvars, lvars, evars
  <2>5. ASSUME BridgeAttached PROVE TypeOK'
    <3>1. Wall(now) \in Nat
      BY DEF TypeOK, Wall
    <3>2. link' \in LinkState /\ link'.net \in Zones
      BY <2>1, <2>2, <2>5, <3>1 DEF BridgeAttached, LinkState, Networks
    <3>3. answer' \in [word : {"none", "refused", "failed", "done"}, to : Networks]
      BY <2>5 DEF TypeOK, BridgeAttached, OpState, Said
    <3>4. zonePid' \in Nat
      BY <2>5 DEF TypeOK, BridgeAttached, OpState
    <3>5. /\ why' = "none" /\ watch' = FALSE /\ event' = FALSE
          /\ fp' = zone[network].fp /\ faults' = faults
          /\ op' = Idle /\ pc' \in {"poll", "look"}
      BY <2>5 DEF BridgeAttached, Unwatched, Return
    <3>6. UNCHANGED <<zvars, lvars, network, evars, bell, mark, socks, asks>>
      BY <1>11 DEF Bridge
    <3> QED
      BY <2>2, <3>2, <3>3, <3>4, <3>5, <3>6, Records DEF TypeOK, zvars, lvars, evars
  <2> QED
    BY <1>11, <2>3, <2>4, <2>5 DEF Bridge
<1> QED
  BY <1>1, <1>2, <1>3, <1>4, <1>5, <1>6, <1>7, <1>8, <1>9, <1>10, <1>11 DEF Call

LEMMA LaunchType ==
  ASSUME TypeOK, NEW l \in Launches, Launch(l) PROVE TypeOK'
<1> DEFINE Where == {"none", "asking", "held", "forked", "placed", "registered",
                     "running", "done"}
<1>0. ASSUME Forget(l)
      PROVE  asked' \in [Launches -> Networks] /\ lep' \in [Launches -> Nat]
  BY <1>0 DEF TypeOK, Forget, Networks
<1>1. ASSUME AskLaunch(l) PROVE TypeOK'
  BY <1>1 DEF TypeOK, AskLaunch, LaunchUnchanged, zvars, tvars, kvars
<1>2. ASSUME Enter(l) PROVE TypeOK'
  BY <1>2 DEF TypeOK, Enter, LaunchUnchanged, zvars, tvars, kvars
<1>3. ASSUME WrongNetwork(l) PROVE TypeOK'
  BY <1>0, <1>3 DEF TypeOK, WrongNetwork, LaunchUnchanged, zvars, tvars, kvars
<1>4. ASSUME Fork(l) PROVE TypeOK'
  BY <1>4 DEF TypeOK, Fork, LaunchUnchanged, zvars, tvars, kvars
<1>5. ASSUME PlaceChild(l) PROVE TypeOK'
  <2>1. /\ place' \in [Launches -> Nat] /\ dirs' \subseteq Nat
        /\ lpc' \in [Launches -> Where]
    BY <1>5 DEF TypeOK, PlaceChild
  <2>2. LaunchUnchanged /\ UNCHANGED <<asked, lep, sharers, bell, socks>>
    BY <1>5 DEF PlaceChild
  <2> QED
    BY <2>1, <2>2 DEF TypeOK, LaunchUnchanged, zvars, tvars, kvars
<1>6. ASSUME PlaceStrict(l) PROVE TypeOK'
  <2>1. place' \in [Launches -> Nat] /\ lpc' \in [Launches -> Where]
    BY <1>6 DEF TypeOK, PlaceStrict
  <2>2. asked' \in [Launches -> Networks] /\ lep' \in [Launches -> Nat]
    BY <1>0, <1>6 DEF TypeOK, PlaceStrict
  <2> QED
    BY <1>6, <2>1, <2>2
       DEF TypeOK, PlaceStrict, LaunchUnchanged, zvars, tvars, kvars
<1>7. ASSUME Register(l) PROVE TypeOK'
  BY <1>7 DEF TypeOK, Register, LaunchUnchanged, zvars, tvars, kvars
<1>8. ASSUME Exec(l) PROVE TypeOK'
  <2>1. socks' \subseteq [launch : Launches, birth : Nat, net : Networks]
    BY <1>8 DEF TypeOK, Exec, Sock
  <2> QED
    BY <1>0, <1>8, <2>1 DEF TypeOK, Exec, LaunchUnchanged, zvars, tvars, kvars
<1>9. ASSUME Denied(l) PROVE TypeOK'
  BY <1>0, <1>9 DEF TypeOK, Denied, LaunchUnchanged, zvars, tvars, kvars
<1>10. ASSUME Release(l) PROVE TypeOK'
  BY <1>10 DEF TypeOK, Release, LaunchUnchanged, zvars, tvars, kvars
<1>11. ASSUME WaiterDies(l) PROVE TypeOK'
  <2>1. asked' \in [Launches -> Networks] /\ lep' \in [Launches -> Nat]
    BY <1>0, <1>11 DEF TypeOK, WaiterDies
  <2>2. lpc' \in [Launches -> Where] /\ faults' \in Nat
    BY <1>11 DEF TypeOK, WaiterDies, Fault
  <2> QED
    BY <1>11, <2>1, <2>2 DEF TypeOK, WaiterDies, zvars, tvars, evars, kvars
<1>12. ASSUME ProgramEnds(l) PROVE TypeOK'
  <2>1. bell' \in BOOLEAN
    BY <1>12 DEF ProgramEnds
  <2> QED
    BY <1>12, <2>1 DEF TypeOK, ProgramEnds, LaunchUnchanged, zvars, tvars, kvars
<1>13. ASSUME EntryFails(l) PROVE TypeOK'
  <2>1. lpc' \in [Launches -> Where] /\ faults' \in Nat
    BY <1>13 DEF TypeOK, EntryFails, Fault
  <2>2. bell' \in BOOLEAN
    BY <1>13 DEF TypeOK, EntryFails
  <2> QED
    BY <1>0, <1>13, <2>1, <2>2 DEF TypeOK, EntryFails, zvars, tvars, evars, kvars
<1> QED
  BY <1>1, <1>2, <1>3, <1>4, <1>5, <1>6, <1>7, <1>8, <1>9, <1>10, <1>11, <1>12,
     <1>13 DEF Launch, Waiter, GateTimesOut

LEMMA NextType == TypeOK /\ CallInv /\ [Next]_vars => TypeOK'
<1> SUFFICES ASSUME TypeOK, CallInv, [Next]_vars PROVE TypeOK'
  OBVIOUS
<1>1. CASE UNCHANGED vars
  BY <1>1 DEF TypeOK, vars, zvars, lvars, tvars, evars, kvars
<1>2. CASE Next
  BY <1>2, ZoneStepType, RelayEndsType, HearType, CallType, PersonType, LaunchType
     DEF Next
<1> QED
  BY <1>1, <1>2

-----------------------------------------------------------------------------
(* A call's steps. *)

\* What a zone, the relay or a launch does is not of the keeper's own state,
\* but for the relay of the link it has.
LEMMA Others ==
  ASSUME TypeOK,
         \/ \E z \in Zones : ZoneStep(z)
         \/ RelayEnds
         \/ \E l \in Launches : Launch(l)
  PROVE  /\ UNCHANGED <<pc, op, network, now, file, whole>>
         /\ link'.on = link.on /\ link'.net = link.net /\ link'.wall = link.wall
<1>1. ASSUME NEW z \in Zones, ZoneStep(z)
      PROVE  UNCHANGED <<pc, op, network, now, file, whole, link>>
  BY <1>1 DEF ZoneStep, BindBridge, TouchReady, ZoneDies, tvars, evars, kvars
<1>2. ASSUME RelayEnds
      PROVE  /\ UNCHANGED <<pc, op, network, now, file, whole>>
             /\ link'.on = link.on /\ link'.net = link.net
             /\ link'.wall = link.wall
  BY <1>2 DEF RelayEnds, TypeOK, LinkState, evars, kvars
<1>3. ASSUME NEW l \in Launches, Launch(l)
      PROVE  UNCHANGED <<pc, op, network, now, file, whole, link>>
  BY <1>3 DEF Launch, Waiter, GateTimesOut, EntryFails, AskLaunch, Enter,
     WrongNetwork, Fork, PlaceChild, PlaceStrict, Register, Exec, Denied, Release, WaiterDies, ProgramEnds,
     LaunchUnchanged, tvars, evars, kvars
<1> QED
  BY <1>1, <1>2, <1>3

\* A call that has returned promises nothing.
LEMMA Returned == ASSUME pc' \in {"poll", "look", "back"} PROVE CallInv'
BY DEF CallInv

LEMMA CallNext ==
  ASSUME TypeOK, CallInv, LinkInv, Next PROVE CallInv' /\ LinkInv'
<1>1. CASE \/ \E z \in Zones : ZoneStep(z)
           \/ RelayEnds
           \/ \E l \in Launches : Launch(l)
  BY <1>1, Others DEF CallInv, LinkInv, Wall
<1>2. CASE Hear
  <2>1. CASE CutDetected
    BY <2>1, Returned, Records DEF CutDetected, LinkInv
  <2>2. CASE ZoneEvent
    BY <2>2, Returned DEF ZoneEvent, LinkInv, evars, Wall
  <2>3. CASE Doorbell
    BY <2>3 DEF Doorbell, CallInv, LinkInv, Idle, tvars, evars, Wall
  <2> QED
    BY <1>2, <2>1, <2>2, <2>3 DEF Hear
<1>3. CASE Person
  <2>1. CASE AskReattach
    BY <2>1 DEF AskReattach, CallInv, LinkInv, tvars, evars, kvars, Wall
  <2>2. ASSUME NEW to \in Networks, AskSwitch(to) PROVE CallInv' /\ LinkInv'
    <3>1. LinkInv'
      BY <2>2 DEF AskSwitch, LinkInv, tvars, Wall
    <3>2. \/ pc' = "look"
          \/ op'.kind = "switch" /\ pc' = "lock"
      BY <2>2 DEF AskSwitch, Idle
    <3> QED
      BY <3>1, <3>2, Returned DEF CallInv
  <2> QED
    BY <1>3, <2>1, <2>2 DEF Person
<1>4. CASE Call
  <2>1. CASE ZoneBack
    BY <2>1, Returned DEF ZoneBack, MayBeBack, CallInv, LinkInv, Idle, tvars,
       evars, Wall
  <2>2. CASE Look
    BY <2>2, Returned DEF Look, LinkInv, tvars, Wall
  <2>3. CASE TryLock
    <3>1. /\ link' = link /\ network' = network /\ whole' = whole /\ now' = now
      BY <2>3 DEF TryLock, evars
    <3>2. CASE LockTaken
      <4>1. /\ op'.kind = op.kind /\ op'.to = op.to /\ op'.locked
            /\ pc' = IF op.kind = "switch" THEN "cut" ELSE "make"
        BY <3>2 DEF LockTaken, TypeOK, OpState
      <4> QED
        BY <2>3, <3>1, <4>1 DEF TryLock, CallInv, LinkInv, Wall
    <3>3. CASE LockBusy
      BY <3>1, <3>3, Returned DEF LockBusy, Return, LinkInv, Wall
    <3> QED
      BY <2>3, <3>2, <3>3 DEF TryLock
  <2>4. CASE Cut
    BY <2>4, Records DEF Cut, CallInv, LinkInv
  <2>5. CASE MakeEpoch
    <3>1. link' = link /\ network' = network /\ whole' = FALSE /\ ~link.on
      BY <2>5 DEF MakeEpoch, CallInv
    <3>2. CASE MakeFails
      BY <3>1, <3>2, Returned, GiveUpType DEF MakeFails, LinkInv
    <3>3. CASE ~MakeFails
      <4>1. pc' = "move" /\ op' = op
        BY <2>5, <3>3 DEF MakeEpoch
      <4> QED
        BY <2>5, <3>1, <4>1 DEF MakeEpoch, CallInv, LinkInv
    <3> QED
      BY <3>2, <3>3
  <2>6. CASE \E l \in Launches : MoveOne(l)
    BY <2>6 DEF MoveOne, CallInv, LinkInv, tvars, evars, kvars
  <2>7. CASE MoveFails
    <3>1. link' = link /\ ~link.on /\ GiveUp("epoch")
      BY <2>7 DEF MoveFails, CallInv
    <3> QED
      BY <3>1, Returned, GiveUpType DEF LinkInv
  <2>8. CASE Moved
    BY <2>8 DEF Moved, CallInv, LinkInv, tvars
  <2>9. CASE Seal
    <3>1. link' = link /\ ~link.on /\ network' = network
      BY <2>9 DEF Seal, CallInv
    <3>2. CASE SealFails
      BY <3>1, <3>2, Returned, GiveUpType DEF SealFails, LinkInv
    <3>3. CASE Sealed
      <4>1. CASE op.kind = "switch" /\ op.to = Offline
        BY <3>1, <3>3, <4>1, Returned DEF Sealed, Return, LinkInv
      <4>2. CASE ~(op.kind = "switch" /\ op.to = Offline)
        BY <2>9, <3>1, <3>3, <4>2 DEF Seal, Sealed, CallInv, LinkInv
      <4> QED
        BY <4>1, <4>2
    <3> QED
      BY <2>9, <3>2, <3>3 DEF Seal
  <2>10. CASE Attach
    <3>1. link' = link /\ ~link.on /\ network' = network /\ whole' = whole
      BY <2>10 DEF Attach, CallInv, evars
    <3>2. CASE whole /\ Up(network)
      <4>1. op'.kind = op.kind /\ op'.to = op.to /\ pc' = "bridge"
        BY <2>10, <3>2 DEF Attach, TypeOK, OpState
      <4> QED
        BY <2>10, <3>1, <3>2, <4>1 DEF Attach, CallInv, LinkInv
    <3>3. CASE ~(whole /\ Up(network))
      <4>1. GiveUp("attach")
        BY <2>10, <3>3 DEF Attach
      <4> QED
        BY <3>1, <4>1, Returned, GiveUpType DEF LinkInv
    <3> QED
      BY <3>2, <3>3
  <2>11. CASE Bridge
    <3>1. /\ network' = network /\ whole' = whole /\ now' = now
          /\ ~link.on /\ whole
      BY <2>11 DEF Bridge, CallInv, evars
    <3>2. CASE BridgeFails
      BY <3>1, <3>2, Returned, GiveUpType DEF BridgeFails, LinkInv
    <3>3. CASE BridgeChanged
      BY <3>1, <3>3, Returned DEF BridgeChanged, Return, LinkInv
    <3>4. CASE BridgeAttached
      <4>1. CallInv'
        BY <3>4, Returned DEF BridgeAttached, Return
      <4>2. link'.net = network /\ link'.wall = Wall(now)
        BY <3>4 DEF BridgeAttached
      <4> QED
        BY <3>1, <4>1, <4>2 DEF LinkInv, Wall
    <3> QED
      BY <2>11, <3>2, <3>3, <3>4 DEF Bridge
  <2> QED
    BY <1>4, <2>1, <2>2, <2>3, <2>4, <2>5, <2>6, <2>7, <2>8, <2>9, <2>10, <2>11
       DEF Call
<1> QED
  BY <1>1, <1>2, <1>3, <1>4 DEF Next

-----------------------------------------------------------------------------
(* The lock. *)

LEMMA LockNext ==
  ASSUME TypeOK, LockInv, Next PROVE LockInv'
<1>1. CASE (\E z \in Zones : ZoneStep(z)) \/ RelayEnds
  <2>1. UNCHANGED <<op, lpc, sharers>>
    BY <1>1 DEF ZoneStep, BindBridge, TouchReady, ZoneDies, RelayEnds, lvars, kvars
  <2> QED
    BY <2>1 DEF LockInv
<1>2. ASSUME UNCHANGED <<lpc, sharers>>, ~op'.locked \/ op'.locked = op.locked
      PROVE  LockInv'
  BY <1>2 DEF LockInv
<1>3. CASE Hear
  <2>1. UNCHANGED <<lpc, sharers>> /\ (op' = op \/ ~op'.locked)
    BY <1>3 DEF Hear, CutDetected, ZoneEvent, Doorbell, lvars, Idle
  <2> QED
    BY <2>1, <1>2
<1>4. CASE Person
  <2>1. UNCHANGED <<lpc, sharers>> /\ (op' = op \/ ~op'.locked)
    BY <1>4 DEF Person, AskReattach, AskSwitch, lvars, kvars, Idle
  <2> QED
    BY <2>1, <1>2
<1>5. CASE Call
  <2>1. CASE TryLock
    <3>1. UNCHANGED <<lpc, sharers>>
      BY <2>1 DEF TryLock, lvars
    <3>2. CASE LockTaken
      BY <3>1, <3>2 DEF LockTaken, LockInv
    <3>3. CASE LockBusy
      BY <3>1, <3>3, <1>2 DEF LockBusy, Return, Idle
    <3> QED
      BY <2>1, <3>2, <3>3 DEF TryLock
  <2>2. CASE ~TryLock
    <3>1. UNCHANGED <<lpc, sharers>>
      BY <1>5, <2>2 DEF Call, ZoneBack, Look, Cut, MakeEpoch, MoveOne, MoveFails,
         Moved, Seal, Attach, Bridge, lvars
    <3>2. \/ op' = op
          \/ op' = [op EXCEPT !.pid = zone[network].pid]
          \/ ~op'.locked
      <4>1. ASSUME ZoneBack PROVE op' = op \/ ~op'.locked
        BY <4>1 DEF ZoneBack, Idle
      <4>2. ASSUME Look \/ Cut \/ (\E l \in Launches : MoveOne(l)) \/ Moved
            PROVE  op' = op
        BY <4>2 DEF Look, Cut, MoveOne, Moved, kvars
      <4>3. ASSUME MakeEpoch \/ MoveFails \/ Seal PROVE op' = op \/ op' = Idle
        BY <4>3, GiveUpType DEF MakeEpoch, MakeFails, MoveFails, Seal, SealFails,
           Sealed, Return
      <4>4. ASSUME Attach
            PROVE  op' = [op EXCEPT !.pid = zone[network].pid] \/ op' = Idle
        BY <4>4, GiveUpType DEF Attach
      <4>5. ASSUME Bridge PROVE op' = Idle
        BY <4>5, GiveUpType DEF Bridge, BridgeFails, BridgeChanged, BridgeAttached,
           Return
      <4>6. ~Idle.locked
        BY DEF Idle
      <4> QED
        BY <1>5, <2>2, <4>1, <4>2, <4>3, <4>4, <4>5, <4>6 DEF Call
    <3> QED
      BY <3>1, <3>2, <1>2 DEF TypeOK, OpState
  <2> QED
    BY <2>1, <2>2
<1>6. ASSUME NEW l \in Launches, Launch(l) PROVE LockInv'
  <2>1. op' = op
    BY <1>6, Others
  <2>2. CASE AskLaunch(l)
    BY <2>1, <2>2 DEF AskLaunch, LockInv, TypeOK
  <2>3. CASE Enter(l)
    BY <2>1, <2>3 DEF Enter, LockInv, TypeOK, Exclusive
  <2>4. CASE WrongNetwork(l) \/ EntryFails(l) \/ Release(l)
    BY <2>1, <2>4 DEF WrongNetwork, EntryFails, Release, LockInv, TypeOK
  <2>5. CASE \/ Fork(l) \/ PlaceChild(l) \/ PlaceStrict(l) \/ Register(l)
             \/ Exec(l) \/ Denied(l) \/ ProgramEnds(l)
    BY <2>1, <2>5 DEF Fork, PlaceChild, PlaceStrict, Register, Exec, Denied,
       ProgramEnds, LockInv, TypeOK
  <2>6. CASE WaiterDies(l)
    BY <2>1, <2>6 DEF WaiterDies, LockInv, TypeOK
  <2> QED
    BY <1>6, <2>2, <2>3, <2>4, <2>5, <2>6 DEF Launch, Waiter, GateTimesOut
<1> QED
  BY <1>1, <1>3, <1>4, <1>5, <1>6 DEF Next

-----------------------------------------------------------------------------
(* The epochs. *)

LEMMA EpochNext ==
  ASSUME TypeOK, CallInv, LockInv, EpochInv, Next PROVE EpochInv'
<1>1. CASE (\E z \in Zones : ZoneStep(z)) \/ RelayEnds
  <2>1. UNCHANGED <<lvars, evars, pc, socks>>
    BY <1>1 DEF ZoneStep, BindBridge, TouchReady, ZoneDies, RelayEnds, lvars,
       evars, kvars
  <2> QED
    BY <2>1 DEF EpochInv, Entering, lvars, evars
<1>2. ASSUME UNCHANGED <<lvars, now, file, dirs, socks>>,
             pc # "seal", pc' \notin {"move", "seal"}
      PROVE  EpochInv'
  BY <1>2 DEF EpochInv, Entering, lvars
<1>3. CASE Hear
  BY <1>3, <1>2 DEF Hear, CutDetected, ZoneEvent, Doorbell, evars
<1>4. CASE Person
  <2>1. ASSUME NEW to \in Networks, AskSwitch(to) PROVE EpochInv'
    BY <2>1, <1>2 DEF AskSwitch
  <2>2. CASE AskReattach
    BY <2>2 DEF AskReattach, EpochInv, Entering, lvars, evars, kvars
  <2> QED
    BY <1>4, <2>1, <2>2 DEF Person
<1>5. CASE Call
  <2>1. CASE ZoneBack \/ Look \/ TryLock \/ Cut
    BY <2>1, <1>2 DEF ZoneBack, Look, TryLock, LockTaken, LockBusy, Return, Cut,
       evars
  <2>2. CASE MakeEpoch
    <3>1. UNCHANGED <<lvars, now, file, socks>> /\ pc = "make" /\ pc' # "seal"
      BY <2>2, GiveUpType DEF MakeEpoch, MakeFails
    <3>2. dirs \subseteq dirs' /\ (pc' = "move" => now + 1 \in dirs')
      BY <2>2, GiveUpType DEF MakeEpoch, MakeFails
    <3> QED
      BY <3>1, <3>2 DEF EpochInv, Entering, lvars
  <2>3. ASSUME NEW l \in Launches, MoveOne(l) PROVE EpochInv'
    <3>1. now + 1 \in dirs
      BY <2>3 DEF MoveOne, EpochInv
    <3>2. UNCHANGED <<lpc, lep, now, file, dirs, pc>>
      BY <2>3 DEF MoveOne, evars, kvars
    <3>3. \A k \in Launches : place'[k] \in {place[k], now + 1}
      BY <2>3 DEF MoveOne, TypeOK
    <3>4. \A s \in socks' : s \in socks \/ s.birth = now + 1
      BY <2>3 DEF MoveOne, Sock
    <3> QED
      BY <3>1, <3>2, <3>3, <3>4 DEF EpochInv, Entering, TypeOK
  <2>4. CASE MoveFails
    BY <2>4, <1>2, GiveUpType DEF MoveFails, evars
  <2>5. CASE Moved
    <3>1. /\ UNCHANGED <<lvars, now, socks>> /\ pc = "move" /\ pc' = "seal"
          /\ dirs' \in {dirs, dirs \ {now}} /\ file' \in {file, now + 1}
      BY <2>5 DEF Moved
    <3> QED
      BY <3>1 DEF EpochInv, Entering, TypeOK, lvars
  <2>6. CASE Seal
    <3>1. UNCHANGED <<lvars, file, dirs, socks>> /\ now' = now + 1
      BY <2>6 DEF Seal
    <3>2. pc = "seal" /\ pc' \notin {"move", "seal"}
      BY <2>6, GiveUpType DEF Seal, SealFails, Sealed, Return
    <3> QED
      BY <3>1, <3>2 DEF EpochInv, Entering, TypeOK, lvars
  <2>7. CASE Attach \/ Bridge
    BY <2>7, <1>2, GiveUpType DEF Attach, Bridge, BridgeFails, BridgeChanged,
       BridgeAttached, Return, evars
  <2> QED
    BY <1>5, <2>1, <2>2, <2>3, <2>4, <2>5, <2>6, <2>7 DEF Call
<1>6. ASSUME NEW l \in Launches, Launch(l) PROVE EpochInv'
  <2>0. now \in Nat /\ \A k \in Launches : lep[k] \in Nat /\ place[k] \in Nat
    BY DEF TypeOK
  <2>1. UNCHANGED <<pc, now, file>>
    BY <1>6, Others
  <2>2. CASE AskLaunch(l) \/ Enter(l) \/ Register(l) \/ Release(l)
    BY <2>1, <2>2 DEF AskLaunch, Enter, Register, Release, EpochInv, Entering, TypeOK
  <2>3. CASE WrongNetwork(l) \/ Denied(l) \/ ProgramEnds(l)
    <3>1. dirs' = dirs /\ socks' \subseteq socks
      BY <2>3 DEF WrongNetwork, Denied, ProgramEnds, LaunchUnchanged
    <3>2. \A k \in Launches : /\ lep'[k] \in {0, lep[k]} /\ place'[k] \in {0, place[k]}
                              /\ Entering(k)' => Entering(k) /\ k # l
                              /\ k # l => lep'[k] = lep[k]
      BY <2>3 DEF WrongNetwork, Denied, ProgramEnds, Forget, Entering, TypeOK
    <3>3. ASSUME NEW k \in Launches
          PROVE  /\ lep'[k] <= now /\ (Entering(k)' => lep'[k] >= 1)
                 /\ place'[k] <= now + 1
                 /\ place'[k] = now + 1 => now + 1 \in dirs
      BY <2>0, <3>2 DEF EpochInv
    <3> QED
      BY <2>1, <3>1, <3>3 DEF EpochInv
  <2>4. CASE Fork(l)
    <3>1. l \in sharers /\ ~op.locked
      BY <2>4 DEF Fork, LockInv
    <3>2. file >= 1 /\ file <= now
      BY <3>1 DEF EpochInv, CallInv, TypeOK
    <3>3. UNCHANGED <<place, dirs, socks>> /\ lep' = [lep EXCEPT ![l] = file]
      BY <2>4 DEF Fork
    <3>4. \A k \in Launches : k # l => (Entering(k)' <=> Entering(k))
      BY <2>4 DEF Fork, Entering, TypeOK
    <3> QED
      BY <2>1, <3>2, <3>3, <3>4 DEF EpochInv, TypeOK
  <2>5. CASE PlaceChild(l) \/ PlaceStrict(l)
    <3>1. UNCHANGED socks /\ dirs \subseteq dirs'
      BY <2>5 DEF PlaceChild, PlaceStrict, LaunchUnchanged
    <3>2. \A k \in Launches : /\ lep'[k] \in {0, lep[k]}
                              /\ place'[k] \in {place[k], lep[k]}
                              /\ Entering(k)' => Entering(k) /\ lep'[k] = lep[k]
      BY <2>5 DEF PlaceChild, PlaceStrict, Forget, Entering, TypeOK
    <3>3. ASSUME NEW k \in Launches
          PROVE  /\ lep'[k] <= now /\ (Entering(k)' => lep'[k] >= 1)
                 /\ place'[k] <= now + 1
                 /\ place'[k] = now + 1 => now + 1 \in dirs
      BY <2>0, <3>2 DEF EpochInv
    <3> QED
      BY <2>1, <3>1, <3>3 DEF EpochInv
  <2>6. CASE Exec(l)
    <3>1. UNCHANGED <<place, dirs>>
      BY <2>6 DEF Exec
    <3>2. \A k \in Launches : /\ lep'[k] \in {0, lep[k]}
                              /\ Entering(k)' => Entering(k) /\ lep'[k] = lep[k]
      BY <2>6 DEF Exec, Forget, Entering, TypeOK
    <3>3. \A s \in socks' : s \in socks \/ s.birth = place[l]
      BY <2>6 DEF Exec, Sock
    <3>4. ASSUME NEW k \in Launches
          PROVE  lep'[k] <= now /\ (Entering(k)' => lep'[k] >= 1)
      BY <2>0, <3>2 DEF EpochInv
    <3>5. ASSUME NEW s \in socks'
          PROVE  s.birth <= now + 1 /\ (s.birth = now + 1 => now + 1 \in dirs)
      BY <3>3 DEF EpochInv, TypeOK
    <3> QED
      BY <2>1, <3>1, <3>4, <3>5 DEF EpochInv
  <2>7. CASE WaiterDies(l) \/ EntryFails(l)
    <3>1. UNCHANGED <<place, dirs, socks>>
      BY <2>7 DEF WaiterDies, EntryFails, evars
    <3>2. \A k \in Launches : /\ lep'[k] \in {0, lep[k]}
                              /\ Entering(k)' => Entering(k) /\ lep'[k] = lep[k]
      BY <2>7 DEF WaiterDies, EntryFails, Forget, Entering, TypeOK
    <3>3. ASSUME NEW k \in Launches
          PROVE  /\ lep'[k] <= now /\ (Entering(k)' => lep'[k] >= 1)
                 /\ place'[k] <= now + 1
                 /\ place'[k] = now + 1 => now + 1 \in dirs
      BY <2>0, <3>1, <3>2 DEF EpochInv
    <3> QED
      BY <2>1, <3>1, <3>3 DEF EpochInv
  <2> QED
    BY <1>6, <2>2, <2>3, <2>4, <2>5, <2>6, <2>7 DEF Launch, Waiter, GateTimesOut
<1> QED
  BY <1>1, <1>3, <1>4, <1>5, <1>6 DEF Next

-----------------------------------------------------------------------------
(* The networks of launches and of sockets. *)

LEMMA EntryNext ==
  ASSUME TypeOK, CallInv, EpochInv, EntryInv, Next PROVE EntryInv'
<1>1. ASSUME UNCHANGED <<lpc, lep, asked, network, now>>, Clean' => Clean
      PROVE  EntryInv'
  BY <1>1 DEF EntryInv, Entering
<1>2. CASE (\E z \in Zones : ZoneStep(z)) \/ RelayEnds
  <2>1. UNCHANGED <<lpc, lep, asked>>
    BY <1>2 DEF ZoneStep, BindBridge, TouchReady, ZoneDies, RelayEnds, lvars
  <2> QED
    BY <1>1, <1>2, <2>1, Others DEF Clean
<1>3. CASE Hear
  BY <1>1, <1>3 DEF Hear, CutDetected, ZoneEvent, Doorbell, Clean, lvars, tvars, evars
<1>4. CASE Person
  BY <1>1, <1>4 DEF Person, AskReattach, AskSwitch, Clean, lvars, tvars, evars, kvars
<1>5. CASE Call
  <2>1. CASE ZoneBack \/ Look \/ TryLock \/ Attach \/ Bridge
    BY <1>1, <2>1 DEF ZoneBack, Look, TryLock, Attach, Bridge, Clean, lvars,
       tvars, evars
  <2>2. CASE Cut \/ MakeEpoch
    BY <2>2 DEF Cut, MakeEpoch, Clean, EntryInv
  <2>3. CASE (\E l \in Launches : MoveOne(l)) \/ MoveFails \/ Moved
    <3>1. ~whole'
      BY <2>3 DEF MoveOne, MoveFails, Moved, CallInv, evars
    <3> QED
      BY <3>1 DEF EntryInv, Clean
  <2>4. CASE Seal
    <3>1. now' = now + 1 /\ lep' = lep /\ \A l \in Launches : lep[l] <= now
      BY <2>4 DEF Seal, EpochInv, lvars
    <3>2. \A l \in Launches : lep'[l] # now'
      BY <3>1 DEF TypeOK
    <3> QED
      BY <3>2 DEF EntryInv
  <2> QED
    BY <1>5, <2>1, <2>2, <2>3, <2>4 DEF Call
<1>6. ASSUME NEW l \in Launches, Launch(l) PROVE EntryInv'
  <2>1. UNCHANGED <<pc, whole, network, now>>
    BY <1>6, Others
  <2>2. CASE Fork(l)
    <3>1. asked' = asked /\ asked[l] = network
      BY <2>2 DEF Fork
    <3>2. \A k \in Launches : k # l => lpc'[k] = lpc[k] /\ lep'[k] = lep[k]
      BY <2>2 DEF Fork, TypeOK
    <3> QED
      BY <2>1, <3>1, <3>2 DEF EntryInv, Clean, Entering
  <2>3. CASE ~Fork(l)
    <3>1. ASSUME NEW k \in Launches, Entering(k)'
          PROVE  Entering(k) /\ lep'[k] = lep[k] /\ asked'[k] = asked[k]
      <4>1. CASE AskLaunch(l) \/ Enter(l) \/ Register(l) \/ Release(l)
        BY <3>1, <4>1 DEF AskLaunch, Enter, Register, Release, Entering, TypeOK
      <4>2. CASE WrongNetwork(l) \/ Denied(l) \/ ProgramEnds(l)
        BY <3>1, <4>2 DEF WrongNetwork, Denied, ProgramEnds, Forget, Entering, TypeOK
      <4>3. CASE PlaceChild(l) \/ PlaceStrict(l) \/ Exec(l)
        BY <3>1, <4>3 DEF PlaceChild, PlaceStrict, Exec, Forget, Entering, TypeOK
      <4>4. CASE WaiterDies(l) \/ EntryFails(l)
        BY <3>1, <4>4 DEF WaiterDies, EntryFails, Forget, Entering, TypeOK
      <4> QED
        BY <1>6, <2>3, <4>1, <4>2, <4>3, <4>4 DEF Launch, Waiter, GateTimesOut
    <3> QED
      BY <2>1, <3>1 DEF EntryInv, Clean
  <2> QED
    BY <2>2, <2>3
<1> QED
  BY <1>2, <1>3, <1>4, <1>5, <1>6 DEF Next

LEMMA SockNext ==
  ASSUME TypeOK, CallInv, EpochInv, EntryInv, SockInv, Next PROVE SockInv'
<1>1. ASSUME socks' \subseteq socks, UNCHANGED <<network, now>>, Clean' => Clean,
             pc' \in {"move", "seal"} => pc \in {"move", "seal"}
      PROVE  SockInv'
  BY <1>1 DEF SockInv
<1>2. CASE (\E z \in Zones : ZoneStep(z)) \/ RelayEnds
  <2>1. socks' = socks
    BY <1>2 DEF ZoneStep, BindBridge, TouchReady, ZoneDies, RelayEnds
  <2> QED
    BY <1>1, <1>2, <2>1, Others DEF Clean
<1>3. CASE Hear
  BY <1>1, <1>3 DEF Hear, CutDetected, ZoneEvent, Doorbell, Clean, tvars, evars
<1>4. CASE Person
  BY <1>1, <1>4 DEF Person, AskReattach, AskSwitch, Clean, tvars, evars, kvars
<1>5. CASE Call
  <2>1. CASE ZoneBack \/ Look
    BY <1>1, <2>1 DEF ZoneBack, Look, Clean, tvars, evars
  <2>2. CASE TryLock
    BY <1>1, <2>2 DEF TryLock, LockTaken, LockBusy, Return, Clean, evars
  <2>3. CASE Attach \/ Bridge
    BY <1>1, <2>3, GiveUpType DEF Attach, Bridge, BridgeFails, BridgeChanged,
       BridgeAttached, Return, Clean, evars
  <2>4. CASE Cut
    BY <2>4 DEF Cut, SockInv, Clean
  <2>5. CASE MakeEpoch
    <3>1. socks' = socks /\ now' = now /\ whole' = FALSE
      BY <2>5 DEF MakeEpoch
    <3>2. pc' \notin {"move", "seal"} \/ now + 1 \notin dirs
      BY <2>5, GiveUpType DEF MakeEpoch, MakeFails
    <3> QED
      BY <3>1, <3>2 DEF SockInv, EpochInv, Clean
  <2>6. ASSUME NEW l \in Launches, MoveOne(l) PROVE SockInv'
    <3>1. UNCHANGED <<network, now, whole, pc>> /\ pc = "move" /\ ~whole
      BY <2>6 DEF MoveOne, CallInv, tvars, evars, kvars
    <3>2. \A s \in socks' : s \in socks \/ s.net = network
      BY <2>6 DEF MoveOne, Sock
    <3> QED
      BY <3>1, <3>2 DEF SockInv, Clean
  <2>7. CASE MoveFails
    <3>1. socks' = socks /\ ~whole' /\ pc' \notin {"move", "seal"}
      BY <2>7, GiveUpType DEF MoveFails, CallInv, evars
    <3> QED
      BY <3>1 DEF SockInv, Clean
  <2>8. CASE Moved
    BY <1>1, <2>8 DEF Moved, Clean, tvars
  <2>9. CASE Seal
    <3>1. /\ socks' = socks /\ now' = now + 1 /\ network' = network
          /\ pc = "seal"
      BY <2>9 DEF Seal
    <3>2. pc' \notin {"move", "seal"}
      BY <2>9, GiveUpType DEF Seal, SealFails, Sealed, Return
    <3>3. now' # 1
      BY <3>1 DEF EpochInv, TypeOK
    <3> QED
      BY <3>1, <3>2, <3>3 DEF SockInv
  <2> QED
    BY <1>5, <2>1, <2>2, <2>3, <2>4, <2>5, <2>6, <2>7, <2>8, <2>9 DEF Call
<1>6. ASSUME NEW l \in Launches, Launch(l) PROVE SockInv'
  <2>1. UNCHANGED <<pc, whole, network, now>>
    BY <1>6, Others
  <2>2. CASE Exec(l)
    <3>1. Entering(l)
      BY <2>2 DEF Exec, Entering
    <3>2. lep[l] >= 1 /\ lep[l] <= now /\ lep[l] \in Nat /\ now \in Nat
      BY <3>1 DEF EpochInv, TypeOK
    <3>3. Clean /\ lep[l] = now => asked[l] = network
      BY <3>1 DEF EntryInv
    <3>4. PICK n : /\ n = IF place[l] \in {0, lep[l]} THEN asked[l] ELSE network
                   /\ socks' = socks \cup {Sock(l, place[l], n)}
      BY <2>2 DEF Exec
    <3>5. Clean /\ (now = 1 \/ place[l] = now) => n = network
      BY <3>2, <3>3, <3>4
    <3>6. place[l] = now + 1 => n = network
      BY <3>2, <3>4
    <3>7. ASSUME NEW s \in socks'
          PROVE  s \in socks \/ (s.birth = place[l] /\ s.net = n)
      BY <3>4 DEF Sock
    <3> QED
      BY <2>1, <3>5, <3>6, <3>7 DEF SockInv, Clean
  <2>3. CASE ~Exec(l)
    <3>1. socks' \subseteq socks
      BY <1>6, <2>3 DEF Launch, Waiter, GateTimesOut, EntryFails, AskLaunch, Enter,
         WrongNetwork, Fork,
         PlaceChild, PlaceStrict, Register, Denied, Release, WaiterDies,
         ProgramEnds
    <3> QED
      BY <1>1, <2>1, <3>1 DEF Clean
  <2> QED
    BY <2>2, <2>3
<1> QED
  BY <1>2, <1>3, <1>4, <1>5, <1>6 DEF Next

-----------------------------------------------------------------------------
(* The invariant, and what it says. *)

LEMMA InitInv == Init => IInv
<1> SUFFICES ASSUME Init PROVE IInv
  OBVIOUS
<1>1. TypeOK
  BY InitType
<1>2. CallInv /\ LockInv
  BY Records DEF Init, CallInv, LockInv, Idle
<1>3. LinkInv
  BY Records DEF Init, LinkInv, Wall
<1>4. EpochInv
  BY DEF Init, EpochInv, Entering
<1>5. EntryInv /\ SockInv
  BY DEF Init, EntryInv, SockInv, Entering
<1> QED
  BY <1>1, <1>2, <1>3, <1>4, <1>5 DEF IInv

LEMMA NextInv == IInv /\ [Next]_vars => IInv'
<1> SUFFICES ASSUME IInv, [Next]_vars PROVE IInv'
  OBVIOUS
<1>1. CASE Next
  <2>1. TypeOK'
    BY <1>1, NextType DEF IInv
  <2> QED
    BY <1>1, <2>1, CallNext, LockNext, EpochNext, EntryNext, SockNext DEF IInv
<1>2. CASE UNCHANGED vars
  <2>1. UNCHANGED <<network, link, now, file, whole, dirs, pc, op>>
    BY <1>2 DEF vars, tvars, evars, kvars
  <2>2. UNCHANGED <<lpc, asked, lep, place, sharers, socks>>
    BY <1>2 DEF vars, lvars
  <2>3. TypeOK'
    BY <1>2, NextType DEF IInv
  <2>4. CallInv' /\ LinkInv' /\ LockInv'
    BY <2>1, <2>2 DEF IInv, CallInv, LinkInv, LockInv, Wall
  <2>5. EpochInv' /\ EntryInv' /\ SockInv'
    BY <2>1, <2>2 DEF IInv, EpochInv, EntryInv, SockInv, Entering, Clean
  <2> QED
    BY <2>3, <2>4, <2>5 DEF IInv
<1> QED
  BY <1>1, <1>2

\* The inductive invariant holds in every reachable state.
THEOREM Invariant == Spec => []IInv
<1>1. Init => IInv
  BY InitInv
<1>2. IInv /\ [Next]_vars => IInv'
  BY NextInv
<1> QED
  BY <1>1, <1>2, PTL DEF Spec

\* Every variable keeps its type, whatever the zones, launches and bounds.
THEOREM TypeCorrect == Spec => []TypeOK
<1>1. IInv => TypeOK
  BY DEF IInv
<1> QED
  BY <1>1, Invariant, PTL

\* No socket ever goes out through another network than the one it was made
\* for: the way out lets through the sockets of the current epoch, which are all
\* of the network the instance is bound to.
THEOREM NothingCarriedOver == Spec => []NoCarryOver
<1>1. IInv => NoCarryOver
  <2> SUFFICES ASSUME IInv, NEW s \in socks, GoesOut(s) PROVE s.net = link.net
    BY DEF NoCarryOver
  <2>1. link.on /\ link.net = network /\ link.wall = Wall(now) /\ Clean
    BY DEF IInv, GoesOut, Carries, LinkInv, CallInv, Clean
  <2>2. now = 1 \/ s.birth = now
    BY <2>1 DEF IInv, TypeOK, EpochInv, GoesOut, Wall
  <2> QED
    BY <2>1, <2>2 DEF IInv, SockInv
<1> QED
  BY <1>1, Invariant, PTL

\* The way out an instance has is always that of the network it is bound to, in
\* an epoch that is whole, and there is none while a new epoch is made.
THEOREM WayOutStaysBound == Spec => []WayOutIsBound
<1>1. IInv => WayOutIsBound
  BY DEF IInv, LinkInv, CallInv, WayOutIsBound
<1> QED
  BY <1>1, Invariant, PTL

-----------------------------------------------------------------------------
(* The keeper implements Exit. *)

LEMMA InitExit == Init => E!Init
<1> SUFFICES ASSUME Init PROVE E!Init
  OBVIOUS
<1>1. link.on = (network # Offline)
  <2>1. CASE network = Offline
    <3>1. link = NoLink
      BY <2>1, SwitchAssumption DEF Init
    <3> QED
      BY <2>1, <3>1 DEF NoLink
  <2>2. CASE network # Offline
    <3>1. link = [on |-> TRUE, relay |-> TRUE, net |-> network, pid |-> 1,
                  fp |-> zone[network].fp, wall |-> 0]
      BY <2>2 DEF Init
    <3> QED
      BY <2>2, <3>1
  <2> QED
    BY <2>1, <2>2
<1>2. Clean = TRUE
  BY DEF Init, Clean
<1>3. network \in Networks /\ now = 1
  BY DEF Init
<1> QED
  BY <1>1, <1>2, <1>3 DEF E!Init

LEMMA NextExit == IInv /\ [Next]_vars => [E!Next]_(E!xvars)
<1> SUFFICES ASSUME IInv, [Next]_vars PROVE [E!Next]_(E!xvars)
  OBVIOUS
<1> USE DEF IInv
<1>s. ASSUME UNCHANGED <<network, now>>, link'.on = link.on, Clean' = Clean
      PROVE  [E!Next]_(E!xvars)
  BY <1>s DEF E!xvars
<1>1. CASE UNCHANGED vars
  BY <1>1, <1>s DEF vars, tvars, evars, kvars, Clean
<1>2. CASE \/ \E z \in Zones : ZoneStep(z)
           \/ RelayEnds
           \/ \E l \in Launches : Launch(l)
  BY <1>2, <1>s, Others DEF Clean
<1>3. CASE Hear
  <2>1. CASE CutDetected
    <3>1. link.on /\ ~link'.on /\ UNCHANGED <<network, now>> /\ Clean' = Clean
      BY <2>1, Records DEF CutDetected, Clean, evars
    <3> QED
      BY <3>1 DEF E!Next, E!Close
  <2>2. CASE ZoneEvent \/ Doorbell
    BY <2>2, <1>s DEF ZoneEvent, Doorbell, Clean, tvars, evars
  <2> QED
    BY <1>3, <2>1, <2>2 DEF Hear
<1>4. CASE Person
  <2>1. CASE AskReattach
    BY <2>1, <1>s DEF AskReattach, Clean, tvars, evars, kvars
  <2>2. ASSUME NEW to \in Networks, AskSwitch(to) PROVE [E!Next]_(E!xvars)
    <3>1. /\ UNCHANGED <<network, now, whole, link>>
          /\ pc = "poll" /\ pc' \in {"look", "lock"}
      BY <2>2 DEF AskSwitch, tvars
    <3> QED
      BY <3>1, <1>s DEF Clean
  <2> QED
    BY <1>4, <2>1, <2>2 DEF Person
<1>5. CASE Call
  <2>1. CASE ZoneBack \/ Look \/ Attach
    BY <2>1, <1>s, GiveUpType DEF ZoneBack, Look, Attach, Clean, tvars, evars
  <2>2. CASE TryLock
    <3>1. UNCHANGED <<network, now, whole, link>> /\ pc = "lock"
      BY <2>2 DEF TryLock, evars
    <3>2. CASE pc' = "make"
      <4>1. ~link.on
        BY <2>2, <3>1, <3>2 DEF TryLock, LockTaken, LockBusy, Return, CallInv
      <4> QED
        BY <3>1, <3>2, <4>1 DEF E!Next, E!Begin, Clean
    <3>3. CASE pc' # "make"
      BY <3>1, <3>3, <1>s DEF Clean
    <3> QED
      BY <3>2, <3>3
  <2>3. CASE Cut
    <3>1. network' \in Networks /\ ~link'.on /\ ~Clean' /\ now' = now
      BY <2>3, Records DEF Cut, Clean, evars, TypeOK, OpState
    <3> QED
      BY <3>1 DEF E!Next, E!Rebind
  <2>4. CASE MakeEpoch
    <3>1. ~Clean /\ ~Clean' /\ UNCHANGED <<network, link, now>>
      BY <2>4 DEF MakeEpoch, Clean
    <3> QED
      BY <3>1, <1>s DEF Clean
  <2>5. CASE (\E l \in Launches : MoveOne(l)) \/ MoveFails \/ Moved
    <3>1. ~Clean /\ ~Clean' /\ UNCHANGED <<network, link, now>>
      BY <2>5 DEF MoveOne, MoveFails, Moved, CallInv, Clean, tvars, evars
    <3> QED
      BY <3>1, <1>s DEF Clean
  <2>6. CASE Seal
    <3>1. ~link.on /\ ~Clean /\ now' = now + 1 /\ UNCHANGED <<network, link>>
      BY <2>6 DEF Seal, CallInv, Clean
    <3>2. Clean' \in BOOLEAN
      BY DEF Clean
    <3> QED
      BY <3>1, <3>2 DEF E!Next, E!Renew
  <2>7. CASE Bridge
    <3>1. /\ UNCHANGED <<network, now, whole>> /\ pc = "bridge" /\ pc' # "make"
          /\ ~link.on /\ Clean /\ network # Offline
      BY <2>7, GiveUpType DEF Bridge, BridgeFails, BridgeChanged, BridgeAttached,
         Return, CallInv, Clean, evars
    <3>2. CASE BridgeAttached
      <4>1. link'.on
        BY <3>2 DEF BridgeAttached
      <4> QED
        BY <3>1, <4>1 DEF E!Next, E!Open, Clean
    <3>3. CASE ~BridgeAttached
      <4>1. link' = link
        BY <2>7, <3>3 DEF Bridge, BridgeFails, BridgeChanged
      <4> QED
        BY <3>1, <4>1, <1>s DEF Clean
    <3> QED
      BY <3>2, <3>3
  <2> QED
    BY <1>5, <2>1, <2>2, <2>3, <2>4, <2>5, <2>6, <2>7 DEF Call
<1> QED
  BY <1>1, <1>2, <1>3, <1>4, <1>5 DEF Next

\* What the keeper does is what Exit allows: it binds the instance to another
\* network only as it closes its way out, and opens one only in an epoch that
\* is whole.
THEOREM KeeperImplementsExit == Spec => ImplementsExit
<1>1. Init => E!Init
  BY InitExit
<1>2. IInv /\ [Next]_vars => [E!Next]_(E!xvars)
  BY NextExit
<1> QED
  BY <1>1, <1>2, Invariant, PTL DEF Spec, ImplementsExit, E!Spec
-----------------------------------------------------------------------------
(* The zone's return, and where a switch ends. *)

\* What a return of the zone expects is what last carried the instance,
\* through all its steps: only a switch's Cut forgets that, and only the attach
\* it is for writes another.
Expects == op.kind = "back" => op.expect = fp

\* A zone, the relay or a launch: nothing of what the keeper knows changes.
LEMMA OthersKnow ==
  ASSUME TypeOK,
         \/ \E z \in Zones : ZoneStep(z)
         \/ RelayEnds
         \/ \E l \in Launches : Launch(l)
  PROVE  UNCHANGED <<op, fp, answer>> /\ link'.on = link.on
<1>1. ASSUME NEW z \in Zones, ZoneStep(z) PROVE UNCHANGED <<op, fp, answer>>
  BY <1>1 DEF ZoneStep, BindBridge, TouchReady, ZoneDies, tvars, kvars
<1>2. ASSUME RelayEnds PROVE UNCHANGED <<op, fp, answer>>
  BY <1>2 DEF RelayEnds, kvars
<1>3. ASSUME NEW l \in Launches, Launch(l) PROVE UNCHANGED <<op, fp, answer>>
  BY <1>3 DEF Launch, Waiter, GateTimesOut, EntryFails, AskLaunch, Enter,
     WrongNetwork, Fork, PlaceChild, PlaceStrict, Register, Exec, Denied, Release,
     WaiterDies, ProgramEnds, LaunchUnchanged, tvars, kvars
<1> QED
  BY <1>1, <1>2, <1>3, Others

\* How each step of the keeper's leaves what it expects: as it was, begun with
\* what it remembers, or ended with the call.
LEMMA ExpectsNext == ASSUME IInv, Expects, [Next]_vars PROVE Expects'
<1> USE DEF Expects
<1>i. Idle.kind = "none"
  BY DEF Idle
<1>e. ASSUME op' = Idle PROVE Expects'
  BY <1>e, <1>i
<1>k. ASSUME UNCHANGED <<op, fp>> PROVE Expects'
  BY <1>k
<1>o. TypeOK /\ CallInv /\ op \in OpState
  BY DEF IInv, TypeOK
<1>1. CASE UNCHANGED vars
  BY <1>1, <1>k DEF vars, tvars, kvars
<1>2. CASE \/ \E z \in Zones : ZoneStep(z)
           \/ RelayEnds
           \/ \E l \in Launches : Launch(l)
  BY <1>2, <1>o, <1>k, OthersKnow
<1>3. CASE Hear
  <2>1. CASE CutDetected \/ ZoneEvent
    BY <2>1, <1>k DEF CutDetected, ZoneEvent
  <2>2. CASE Doorbell
    <3>1. \/ op' = op
          \/ op' = [Idle EXCEPT !.kind = "reattach", !.to = network]
      BY <2>2 DEF Doorbell
    <3>2. fp' = fp
      BY <2>2 DEF Doorbell, tvars
    <3> QED
      BY <3>1, <3>2 DEF Idle
  <2> QED
    BY <1>3, <2>1, <2>2 DEF Hear
<1>4. CASE Person
  <2>1. CASE AskReattach
    BY <2>1, <1>k DEF AskReattach, tvars, kvars
  <2>2. ASSUME NEW to \in Networks, AskSwitch(to) PROVE Expects'
    <3>1. op' = op \/ op' = [Idle EXCEPT !.kind = "switch", !.to = to]
      BY <2>2 DEF AskSwitch
    <3>2. fp' = fp
      BY <2>2 DEF AskSwitch, tvars
    <3> QED
      BY <3>1, <3>2 DEF Idle
  <2> QED
    BY <1>4, <2>1, <2>2 DEF Person
<1>5. CASE Call
  <2>1. CASE ZoneBack
    <3>1. \/ op' = op
          \/ op' = [Idle EXCEPT !.kind = "back", !.to = network,
                                !.expect = Remembered]
      BY <2>1 DEF ZoneBack
    <3>2. fp' = fp
      BY <2>1 DEF ZoneBack, tvars
    <3> QED
      BY <3>1, <3>2 DEF Idle, Remembered
  <2>2. CASE Look \/ \E l \in Launches : MoveOne(l)
    BY <2>2, <1>k DEF Look, MoveOne, tvars, kvars
  <2>3. CASE TryLock
    <3>1. op' = Idle \/ op' = [op EXCEPT !.locked = TRUE]
      BY <2>3 DEF TryLock, LockTaken, LockBusy, Return
    <3>2. fp' = fp
      BY <2>3 DEF TryLock
    <3> QED
      BY <3>1, <3>2, <1>e, <1>o DEF OpState
  <2>4. CASE Cut
    BY <2>4, <1>o DEF Cut, CallInv
  <2>5. CASE MakeEpoch \/ MoveFails \/ Moved \/ Seal
    <3>1. op' = op \/ op' = Idle
      BY <2>5 DEF MakeEpoch, MakeFails, MoveFails, Moved, Seal, SealFails, Sealed,
         GiveUp, Return
    <3>2. fp' = fp
      BY <2>5 DEF MakeEpoch, MoveFails, Moved, Seal, tvars
    <3> QED
      BY <3>1, <3>2, <1>e
  <2>6. CASE Attach
    <3>1. op' = Idle \/ op' = [op EXCEPT !.pid = zone[network].pid]
      BY <2>6 DEF Attach, GiveUp, Return
    <3>2. fp' = fp
      BY <2>6 DEF Attach
    <3> QED
      BY <3>1, <3>2, <1>e, <1>o DEF OpState
  <2>7. CASE Bridge
    BY <2>7, <1>e DEF Bridge, BridgeFails, BridgeChanged, BridgeAttached, GiveUp,
       Return
  <2> QED
    BY <1>5, <2>1, <2>2, <2>3, <2>4, <2>5, <2>6, <2>7 DEF Call
<1> QED
  BY <1>1, <1>2, <1>3, <1>4, <1>5 DEF Next

\* A way out is opened only by an attach that came through.
LEMMA OpensByAttach ==
  ASSUME IInv, [Next]_vars, ~link.on, link'.on
  PROVE  BridgeAttached
<1>t. TypeOK
  BY DEF IInv
<1>1. CASE \/ UNCHANGED vars
           \/ \E z \in Zones : ZoneStep(z)
           \/ RelayEnds
           \/ \E l \in Launches : Launch(l)
  BY <1>1, <1>t, Others DEF vars, tvars
<1>2. CASE Hear \/ Person
  BY <1>2, Records DEF Hear, CutDetected, ZoneEvent, Doorbell, Person, AskReattach,
     AskSwitch, tvars
<1>3. CASE Call
  <2>1. CASE \/ ZoneBack \/ Look \/ TryLock \/ Cut \/ MakeEpoch
             \/ \E l \in Launches : MoveOne(l)
             \/ MoveFails \/ Moved \/ Seal \/ Attach
    BY <2>1, Records DEF ZoneBack, Look, TryLock, Cut, MakeEpoch, MoveOne,
       MoveFails, Moved, Seal, Attach, tvars
  <2>2. CASE Bridge
    BY <2>2 DEF Bridge, BridgeFails, BridgeChanged
  <2> QED
    BY <1>3, <2>1, <2>2 DEF Call
<1> QED
  BY <1>1, <1>2, <1>3 DEF Next

\* A zone that comes back carries the instance again, with no word of the
\* person's, only as the zone that carried it: however long the keeper took
\* between its look at the zone and the attach, and whatever the zone came up
\* as in between.
THEOREM ReturnsTheSame == Spec => ReturnIsTheSameZone
<1> DEFINE Same == (~link.on /\ link'.on /\ op.kind = "back")
                      => fp \in {NoFp, link'.fp}
<1>1. Init => Expects
  BY DEF Init, Expects, Idle
<1>2. IInv /\ Expects /\ [Next]_vars => Expects'
  BY ExpectsNext
<1>3. IInv /\ Expects /\ [Next]_vars => Same
  <2> SUFFICES ASSUME IInv, Expects, [Next]_vars,
                      ~link.on, link'.on, op.kind = "back"
               PROVE  fp \in {NoFp, link'.fp}
    OBVIOUS
  <2>1. BridgeAttached
    BY OpensByAttach
  <2>2. op.expect = fp
    BY DEF Expects
  <2>3. op.expect \in {NoFp, zone[network].fp} /\ link'.fp = zone[network].fp
    BY <2>1 DEF BridgeAttached
  <2> QED
    BY <2>2, <2>3
<1>4. IInv /\ Expects /\ [Next]_vars => [Same]_vars
  BY <1>3
<1> HIDE DEF Same
<1>5. Spec => [][Same]_vars
  BY <1>1, <1>2, <1>4, Invariant, PTL DEF Spec
<1> QED
  BY <1>5 DEF ReturnIsTheSameZone, Same

\* A call of a switch's that gives up says so in the network it was asked into,
\* which has no way out by then.
LEMMA GaveUp ==
  ASSUME IInv, NEW phase, GiveUp(phase), UNCHANGED <<network, link>>,
         pc \in {"make", "move", "seal", "attach", "bridge"},
         answer' # answer
  PROVE  answer'.word = "failed" /\ network' = answer'.to /\ ~link'.on
<1>1. op.kind = "switch" /\ answer' = Said("failed", op.to)
  BY DEF GiveUp
<1>2. network = op.to /\ ~link.on
  BY <1>1 DEF IInv, CallInv
<1> QED
  BY <1>1, <1>2 DEF Said

\* Where a switch leaves the instance is the table's row for the word it ends
\* with, for every place it may fail at.
THEOREM SwitchEnds == Spec => SwitchEndsAsTable
<1> DEFINE Row == CASE answer'.word = "none"    -> TRUE
                    [] answer'.word = "refused" -> network' = network /\ link' = link
                    [] answer'.word = "failed"  -> network' = answer'.to /\ ~link'.on
                    [] answer'.word = "done"    ->
                          /\ network' = answer'.to
                          /\ link'.on = (answer'.to # Offline)
<1>1. ASSUME answer'.word = "none" PROVE Row
  BY <1>1
<1>2. ASSUME answer'.word = "refused", network' = network, link' = link PROVE Row
  BY <1>2
<1>3. ASSUME answer'.word = "failed", network' = answer'.to, ~link'.on PROVE Row
  BY <1>3
<1>4. ASSUME answer'.word = "done", network' = answer'.to,
             link'.on = (answer'.to # Offline)
      PROVE Row
  BY <1>4
<1> HIDE DEF Row
<1>5. ASSUME IInv, [Next]_vars, answer' # answer PROVE Row
  <2>t. TypeOK /\ CallInv
    BY <1>5 DEF IInv
  <2>1. CASE \/ UNCHANGED vars
             \/ \E z \in Zones : ZoneStep(z)
             \/ RelayEnds
             \/ \E l \in Launches : Launch(l)
    BY <2>1, <2>t, <1>5, OthersKnow DEF vars, kvars
  <2>2. CASE Hear
    BY <2>2, <1>5 DEF Hear, CutDetected, ZoneEvent, Doorbell
  <2>3. CASE Person
    <3>1. CASE AskReattach
      BY <3>1, <1>5 DEF AskReattach, kvars
    <3>2. ASSUME NEW to \in Networks, AskSwitch(to) PROVE Row
      <4>1. answer' = Said("refused", to)
        BY <3>2, <1>5 DEF AskSwitch
      <4>2. network' = network /\ link' = link
        BY <3>2 DEF AskSwitch, tvars
      <4> QED
        BY <4>1, <4>2, <1>2 DEF Said
    <3> QED
      BY <2>3, <3>1, <3>2 DEF Person
  <2>4. CASE Look
    BY <2>4, <1>1 DEF Look, Silence, Said
  <2>5. CASE TryLock
    <3>1. answer' = Said("refused", op.to)
      BY <2>5, <1>5 DEF TryLock, LockTaken, LockBusy
    <3>2. network' = network /\ link' = link
      BY <2>5 DEF TryLock
    <3> QED
      BY <3>1, <3>2, <1>2 DEF Said
  <2>6. CASE \/ ZoneBack \/ Cut \/ Moved
             \/ \E l \in Launches : MoveOne(l)
    BY <2>6, <1>5 DEF ZoneBack, Cut, Moved, MoveOne, kvars
  <2>7. CASE MakeEpoch \/ MoveFails \/ Attach
    <3>1. /\ \E phase \in {"epoch", "attach"} : GiveUp(phase)
          /\ UNCHANGED <<network, link>>
          /\ pc \in {"make", "move", "seal", "attach", "bridge"}
      BY <2>7, <1>5 DEF MakeEpoch, MakeFails, MoveFails, Attach
    <3> QED
      BY <3>1, <1>5, <1>3, GaveUp
  <2>8. CASE Seal
    <3>1. UNCHANGED <<network, link>> /\ pc = "seal"
      BY <2>8 DEF Seal
    <3>2. CASE SealFails
      BY <3>1, <3>2, <1>5, <1>3, GaveUp DEF SealFails
    <3>3. CASE Sealed
      <4>1. op.kind = "switch" /\ op.to = Offline /\ answer' = Said("done", op.to)
        BY <3>3, <1>5 DEF Sealed
      <4>2. network' = op.to /\ ~link'.on
        BY <4>1, <3>1, <2>t DEF CallInv
      <4>3. answer'.word = "done" /\ answer'.to = Offline
        BY <4>1 DEF Said
      <4>4. link'.on = FALSE
        BY <4>2, <3>1, <2>t DEF TypeOK, LinkState
      <4> QED
        BY <4>1, <4>2, <4>3, <4>4, <1>4
    <3> QED
      BY <2>8, <3>2, <3>3 DEF Seal
  <2>9. CASE Bridge
    <3>1. network' = network /\ pc = "bridge"
      BY <2>9 DEF Bridge
    <3>2. CASE BridgeFails
      BY <3>1, <3>2, <1>5, <1>3, GaveUp DEF BridgeFails
    <3>3. CASE BridgeChanged
      BY <3>3, <1>5 DEF BridgeChanged
    <3>4. CASE BridgeAttached
      <4>1. op.kind = "switch" /\ answer' = Said("done", op.to) /\ link'.on = TRUE
        BY <3>4, <1>5 DEF BridgeAttached
      <4>2. network = op.to /\ network # Offline
        BY <4>1, <3>1, <2>t DEF CallInv
      <4>3. answer'.word = "done" /\ answer'.to = network
        BY <4>1, <4>2 DEF Said
      <4> QED
        BY <4>1, <4>2, <4>3, <3>1, <1>4
    <3> QED
      BY <2>9, <3>2, <3>3, <3>4 DEF Bridge
  <2> QED
    BY <1>5, <2>1, <2>2, <2>3, <2>4, <2>5, <2>6, <2>7, <2>8, <2>9 DEF Next, Call
<1>6. IInv /\ [Next]_vars => [answer' # answer => Row]_vars
  BY <1>5
<1>7. Spec => [][answer' # answer => Row]_vars
  BY <1>6, Invariant, PTL DEF Spec
<1> QED
  BY <1>7 DEF SwitchEndsAsTable, Row

=============================================================================
