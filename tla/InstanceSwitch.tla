--------------------------- MODULE InstanceSwitch ---------------------------
(***************************************************************************)
(* One container's instance while it is up: its keeper (a single-threaded  *)
(* poll loop, zone.rs `keep` and `Transport`), the zones it may go out     *)
(* through, the launches entering it (enter.rs) and the epochs of its      *)
(* programs (epoch.rs).  The keeper's long calls - a live switch, a zone's *)
(* return, a reattach - are sequences of steps, with zones, launches and   *)
(* programs interleaved between any two of them.                           *)
(***************************************************************************)
EXTENDS Naturals, FiniteSets

CONSTANTS Zones,          \* zones of the host
          Offline,        \* the network with no way out
          Fingerprints,   \* what a zone may come up as (bridge::fingerprint)
          NoFp,           \* no fingerprint remembered
          Launches,       \* launches that may happen while the instance is up
          Barred,         \* <<from, to>> a switch's static rules refuse
          Strict,         \* the strict network owner: a launch is registered
          MaxStarts,      \* bound: zone starts
          MaxAsks,        \* bound: words of the person (switch, reattach)
          MaxFaults       \* bound: failures of the kernel or of a helper

Networks == Zones \cup {Offline}

ASSUME SwitchAssumption ==
    /\ Offline \notin Zones
    /\ NoFp \notin Fingerprints
    /\ Barred \subseteq Networks \X Networks
    /\ Strict \in BOOLEAN
    /\ MaxStarts \in Nat /\ MaxAsks \in Nat /\ MaxFaults \in Nat

VARIABLES
    zone,       \* zone -> [st, pid, fp]
    network,    \* Transport.network, as noted in the instance's directory
    link,       \* Transport.link
    why,        \* Transport.why: none, offline, zone-changed - or any other
    fp,         \* Transport.fp: the fingerprint it was last carried by
    zonePid,    \* Transport.zone_pid: the zone's process that carried it
    watch,      \* Transport.watch is set
    event,      \* the watch has a READY or a SOCKET to tell
    now,        \* Epochs.now: the number of the current epoch
    file,       \* the epoch in the instance's directory, which launches read
    whole,      \* Epochs.whole
    outside,    \* Epochs.outside > 0, at the last look
    dirs,       \* the epochs whose cgroup is there
    pc,         \* where the keeper is
    op,         \* what it is about
    answer,     \* its last answer to a switch
    bell,       \* the doorbell rang, or a program outside the epoch ended
    mark,       \* the person's REATTACH mark
    lpc,        \* where each launch is
    asked,      \* the network each launch was asked into
    lep,        \* the epoch each launch read
    place,      \* the epoch its processes are in; 0: none
    sharers,    \* launches whose waiter holds the lock shared
    socks,      \* sockets of the programs: launch, epoch of birth, network
    starts, asks, faults    \* bounded counters

zvars == <<zone, starts>>
lvars == <<lpc, asked, lep, place, sharers>>
tvars == <<network, link, why, fp, zonePid, watch, event>>
evars == <<now, file, whole, outside, dirs>>
kvars == <<pc, op, answer>>
vars  == <<zvars, lvars, tvars, evars, kvars, bell, mark, socks, asks, faults>>

-----------------------------------------------------------------------------
Down == [st |-> "down", pid |-> 0, fp |-> NoFp]

NoLink == [on |-> FALSE, relay |-> FALSE, net |-> Offline, pid |-> 0,
           fp |-> NoFp, wall |-> 0]

Up(z) == zone[z].st = "up"

\* Whether a frame can pass: the relay and the zone's passt are both there.
Carries == /\ link.on /\ link.relay
           /\ zone[link.net].st # "down"
           /\ zone[link.net].pid = link.pid

\* Mutant of Wall: the first switch's epoch without one.
WallOneLate(n) == IF n >= 3 THEN n ELSE 0

\* Epoch::wall: none before the first switch, then the current epoch's own.
Wall(n) == IF n >= 2 THEN n ELSE 0

\* The wall compares the cgroup a socket was born in, never its process's.
GoesOut(s) == Carries /\ (link.wall = 0 \/ link.wall = s.birth)

Running(l) == lpc[l] = "running"

\* Epochs::look over place::members: a child is seen from its exec on.
OutsideNow == \E l \in Launches : Running(l) /\ place[l] # now

Renewable == ~outside

\* with_lock's exclusive flock, held from TryLock to the end of the call.
Exclusive == op.locked

Idle == [kind |-> "none", to |-> Offline, expect |-> NoFp, pid |-> 0,
         locked |-> FALSE]

\* Mutant of Return: the lock's descriptor kept.
ReturnHolding == /\ op' = [Idle EXCEPT !.locked = op.locked]
                 /\ pc' = IF op.kind = "back" THEN "poll" ELSE "look"

\* Where the keeper goes on: a request and the doorbell are followed by a
\* look at the programs, an event of the zone's is not.
Return == /\ op' = Idle
          /\ pc' = IF op.kind = "back" THEN "poll" ELSE "look"

Said(word, to) == [word |-> word, to |-> to]
Silence == Said("none", Offline)

Fault == faults < MaxFaults /\ faults' = faults + 1

\* A zone's directory watched: a watch that is there goes on with what it
\* has to tell, a new one starts with nothing.
Watched == /\ watch' = TRUE
           /\ event' = (watch /\ event)
Unwatched == watch' = FALSE /\ event' = FALSE

-----------------------------------------------------------------------------
Init ==
    /\ zone \in [Zones -> {Down} \cup [st : {"up"}, pid : {1}, fp : Fingerprints]]
    /\ network \in Networks
    /\ \/ /\ network = Offline
          /\ link = NoLink /\ why = "offline" /\ fp = NoFp
       \/ /\ network \in Zones
          /\ Up(network)
          /\ link = [on |-> TRUE, relay |-> TRUE, net |-> network, pid |-> 1,
                     fp |-> zone[network].fp, wall |-> 0]
          /\ why = "none" /\ fp = zone[network].fp
    /\ zonePid = IF network = Offline THEN 0 ELSE 1
    /\ watch = FALSE /\ event = FALSE
    /\ now = 1 /\ file = 1 /\ whole = TRUE /\ outside = FALSE /\ dirs = {1}
    /\ pc = "poll" /\ op = Idle
    /\ answer = Silence
    /\ bell = FALSE /\ mark = FALSE
    /\ lpc = [l \in Launches |-> "none"]
    /\ asked = [l \in Launches |-> Offline]
    /\ lep = [l \in Launches |-> 0]
    /\ place = [l \in Launches |-> 0]
    /\ sharers = {} /\ socks = {}
    /\ starts = 0 /\ asks = 0 /\ faults = 0

-----------------------------------------------------------------------------
(* The zones. *)

\* What appears in a zone's directory is told to whoever watches it.
Appears(z) == event' = (event \/ (watch /\ network = z))

\* A zone starts: its bridge's socket is bound before it is ready.
BindBridge(z) ==
    /\ zone[z].st = "down"
    /\ starts < MaxStarts
    /\ starts' = starts + 1
    /\ \E f \in Fingerprints :
          zone' = [zone EXCEPT ![z] = [st |-> "bound", pid |-> starts + 2,
                                       fp |-> f]]
    /\ Appears(z)
    /\ UNCHANGED <<lvars, network, link, why, fp, zonePid, watch, evars, kvars,
                   bell, mark, socks, asks, faults>>

TouchReady(z) ==
    /\ zone[z].st = "bound"
    /\ zone' = [zone EXCEPT ![z].st = "up"]
    /\ Appears(z)
    /\ UNCHANGED <<starts, lvars, network, link, why, fp, zonePid, watch, evars,
                   kvars, bell, mark, socks, asks, faults>>

ZoneDies(z) ==
    /\ zone[z].st # "down"
    /\ zone' = [zone EXCEPT ![z] = Down]
    /\ UNCHANGED <<starts, lvars, tvars, evars, kvars, bell, mark, socks, asks,
                   faults>>

\* The relay, or the zone's passt for it, ends by itself.
RelayEnds ==
    /\ link.on /\ link.relay
    /\ Fault
    /\ link' = [link EXCEPT !.relay = FALSE]
    /\ UNCHANGED <<zvars, lvars, network, why, fp, zonePid, watch, event, evars,
                   kvars, bell, mark, socks, asks>>

-----------------------------------------------------------------------------
(* The keeper: what it does at its poll. *)

\* Mutant of CutDetected: the zone is waited for, and not looked at.
CutAndWait ==
    /\ pc = "poll"
    /\ link.on /\ ~Carries
    /\ link' = NoLink
    /\ why' = "cut"
    /\ Watched
    /\ UNCHANGED <<zvars, lvars, network, fp, zonePid, evars, kvars, bell,
                   mark, socks, asks, faults>>

\* Transport::handle: the zone's side ended, or the relay did; then
\* Transport::cut and watch_zone, which looks at the zone at once.
CutDetected ==
    /\ pc = "poll"
    /\ link.on /\ ~Carries
    /\ link' = NoLink
    /\ why' = "cut"
    /\ Watched
    /\ pc' = "back"
    /\ UNCHANGED <<zvars, lvars, network, fp, zonePid, evars, op, answer, bell,
                   mark, socks, asks, faults>>

\* Transport::handle: the watch tells of READY or of the bridge's socket.
ZoneEvent ==
    /\ pc = "poll"
    /\ watch /\ event
    /\ event' = FALSE
    /\ pc' = "back"
    /\ UNCHANGED <<zvars, lvars, network, link, why, fp, zonePid, watch, evars,
                   op, answer, bell, mark, socks, asks, faults>>

\* Mutants of Remembered: any zone will do; the process for the fingerprint.
RememberedAny == NoFp
RememberedPid == zonePid

\* What zone_back expects of the zone: the one that carried it.
Remembered == fp

\* Transport::zone_back: the zone is up, in another process than the one that
\* carried it; attached as a new epoch when one can be made, else in the epoch
\* it has.
MayBeBack == /\ ~link.on /\ network # Offline /\ why # "zone-changed"
             /\ Up(network) /\ zone[network].pid # zonePid

ZoneBack ==
    /\ pc = "back"
    /\ IF ~MayBeBack
       THEN pc' = "poll" /\ UNCHANGED op
       ELSE /\ op' = [Idle EXCEPT !.kind = "back", !.to = network,
                                  !.expect = Remembered]
            /\ pc' = IF Renewable THEN "lock" ELSE "attach"
    /\ UNCHANGED <<zvars, lvars, tvars, evars, answer, bell, mark, socks, asks,
                   faults>>

\* The doorbell: the person's mark taken (Transport::reattach), then a look.
Doorbell ==
    /\ pc = "poll"
    /\ bell
    /\ bell' = FALSE
    /\ mark' = FALSE
    /\ IF mark /\ network # Offline /\ ~link.on
       THEN /\ op' = [Idle EXCEPT !.kind = "reattach", !.to = network]
            /\ pc' = IF Renewable THEN "lock" ELSE "attach"
       ELSE pc' = "look" /\ UNCHANGED op
    /\ UNCHANGED <<zvars, lvars, tvars, evars, answer, socks, asks, faults>>

\* The look at the programs that follows, an answer's connection closed.
Look ==
    /\ pc = "look"
    /\ outside' = OutsideNow
    /\ answer' = Silence
    /\ pc' = "poll"
    /\ UNCHANGED <<zvars, lvars, tvars, now, file, whole, dirs, op, bell, mark,
                   socks, asks, faults>>

\* switch::refusal, the rules that change while an instance runs; Barred
\* stands for those that do not (locked, settings, search domains).
Refusal(to, out) ==
    IF to # Offline /\ ~Up(to) THEN "zone-down"
    ELSE IF <<network, to>> \in Barred THEN "barred"
    ELSE IF out THEN "outside"
    ELSE "none"

\* answer_request and Transport::switch: the programs as they are now, and
\* the preconditions - all of it before the lock.
AskSwitch(to) ==
    /\ pc = "poll"
    /\ asks < MaxAsks
    /\ asks' = asks + 1
    /\ outside' = OutsideNow
    /\ LET refused == Refusal(to, OutsideNow)
       IN  IF refused = "none"
           THEN /\ op' = [Idle EXCEPT !.kind = "switch", !.to = to]
                /\ pc' = "lock"
                /\ UNCHANGED answer
           ELSE /\ answer' = Said("refused", to)
                /\ pc' = "look"
                /\ UNCHANGED op
    /\ UNCHANGED <<zvars, lvars, tvars, now, file, whole, dirs, bell, mark,
                   socks, faults>>

\* `cellward container reattach`: the mark left, the doorbell rung.
AskReattach ==
    /\ asks < MaxAsks
    /\ asks' = asks + 1
    /\ mark' = TRUE
    /\ bell' = TRUE
    /\ UNCHANGED <<zvars, lvars, tvars, evars, kvars, socks, faults>>

-----------------------------------------------------------------------------
(* The keeper: the steps of a call. *)

\* A call that failed: a switch keeps its own word and watches the zone only
\* when it was the attach; the others watch the zone for another try.
GiveUp(phase) ==
    /\ IF op.kind = "switch"
       THEN /\ why' = "cut"
            /\ IF phase = "attach" THEN Watched ELSE UNCHANGED <<watch, event>>
            /\ answer' = Said("failed", op.to)
       ELSE why' = "cut" /\ Watched /\ UNCHANGED answer
    /\ Return

\* Transport::with_lock: exclusively now, or not at all.
LockTaken ==
    /\ sharers = {}
    /\ op' = [op EXCEPT !.locked = TRUE]
    /\ pc' = IF op.kind = "switch" THEN "cut" ELSE "make"
    /\ UNCHANGED <<why, watch, event, answer>>

LockBusy ==
    /\ sharers # {}
    /\ IF op.kind = "switch"
       THEN /\ answer' = Said("refused", op.to)
            /\ UNCHANGED <<why, watch, event>>
       ELSE why' = "cut" /\ Watched /\ UNCHANGED answer
    /\ Return

\* Mutant of TryLock: the lock waited for.
TryLockWaits ==
    /\ pc = "lock"
    /\ LockTaken
    /\ UNCHANGED <<zvars, lvars, network, link, fp, zonePid, evars, bell, mark,
                   socks, asks, faults>>

TryLock ==
    /\ pc = "lock"
    /\ LockTaken \/ LockBusy
    /\ UNCHANGED <<zvars, lvars, network, link, fp, zonePid, evars, bell, mark,
                   socks, asks, faults>>

\* Mutant of Cut: the binding left for when the new network carries it.
CutBindsLater ==
    /\ pc = "cut"
    /\ link' = NoLink
    /\ Unwatched
    /\ network' = IF op.to = Offline THEN op.to ELSE network
    /\ fp' = NoFp
    /\ zonePid' = 0
    /\ why' = "cut"
    /\ pc' = "make"
    /\ UNCHANGED <<zvars, lvars, evars, op, answer, bell, mark, socks, asks,
                   faults>>

\* Transport::switch_taken up to renew: the instance's own binding and the
\* end of the old way out, before anything of the new.
Cut ==
    /\ pc = "cut"
    /\ link' = NoLink
    /\ Unwatched
    /\ network' = op.to
    /\ fp' = NoFp
    /\ zonePid' = 0
    /\ why' = "cut"
    /\ pc' = "make"
    /\ UNCHANGED <<zvars, lvars, evars, op, answer, bell, mark, socks, asks,
                   faults>>

\* Transport::renew, epoch::make: an epoch's cgroup that is there already is
\* an error; make_denied may fail once the epoch's own is made.
MakeFails ==
    /\ \/ now + 1 \in dirs /\ UNCHANGED <<dirs, faults>>
       \/ Fault /\ dirs' \in {dirs, dirs \cup {now + 1}}
    /\ GiveUp("epoch")

\* Mutant of MakeEpoch: what was whole stays so while it is renewed.
MakeKeepsWhole ==
    /\ pc = "make"
    /\ UNCHANGED whole
    /\ \/ MakeFails
       \/ /\ now + 1 \notin dirs
          /\ dirs' = dirs \cup {now + 1}
          /\ pc' = "move"
          /\ UNCHANGED <<why, watch, event, op, answer, faults>>
    /\ UNCHANGED <<zvars, lvars, network, link, fp, zonePid, now, file, outside,
                   bell, mark, socks, asks>>

MakeEpoch ==
    /\ pc = "make"
    /\ whole' = FALSE
    /\ \/ MakeFails
       \/ /\ now + 1 \notin dirs
          /\ dirs' = dirs \cup {now + 1}
          /\ pc' = "move"
          /\ UNCHANGED <<why, watch, event, op, answer, faults>>
    /\ UNCHANGED <<zvars, lvars, network, link, fp, zonePid, now, file, outside,
                   bell, mark, socks, asks>>

\* The sockets of a program that runs in an epoch: it is taken to make one
\* wherever it gets to.
Sock(l, n, net) == [launch |-> l, birth |-> n, net |-> net]

\* epoch::move_all, one launch's cgroup at a time.
MoveOne(l) ==
    /\ pc = "move"
    /\ place[l] = now
    /\ place' = [place EXCEPT ![l] = now + 1]
    /\ socks' = IF Running(l) THEN socks \cup {Sock(l, now + 1, network)}
                              ELSE socks
    /\ UNCHANGED <<zvars, lpc, asked, lep, sharers, tvars, evars, kvars, bell,
                   mark, asks, faults>>

\* The freeze, a move or a read of the cgroup refused.
MoveFails ==
    /\ pc = "move"
    /\ Fault
    /\ GiveUp("epoch")
    /\ UNCHANGED <<zvars, lvars, network, link, fp, zonePid, evars, bell, mark,
                   socks, asks>>

\* The old epoch has nobody: removed, and the next one written for launches;
\* where either fails it is only said.
Moved ==
    /\ pc = "move"
    /\ \A l \in Launches : place[l] # now
    /\ \/ dirs' = dirs \ {now} /\ file' = now + 1 /\ UNCHANGED faults
       \/ Fault /\ dirs' = dirs /\ file' = now + 1
       \/ Fault /\ dirs' = dirs \ {now} /\ UNCHANGED file
    /\ pc' = "seal"
    /\ UNCHANGED <<zvars, lvars, tvars, now, whole, outside, op, answer, bell,
                   mark, socks, asks>>

\* bridge::seal, and the epoch taken for the current one whatever it said.
SealFails ==
    /\ Fault
    /\ UNCHANGED whole
    /\ GiveUp("seal")

Sealed ==
    /\ whole' = TRUE
    /\ IF op.kind = "switch" /\ op.to = Offline
       THEN /\ why' = "offline"
            /\ answer' = Said("done", op.to)
            /\ Return
       ELSE pc' = "attach" /\ UNCHANGED <<why, op, answer>>
    /\ UNCHANGED <<watch, event, faults>>

Seal ==
    /\ pc = "seal"
    /\ now' = now + 1
    /\ SealFails \/ Sealed
    /\ UNCHANGED <<zvars, lvars, network, link, fp, zonePid, file, outside, dirs,
                   bell, mark, socks, asks>>

\* Mutant of Attach: in an epoch that may have programs left out of it.
AttachRegardless ==
    /\ pc = "attach"
    /\ IF Up(network)
       THEN /\ op' = [op EXCEPT !.pid = zone[network].pid]
            /\ pc' = "bridge"
            /\ UNCHANGED <<why, watch, event, answer>>
       ELSE GiveUp("attach")
    /\ UNCHANGED <<zvars, lvars, network, link, fp, zonePid, evars, bell, mark,
                   socks, asks, faults>>

\* Transport::attach up to bridge::attach: what it refuses by itself, and the
\* zone's process as it is then.
Attach ==
    /\ pc = "attach"
    /\ IF whole /\ Up(network)
       THEN /\ op' = [op EXCEPT !.pid = zone[network].pid]
            /\ pc' = "bridge"
            /\ UNCHANGED <<why, watch, event, answer>>
       ELSE GiveUp("attach")
    /\ UNCHANGED <<zvars, lvars, network, link, fp, zonePid, evars, bell, mark,
                   socks, asks, faults>>

\* bridge::attach, the zone's side gone or a helper of ours not starting.
BridgeFails ==
    /\ \/ zone[network].st = "down" /\ UNCHANGED faults
       \/ Fault
    /\ GiveUp("attach")
    /\ UNCHANGED <<link, fp, zonePid>>

\* NoLink::Changed, Transport::zone_changed: its zone is another one now.
BridgeChanged ==
    /\ zone[network].st # "down"
    /\ op.expect \notin {NoFp, zone[network].fp}
    /\ why' = "zone-changed"
    /\ Unwatched
    /\ Return
    /\ UNCHANGED <<link, fp, zonePid, answer, faults>>

BridgeAttached ==
    /\ zone[network].st # "down"
    /\ op.expect \in {NoFp, zone[network].fp}
    /\ link' = [on |-> TRUE, relay |-> TRUE, net |-> network,
                pid |-> zone[network].pid, fp |-> zone[network].fp,
                wall |-> Wall(now)]
    /\ fp' = zone[network].fp
    /\ zonePid' = op.pid
    /\ why' = "none"
    /\ Unwatched
    /\ answer' = IF op.kind = "switch" THEN Said("done", op.to) ELSE answer
    /\ Return
    /\ UNCHANGED faults

Bridge ==
    /\ pc = "bridge"
    /\ BridgeFails \/ BridgeChanged \/ BridgeAttached
    /\ UNCHANGED <<zvars, lvars, network, evars, bell, mark, socks, asks>>

-----------------------------------------------------------------------------
(* The launches: container-enter (the waiter) and its child. *)

LaunchUnchanged == UNCHANGED <<zvars, tvars, now, file, whole, outside, kvars,
                               mark, asks, faults>>

\* What container-enter knew is gone with it, at its exec or its end.
Forget(l) == /\ asked' = [asked EXCEPT ![l] = Offline]
             /\ lep' = [lep EXCEPT ![l] = 0]

\* The launch is resolved: it asks for the network the container is in now.
AskLaunch(l) ==
    /\ lpc[l] = "none"
    /\ lpc' = [lpc EXCEPT ![l] = "asking"]
    /\ asked' = [asked EXCEPT ![l] = network]
    /\ LaunchUnchanged
    /\ UNCHANGED <<lep, place, sharers, dirs, bell, socks>>

\* enter::held_instance: the lock, shared - waited for.
Enter(l) ==
    /\ lpc[l] = "asking"
    /\ ~Exclusive
    /\ lpc' = [lpc EXCEPT ![l] = "held"]
    /\ sharers' = sharers \cup {l}
    /\ LaunchUnchanged
    /\ UNCHANGED <<asked, lep, place, dirs, bell, socks>>

\* Another network than the one asked for: the lock dropped, the bell rung.
WrongNetwork(l) ==
    /\ lpc[l] = "held"
    /\ asked[l] # network
    /\ lpc' = [lpc EXCEPT ![l] = "done"]
    /\ sharers' = sharers \ {l}
    /\ bell' = TRUE
    /\ Forget(l)
    /\ LaunchUnchanged
    /\ UNCHANGED <<place, dirs, socks>>

\* What container-enter prepares fails - a namespace, a pipe, the fork: the
\* lock dropped, the bell rung, but where it is the strict controller that is
\* not ready.
EntryFails(l) ==
    /\ lpc[l] = "held"
    /\ asked[l] = network
    /\ Fault
    /\ lpc' = [lpc EXCEPT ![l] = "done"]
    /\ sharers' = sharers \ {l}
    /\ bell' = TRUE \/ (Strict /\ bell' = bell)
    /\ Forget(l)
    /\ UNCHANGED <<zvars, tvars, evars, kvars, mark, asks, place, socks>>

\* The epoch read under the lock, then the fork.
Fork(l) ==
    /\ lpc[l] = "held"
    /\ asked[l] = network
    /\ lep' = [lep EXCEPT ![l] = file]
    /\ lpc' = [lpc EXCEPT ![l] = "forked"]
    /\ LaunchUnchanged
    /\ UNCHANGED <<asked, place, sharers, dirs, bell, socks>>

\* enter::place: its own cgroup below the epoch it read, made with the
\* epoch's where that is gone; where the kernel refuses the move (a login
\* session's), it stays outside.
PlaceChild(l) ==
    /\ lpc[l] = "forked"
    /\ ~Strict
    /\ lpc' = [lpc EXCEPT ![l] = "placed"]
    /\ \/ UNCHANGED <<place, dirs>>
       \/ /\ place' = [place EXCEPT ![l] = lep[l]]
          /\ dirs' = dirs \cup {lep[l]}
    /\ LaunchUnchanged
    /\ UNCHANGED <<asked, lep, sharers, bell, socks>>

\* Epoch::place_launch_strict: in the epoch it read or not at all.
PlaceStrict(l) ==
    /\ lpc[l] = "forked"
    /\ Strict
    /\ \/ /\ lpc' = [lpc EXCEPT ![l] = "done"]
          /\ Forget(l)
          /\ UNCHANGED place
       \/ /\ lep[l] \in dirs
          /\ lpc' = [lpc EXCEPT ![l] = "placed"]
          /\ place' = [place EXCEPT ![l] = lep[l]]
          /\ UNCHANGED <<asked, lep>>
    /\ LaunchUnchanged
    /\ UNCHANGED <<sharers, dirs, bell, socks>>

\* answer_request, REGISTER: the waiter asks with the lock held, and the
\* keeper answers from its poll.
Register(l) ==
    /\ pc = "poll"
    /\ Strict
    /\ lpc[l] = "placed"
    /\ l \in sharers
    /\ lpc' = [lpc EXCEPT ![l] = "registered"]
    /\ LaunchUnchanged
    /\ UNCHANGED <<asked, lep, place, sharers, dirs, bell, socks>>

\* become_the_launch: the program's exec - in strict, at its waiter's word.
\* It is in the network it asked for, or in the one it was moved in already.
Exec(l) ==
    /\ IF Strict THEN lpc[l] = "registered" /\ l \in sharers
                 ELSE lpc[l] = "placed"
    /\ lpc' = [lpc EXCEPT ![l] = "running"]
    /\ socks' = socks \cup {Sock(l, place[l], IF place[l] \in {0, lep[l]}
                                             THEN asked[l] ELSE network)}
    /\ Forget(l)
    /\ LaunchUnchanged
    /\ UNCHANGED <<place, sharers, dirs, bell>>

\* The strict gate ends without a word: the child is not executed.
Denied(l) ==
    /\ Strict
    /\ lpc[l] \in {"placed", "registered"}
    /\ lpc' = [lpc EXCEPT ![l] = "done"]
    /\ place' = [place EXCEPT ![l] = 0]
    /\ Forget(l)
    /\ LaunchUnchanged
    /\ UNCHANGED <<sharers, dirs, bell, socks>>

\* The program is in, or will not be: the lock goes, the bell is rung.
Release(l) ==
    /\ l \in sharers
    /\ lpc[l] \in {"running", "done"}
    /\ sharers' = sharers \ {l}
    /\ bell' = TRUE
    /\ LaunchUnchanged
    /\ UNCHANGED <<lpc, asked, lep, place, dirs, socks>>

\* The waiter is killed: its lock goes with it, its child goes on.
WaiterDies(l) ==
    /\ l \in sharers
    /\ Fault
    /\ sharers' = sharers \ {l}
    /\ lpc' = [lpc EXCEPT ![l] = IF @ = "held" THEN "done" ELSE @]
    /\ IF lpc[l] = "held" THEN Forget(l) ELSE UNCHANGED <<asked, lep>>
    /\ UNCHANGED <<zvars, tvars, evars, kvars, mark, asks, place, bell, socks>>

\* A program ends; the keeper looks when it knew of it outside the epoch.
ProgramEnds(l) ==
    /\ Running(l)
    /\ lpc' = [lpc EXCEPT ![l] = "done"]
    /\ place' = [place EXCEPT ![l] = 0]
    /\ socks' = {s \in socks : s.launch # l}
    /\ bell' = (bell \/ (outside /\ place[l] # now))
    /\ LaunchUnchanged
    /\ UNCHANGED <<asked, lep, sharers, dirs>>

-----------------------------------------------------------------------------
ZoneStep(z) == BindBridge(z) \/ TouchReady(z) \/ ZoneDies(z)

Call == \/ ZoneBack \/ Look \/ TryLock \/ Cut \/ MakeEpoch
        \/ \E l \in Launches : MoveOne(l)
        \/ MoveFails \/ Moved \/ Seal \/ Attach \/ Bridge

Hear == CutDetected \/ ZoneEvent \/ Doorbell

Waiter(l) == \/ Enter(l) \/ WrongNetwork(l) \/ Fork(l) \/ PlaceChild(l)
             \/ PlaceStrict(l) \/ Register(l) \/ Exec(l) \/ Release(l)
             \/ (l \notin sharers /\ Denied(l))

\* A waiter that is there ends the gate when the keeper refuses it or says
\* nothing for ten seconds.
GateTimesOut(l) == l \in sharers /\ Denied(l)

Launch(l) == \/ AskLaunch(l) \/ Waiter(l) \/ EntryFails(l) \/ GateTimesOut(l)
             \/ WaiterDies(l) \/ ProgramEnds(l)

Person == AskReattach \/ \E to \in Networks : AskSwitch(to)

Next == \/ \E z \in Zones : ZoneStep(z)
        \/ RelayEnds \/ Hear \/ Call \/ Person
        \/ \E l \in Launches : Launch(l)

Spec == Init /\ [][Next]_vars

-----------------------------------------------------------------------------
(* Properties. *)

ZoneState == [st : {"down", "bound", "up"}, pid : Nat,
              fp : Fingerprints \cup {NoFp}]

LinkState == [on : BOOLEAN, relay : BOOLEAN, net : Networks, pid : Nat,
              fp : Fingerprints \cup {NoFp}, wall : Nat]

OpState == [kind : {"none", "back", "reattach", "switch"}, to : Networks,
            expect : Fingerprints \cup {NoFp}, pid : Nat, locked : BOOLEAN]

\* The type of every variable.
TypeOK ==
    /\ zone \in [Zones -> ZoneState]
    /\ network \in Networks
    /\ link \in LinkState /\ (link.on => link.net \in Zones)
    /\ why \in {"none", "offline", "zone-changed", "cut"}
    /\ fp \in Fingerprints \cup {NoFp} /\ zonePid \in Nat
    /\ watch \in BOOLEAN /\ event \in BOOLEAN
    /\ now \in Nat /\ file \in Nat /\ dirs \subseteq Nat
    /\ whole \in BOOLEAN /\ outside \in BOOLEAN
    /\ pc \in {"poll", "back", "look", "lock", "cut", "make", "move", "seal",
               "attach", "bridge"}
    /\ op \in OpState
    /\ answer \in [word : {"none", "refused", "failed", "done"}, to : Networks]
    /\ bell \in BOOLEAN /\ mark \in BOOLEAN
    /\ lpc \in [Launches -> {"none", "asking", "held", "forked", "placed",
                             "registered", "running", "done"}]
    /\ asked \in [Launches -> Networks]
    /\ lep \in [Launches -> Nat] /\ place \in [Launches -> Nat]
    /\ sharers \subseteq Launches
    /\ socks \subseteq [launch : Launches, birth : Nat, net : Networks]
    /\ starts \in Nat /\ asks \in Nat /\ faults \in Nat

\* No socket goes out through another network than the one its program was in
\* when it made it: a launch's own first one that of the network it asked for,
\* the later ones that of the network its program was moved in (LEAK-MODEL.md
\* section 29, G1 and G3; the wall of zone.rs renew and attach).
NoCarryOver == \A s \in socks : GoesOut(s) => s.net = link.net

\* The instance has a way out only through the network it is bound to, in an
\* epoch that is whole, and none while a new epoch is being made (G1, G2).
WayOutIsBound ==
    link.on => /\ link.net = network
               /\ whole
               /\ link.wall = Wall(now)
               /\ pc \notin {"make", "move", "seal", "attach", "bridge"}

\* A zone that comes back carries the instance again only as the zone that
\* carried it; any other way out is the person's word (I1; zone_back).
ReturnIsTheSameZone ==
    [][(~link.on /\ link'.on /\ op.kind = "back")
          => fp \in {NoFp, link'.fp}]_vars

\* Where a switch leaves the instance is switch::after's table: refused, where
\* it was; failed, in the network asked for with no way out; done, in it with
\* the way out it has.
SwitchEndsAsTable ==
    [][answer' # answer =>
          CASE answer'.word = "none"    -> TRUE
            [] answer'.word = "refused" -> network' = network /\ link' = link
            [] answer'.word = "failed"  -> network' = answer'.to /\ ~link'.on
            [] answer'.word = "done"    -> /\ network' = answer'.to
                                           /\ link'.on = (answer'.to # Offline)]_vars

\* Everything of the programs is in the epoch that is current, and nothing has
\* begun to change that.
Clean == whole /\ pc # "make"

\* The abstract promise: see Exit.
E == INSTANCE Exit WITH bound <- network, way <- link.on, epoch <- now,
                        clean <- Clean
ImplementsExit == E!Spec

-----------------------------------------------------------------------------
(* What makes NoCarryOver and WayOutIsBound inductive. *)

\* A child that is forked and not executed.
Entering(l) == lpc[l] \in {"forked", "placed", "registered"}

\* A call is about the network the instance is bound to from its Cut on, and
\* its steps up to the attach have no way out and, but for the attach, the lock.
CallInv ==
    /\ pc \in {"make", "move", "seal", "attach", "bridge"}
          => /\ ~link.on
             /\ op.kind # "none"
             /\ op.kind = "switch" => network = op.to
             /\ op.kind # "switch" => network # Offline
    /\ pc = "lock" => op.kind # "none"
    /\ pc = "lock" /\ op.kind # "switch" => ~link.on /\ network # Offline
    /\ pc \in {"attach", "bridge"} => network # Offline
    /\ pc = "cut" => op.kind = "switch"
    /\ pc \in {"cut", "make", "move", "seal"} => op.locked
    /\ pc \in {"move", "seal"} => ~whole
    /\ pc = "bridge" => whole

LinkInv == link.on => link.net = network /\ whole /\ link.wall = Wall(now)

\* The lock keeps launches out of a renewal.
LockInv == /\ op.locked => sharers = {}
           /\ \A l \in Launches : lpc[l] = "held" => l \in sharers

\* An epoch past the current one is only where a renewal made it, and a launch
\* never reads one.
EpochInv ==
    /\ now >= 1 /\ file >= 1
    /\ file <= now + 1
    /\ file = now + 1 => pc = "seal"
    /\ pc \in {"move", "seal"} => now + 1 \in dirs
    /\ \A l \in Launches :
          /\ lep[l] <= now
          /\ Entering(l) => lep[l] >= 1
          /\ place[l] <= now + 1
          /\ place[l] = now + 1 => now + 1 \in dirs
    /\ \A s \in socks :
          /\ s.birth <= now + 1
          /\ s.birth = now + 1 => now + 1 \in dirs

\* A launch that is not executed yet asked for the network the instance is
\* bound to, if it may be executed in the current epoch.
EntryInv ==
    \A l \in Launches :
        Clean /\ Entering(l) /\ lep[l] = now => asked[l] = network

\* The sockets born in the current epoch, once it is whole, are the bound
\* network's, and so are those born in the next one while it is being made.
\* Before the first switch there is one epoch, and no other network.
SockInv ==
    \A s \in socks :
        /\ Clean /\ (now = 1 \/ s.birth = now) => s.net = network
        /\ pc \in {"move", "seal"} /\ s.birth = now + 1 => s.net = network

IInv == /\ TypeOK /\ CallInv /\ LinkInv /\ LockInv /\ EpochInv
        /\ EntryInv /\ SockInv

-----------------------------------------------------------------------------
\* Fairness: the keeper's own steps, its poll, and a launch's processes go on;
\* zones, failures, ends of programs and the person's words owe nothing, and
\* nothing counts on the gate's ten seconds.
Fairness == /\ WF_vars(Call)
            /\ WF_vars(CutDetected) /\ WF_vars(ZoneEvent) /\ WF_vars(Doorbell)
            /\ \A l \in Launches : WF_vars(Waiter(l))

FairSpec == Spec /\ Fairness

\* The keeper always comes back to its poll: no call of its waits for a launch,
\* which may itself be waiting for the keeper's word (zone.rs with_lock).
KeeperReturns == pc # "poll" ~> pc = "poll"

\* A launch that asked gets in or is told no: it never waits forever for a
\* keeper that holds the lock (enter.rs held_instance, switch_taken).
LaunchEnds == \A l \in Launches :
                  lpc[l] = "asking" ~> lpc[l] \in {"running", "done"}

\* The zone is back as the one that carried the instance, in a new process.
CameBack == /\ why = "cut" /\ network # Offline /\ ~link.on /\ fp # NoFp
            /\ Up(network)
            /\ zone[network].fp = fp /\ zone[network].pid # zonePid
Settled == link.on \/ ~CameBack

\* A zone that comes back as the one that carried the instance is attached
\* again (keep's words, zone.rs 2496-2499), while no launch is entering and
\* nothing fails.
ReturnIsAttached ==
    [](sharers = {} /\ faults = 0) => (CameBack ~> Settled)

-----------------------------------------------------------------------------
(* What the repository's words say, and the code does not do. *)

\* "a zone that comes back as the one that carried it is attached again"
\* (zone.rs 2497): said with no exception for a launch on its way in.
ReturnIsAlwaysAttached == CameBack ~> Settled

\* "attaches again only after a new epoch that is whole" (zone.rs 3794): a new
\* epoch can be tried again, and fails only when something fails then.
NewEpochCanBeTriedAgain ==
    [][pc = "make" /\ pc' \notin {"make", "move"} => faults' # faults]_vars
=============================================================================
