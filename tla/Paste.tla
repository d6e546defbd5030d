------------------------------- MODULE Paste -------------------------------
(***************************************************************************)
(* A copy in one container and a paste in another: the launches' Wayland   *)
(* proxies, which read what an application copies and announce it          *)
(* (rust/src/wl_frame/private_clipboard.rs), the broker they speak to over *)
(* two sockets each (ClipBroker; clip/src/broker_transport.rs,             *)
(* controller.rs), and the paste: its chord held back by the proxy         *)
(* (wl_frame/smart_paste.rs), its helper started by the launch's           *)
(* supervisor (wl_proxy.rs), the person's answer (focus/paste.rs), and the *)
(* chord played again.                                                     *)
(*                                                                         *)
(* The broker serves the two sockets of a proxy in any order, one request  *)
(* of each at a time.  Left out: PRIMARY, a proxy that lost a socket, the  *)
(* manager's own copies into an instance, reads that no paste asked for,   *)
(* the keyboard and the window a chord is bound to.                        *)
(***************************************************************************)
EXTENDS ClipBroker, Sequences

CONSTANTS Launches, InstanceOf, Kinds,
          MaxSelections, MaxPastes, MaxFaults      \* bounds

ASSUME PasteAssumption ==
    /\ InstanceOf \in [Launches -> Instances]
    /\ Kinds \subseteq {"user", "secret", "restored", "empty", "clear"}
    /\ {MaxSelections, MaxPastes, MaxFaults} \subseteq Nat
    /\ NoCopy \notin [n : 1 .. MaxSelections, by : Launches, kind : Kinds]

VARIABLES
    broker,
    up,             \* instances whose holder runs
    home,           \* instances of the real home: one container
    px,             \* of each launch, its proxy: private_clipboard::State
    pend,           \* of each launch, the paste held back: smart_paste::State
    helper,         \* of each paste, its helper
    made, asked, faults,
    \* history
    announced       \* of each selection, the epoch it was announced with

vars == <<broker, up, home, px, pend, helper, made, asked, faults, announced>>

Selections == 1 .. MaxSelections
Tickets    == 1 .. MaxPastes
Copies     == [n : Selections, by : Launches, kind : Kinds]

UserCopy(kind) == kind \in {"user", "secret", "empty"}
Readable(kind) == kind \in {"user", "secret", "restored"}

SameContainer(i, j) == i = j \/ {i, j} \subseteq home

-----------------------------------------------------------------------------
(* A proxy.  A request and its answer are one step, but where what comes   *)
(* between the two can be seen: the application's next selection before    *)
(* the answer to the copy told, and the next announcement, on the other    *)
(* socket, before the broker has taken in the clearing.                    *)

NoEpoch == [local |-> 0, epoch |-> 0]
NoTold  == [local |-> 0, ok |-> FALSE, revision |-> 0]

NewProxy == [alive    |-> TRUE,
             local    |-> 0,            \* the application's last selection
             changing |-> 0,            \* the same, until it is settled
             epochs   |-> NoEpoch,      \* what it was announced with
             begin    |-> NoCopy,       \* to be announced
             aborts   |-> {},           \* announced, to be taken back
             capture  |-> NoCopy,       \* being read, or waiting to be
             publish  |-> NoCopy,       \* read, to be told
             told     |-> NoTold,       \* the answer to what was told
             clear    |-> FALSE,        \* to be cleared
             clearing |-> 0,            \* the selection cleared with, under way
             refresh  |-> FALSE,
             changed  |-> FALSE,        \* the eventfd
             snap     |-> 0,            \* revision of what is offered
             reads    |-> <<>>]

\* private_clipboard::revision, where it says one
Settled(p) == p.changing = 0 /\ ~p.refresh

TakenBack(p) == IF p.epochs = NoEpoch THEN p.aborts ELSE p.aborts \cup {p.epochs.epoch}

\* private_clipboard::set: the application takes the selection, or clears it.
Selected(p, copy) ==
    [p EXCEPT !.local = copy.n,
              !.changing = IF copy.kind = "empty" THEN 0 ELSE copy.n,
              !.epochs = NoEpoch,
              !.aborts = TakenBack(p),
              !.begin = IF copy.kind = "clear" THEN NoCopy ELSE copy,
              !.capture = IF Readable(copy.kind) THEN copy ELSE NoCopy,
              !.publish = NoCopy,
              !.clear = copy.kind = "clear"]

\* What was announced of a selection that is not the one awaited is taken
\* back.
Begun(p, copy, epoch) ==
    IF p.changing = copy.n
    THEN [p EXCEPT !.begin = NoCopy, !.epochs = [local |-> copy.n, epoch |-> epoch]]
    ELSE [p EXCEPT !.begin = NoCopy, !.aborts = @ \cup {epoch}]

ReleaseLocal(p, local, failed) ==
    IF p.changing # local THEN p
    ELSE [p EXCEPT !.changing = 0,
                   !.epochs = NoEpoch,
                   !.aborts = IF failed /\ p.epochs.local = local THEN TakenBack(p) ELSE @]

MayPublish(p) == p.publish # NoCopy /\ p.epochs.local = p.publish.n

\* What the socket of the data is free for, in this order.
Free(p)      == p.told = NoTold /\ p.clearing = 0
MayTell(p)   == Free(p) /\ ~p.clear /\ MayPublish(p)
MayLook(p)   == Free(p) /\ ~p.clear /\ ~MayPublish(p) /\ p.refresh
MayRead(p)   == Free(p) /\ ~p.clear /\ ~MayPublish(p) /\ ~p.refresh /\ p.reads # <<>>

-----------------------------------------------------------------------------
NoPaste == [ticket |-> 0, confirmed |-> FALSE, revision |-> 0, copy |-> NoCopy]

Init ==
    /\ broker = NewBroker
    /\ up = Instances
    /\ home \in {{}, Instances}
    /\ px = [l \in Launches |-> NewProxy]
    /\ pend = [l \in Launches |-> NoPaste]
    /\ helper = [t \in Tickets |-> [phase |-> "none"]]
    /\ made = 0
    /\ asked = 0
    /\ faults = 0
    /\ announced = [n \in Selections |-> 0]

\* Mutant: the watchers are not told.
NoticedNone(proxies, b) == proxies

\* The watchers of an instance whose offer is another now are told.
Noticed(proxies, b) ==
    [l \in Launches |->
        IF proxies[l].alive /\ b.offers[InstanceOf[l]] # broker.offers[InstanceOf[l]]
        THEN [proxies[l] EXCEPT !.changed = TRUE] ELSE proxies[l]]

Fault == faults < MaxFaults /\ faults' = faults + 1

pasteVars == <<pend, helper, asked>>
copyVars  == <<up, home, made, announced>>

-----------------------------------------------------------------------------
(* Copies.                                                                 *)

Select(l, kind) ==
    /\ px[l].alive
    /\ made < MaxSelections
    /\ made' = made + 1
    /\ px' = [px EXCEPT ![l] = Selected(@, [n |-> made + 1, by |-> l, kind |-> kind])]
    /\ UNCHANGED <<broker, up, home, pasteVars, faults, announced>>

Announce(l) ==
    LET copy == px[l].begin
        b == BeginCapture(broker, InstanceOf[l], UserCopy(copy.kind))
    IN /\ copy # NoCopy
       /\ broker' = b
       /\ px' = [px EXCEPT ![l] = Begun(@, copy, b.next)]
       /\ announced' = [announced EXCEPT ![copy.n] = b.next]
       /\ UNCHANGED <<up, home, pasteVars, made, faults>>

TakeBack(l) ==
    \E epoch \in px[l].aborts :
        /\ broker' = AbortCapture(broker, InstanceOf[l], epoch)
        /\ px' = [px EXCEPT ![l].aborts = @ \ {epoch}]
        /\ UNCHANGED <<pasteVars, faults, copyVars>>

\* CaptureData::tick: all the formats there are have been read, or none.
Captured(l) ==
    /\ px[l].capture # NoCopy
    /\ \/ px' = [px EXCEPT ![l].publish = px[l].capture, ![l].capture = NoCopy]
       \/ px' = [px EXCEPT ![l] = ReleaseLocal([@ EXCEPT !.capture = NoCopy], @.capture.n, TRUE)]
    /\ UNCHANGED <<broker, pasteVars, faults, copyVars>>

Publish(l, fits) ==
    LET p == px[l]
        done == FinishCapture(broker, InstanceOf[l], p.epochs.epoch, p.publish, fits)
    IN /\ MayTell(p)
       /\ IF fits THEN UNCHANGED faults ELSE Fault
       /\ broker' = done.broker
       /\ px' = Noticed([px EXCEPT ![l].publish = NoCopy,
                                   ![l].told = [local |-> p.publish.n, ok |-> done.ok,
                                                revision |-> done.revision]], done.broker)
       /\ UNCHANGED <<pasteVars, copyVars>>

Answered(l) ==
    LET p == px[l]
        seen == [p EXCEPT !.told = NoTold, !.refresh = TRUE,
                          !.snap = IF p.told.ok THEN p.told.revision ELSE @]
    IN /\ p.told # NoTold
       /\ px' = [px EXCEPT ![l] = ReleaseLocal(seen, p.told.local, ~p.told.ok)]
       /\ UNCHANGED <<broker, pasteVars, faults, copyVars>>

ClearOffer(l) ==
    /\ Free(px[l]) /\ px[l].clear
    /\ px' = [px EXCEPT ![l].clear = FALSE, ![l].clearing = px[l].local]
    /\ UNCHANGED <<broker, pasteVars, faults, copyVars>>

Cleared(l) ==
    LET p == px[l]
        b == ClearSelection(broker, InstanceOf[l])
    IN /\ p.clearing # 0
       /\ broker' = b
       /\ px' = Noticed([px EXCEPT ![l] =
                    ReleaseLocal([p EXCEPT !.clearing = 0, !.snap = 0], p.clearing, FALSE)], b)
       /\ UNCHANGED <<pasteVars, faults, copyVars>>

Notice(l) ==
    /\ px[l].changed
    /\ px' = [px EXCEPT ![l].changed = FALSE, ![l].refresh = TRUE]
    /\ UNCHANGED <<broker, pasteVars, faults, copyVars>>

Look(l) ==
    /\ MayLook(px[l])
    /\ px' = [px EXCEPT ![l].refresh = FALSE,
                        ![l].snap = broker.offers[InstanceOf[l]].revision]
    /\ UNCHANGED <<broker, pasteVars, faults, copyVars>>

\* The application gets what is there at the revision, or nothing.
Got(l) == ReadOffer(broker, InstanceOf[l], Head(px[l].reads).revision)

ReadSelection(l) ==
    /\ MayRead(px[l])
    /\ px' = [px EXCEPT ![l].reads = Tail(@)]
    /\ UNCHANGED <<broker, pasteVars, faults, copyVars>>

\* CAPTURE_TIMEOUT passes for the oldest copy that is still waited for.
Waited == {e \in {broker.captures[i] : i \in Instances} \cup
                  (IF Reading(broker) THEN {broker.last.epoch} ELSE {}) :
             e > broker.late}

TimeOut ==
    /\ Waited # {}
    /\ Fault
    /\ broker' = [broker EXCEPT !.late = CHOOSE e \in Waited : \A d \in Waited : e <= d]
    /\ UNCHANGED <<px, pasteVars, copyVars>>

Ended == [NewProxy EXCEPT !.alive = FALSE]

LaunchEnds(l) ==
    /\ px[l].alive
    /\ Fault
    /\ px' = [px EXCEPT ![l] = Ended]
    /\ pend' = [pend EXCEPT ![l] = NoPaste]
    /\ UNCHANGED <<broker, helper, asked, copyVars>>

\* An instance ends with its launches; the controller notices at its next
\* round.
InstanceEnds(i) ==
    /\ i \in up
    /\ Fault
    /\ up' = up \ {i}
    /\ px' = [l \in Launches |-> IF InstanceOf[l] = i THEN Ended ELSE px[l]]
    /\ pend' = [l \in Launches |-> IF InstanceOf[l] = i THEN NoPaste ELSE pend[l]]
    /\ UNCHANGED <<broker, home, helper, asked, made, announced>>

Sweep(i) ==
    /\ i \in broker.live \ up
    /\ broker' = RemoveInstance(broker, i)
    /\ UNCHANGED <<px, pasteVars, faults, copyVars>>

-----------------------------------------------------------------------------
(* Pastes.                                                                 *)

Nothing == [ok |-> FALSE, revision |-> 0, copy |-> NoCopy]
Pasted(revision, copy) == [ok |-> TRUE, revision |-> revision, copy |-> copy]

Target(t) == InstanceOf[helper[t].launch]
Phase(t, phase) == helper[t].phase = phase
Running(t) == helper[t].phase \notin {"none", "dropped", "reaped"}

\* The person's chord: smart_paste::begin and request, and the supervisor's
\* start_unit, which starts none while another of the launch has not been
\* reaped, and says nothing of it.
AskPaste(l) ==
    LET t == asked + 1
    IN /\ px[l].alive
       /\ pend[l] = NoPaste
       /\ t \in Tickets
       /\ asked' = t
       /\ pend' = [pend EXCEPT ![l].ticket = t]
       /\ helper' = [helper EXCEPT ![t] =
                       IF \E u \in Tickets : Running(u) /\ helper[u].launch = l
                       THEN [phase |-> "dropped"]
                       ELSE [phase |-> "prepare", launch |-> l,
                             expected |-> IF Settled(px[l]) THEN px[l].snap ELSE 0]]
       /\ UNCHANGED <<broker, px, faults, copyVars>>

Tells(t, result) ==
    helper' = [helper EXCEPT ![t] = [phase |-> "tell", launch |-> @.launch, result |-> result]]

\* The controller's answer to P: only of holders that run.
Answer(t, expected) ==
    LET d == PreparePaste(broker, Target(t), expected)
    IN IF Target(t) \in up /\ (d.kind = "transfer" => d.source \in up) THEN d ELSE NoDecision

Commit(t, shown, allowSecret, fits, restored) ==
    LET done == CommitPaste(broker, Target(t), shown, allowSecret, fits)
    IN /\ IF fits /\ restored THEN UNCHANGED faults ELSE Fault
       /\ broker' = done.broker
       /\ px' = Noticed(px, done.broker)
       /\ Tells(t, IF done.ok /\ restored THEN Pasted(done.revision, shown.copy) ELSE Nothing)

Prepare(t) ==
    LET d == Answer(t, helper[t].expected)
    IN /\ Phase(t, "prepare")
       /\ \/ /\ d.kind = "stale"
             /\ Tells(t, Nothing)
             /\ UNCHANGED <<broker, px, faults>>
          \/ /\ d.kind = "current"
             /\ Tells(t, Pasted(d.target, d.copy))
             /\ UNCHANGED <<broker, px, faults>>
          \/ /\ d.kind = "transfer" /\ SameContainer(d.source, Target(t))
             /\ \E fits \in BOOLEAN : Commit(t, d, TRUE, fits, TRUE)
          \/ /\ d.kind = "transfer" /\ ~SameContainer(d.source, Target(t))
             /\ helper' = [helper EXCEPT ![t] =
                             [phase |-> "question", launch |-> @.launch, shown |-> d]]
             /\ UNCHANGED <<broker, px, faults>>
       /\ UNCHANGED <<pend, asked, copyVars>>

\* Ten seconds of waiting for the copy.
GiveUp(t) ==
    /\ Phase(t, "prepare")
    /\ Answer(t, helper[t].expected).kind = "pending"
    /\ Tells(t, Nothing)
    /\ UNCHANGED <<broker, px, pend, asked, faults, copyVars>>

\* The person's Enter; of a secret, it is asked once more.
AskSecret(t) ==
    /\ Phase(t, "question")
    /\ helper[t].shown.copy.kind = "secret"
    /\ helper' = [helper EXCEPT ![t].phase = "secret"]
    /\ UNCHANGED <<broker, px, pend, asked, faults, copyVars>>

Agreed(t) == \/ Phase(t, "question") /\ helper[t].shown.copy.kind # "secret"
             \/ Phase(t, "secret")

\* The last Enter, the controller's answer to J, and the window's focus given
\* back.
Confirm(t) ==
    LET shown == helper[t].shown
        good  == px[helper[t].launch].alive /\ Answer(t, shown.target).kind = "transfer"
    IN /\ Agreed(t)
       /\ \/ /\ good
             /\ \E fits, restored \in BOOLEAN :
                   Commit(t, shown, shown.copy.kind = "secret", fits, restored)
          \/ /\ ~good
             /\ Tells(t, Nothing)
             /\ UNCHANGED <<broker, px, faults>>
       /\ UNCHANGED <<pend, asked, copyVars>>

Refuse(t) ==
    /\ Phase(t, "question") \/ Phase(t, "secret")
    /\ Tells(t, Nothing)
    /\ UNCHANGED <<broker, px, pend, asked, faults, copyVars>>

\* The result goes to the launch: smart_paste::finish, of this paste only.
Tell(t) ==
    LET l == helper[t].launch
        r == helper[t].result
    IN /\ Phase(t, "tell")
       /\ helper' = [helper EXCEPT ![t] = [phase |-> "told", launch |-> l]]
       /\ pend' = CASE pend[l].ticket # t -> pend
                    [] pend[l].ticket = t /\ r.ok ->
                         [pend EXCEPT ![l] = [ticket |-> t, confirmed |-> TRUE,
                                              revision |-> r.revision, copy |-> r.copy]]
                    [] pend[l].ticket = t /\ ~r.ok -> [pend EXCEPT ![l] = NoPaste]
       /\ UNCHANGED <<broker, px, asked, faults, copyVars>>

\* systemd-run --wait has ended, and the supervisor has reaped it.
Reap(t) ==
    /\ Phase(t, "told")
    /\ helper' = [helper EXCEPT ![t] = [phase |-> "reaped"]]
    /\ UNCHANGED <<broker, px, pend, asked, faults, copyVars>>

\* smart_paste::tick: the chord is played on exactly the selection answered
\* for, given up on a later one, and on its time.  What the application reads for
\* it is what the proxy offers it then.
ReadsFor(l) ==
    IF px[l].snap = 0 THEN px[l].reads
    ELSE Append(px[l].reads, [revision |-> px[l].snap, copy |-> pend[l].copy])

\* Mutant of Press: on whichever selection there is.
Press_Any(l) ==
    /\ pend[l].confirmed /\ Settled(px[l])
    /\ pend' = [pend EXCEPT ![l] = NoPaste]
    /\ px' = [px EXCEPT ![l].reads = ReadsFor(l)]
    /\ UNCHANGED <<broker, helper, asked, faults, copyVars>>
Press(l) ==
    /\ pend[l].confirmed /\ Settled(px[l]) /\ px[l].snap = pend[l].revision
    /\ pend' = [pend EXCEPT ![l] = NoPaste]
    /\ px' = [px EXCEPT ![l].reads = ReadsFor(l)]
    /\ UNCHANGED <<broker, helper, asked, faults, copyVars>>

CancelPaste(l) ==
    LET p == pend[l]
    IN /\ p.confirmed /\ Settled(px[l]) /\ px[l].snap > p.revision
       /\ pend' = [pend EXCEPT ![l] = NoPaste]
       /\ UNCHANGED <<broker, px, helper, asked, faults, copyVars>>

\* Its time is over, or its keyboard or window is gone.
DropPaste(l) ==
    /\ pend[l] # NoPaste
    /\ pend' = [pend EXCEPT ![l] = NoPaste]
    /\ IF Phase(pend[l].ticket, "dropped") \/ pend[l].confirmed THEN UNCHANGED faults ELSE Fault
    /\ UNCHANGED <<broker, px, helper, asked, copyVars>>

-----------------------------------------------------------------------------
Next ==
    \/ \E l \in Launches :
          \/ \E kind \in Kinds : Select(l, kind)
          \/ Announce(l)
          \/ TakeBack(l)
          \/ Captured(l)
          \/ \E fits \in BOOLEAN : Publish(l, fits)
          \/ Answered(l)
          \/ ClearOffer(l)
          \/ Cleared(l)
          \/ Notice(l)
          \/ Look(l)
          \/ ReadSelection(l)
          \/ LaunchEnds(l)
          \/ AskPaste(l)
          \/ Press(l)
          \/ CancelPaste(l)
          \/ DropPaste(l)
    \/ \E i \in Instances : InstanceEnds(i) \/ Sweep(i)
    \/ TimeOut
    \/ \E t \in Tickets :
          \/ Prepare(t)
          \/ GiveUp(t)
          \/ AskSecret(t)
          \/ Confirm(t)
          \/ Refuse(t)
          \/ Tell(t)
          \/ Reap(t)

Spec == Init /\ [][Next]_vars

-----------------------------------------------------------------------------
\* The proxies of the launches that run, the broker and the pastes in step with
\* each other, and the values in their types.
TypeOK ==
    /\ broker.live \subseteq Instances
    /\ \A i \in Instances :
          /\ broker.offers[i].revision \in 0 .. broker.next
          /\ broker.offers[i].copy \in Copies \cup {NoCopy}
          /\ (broker.offers[i].revision = 0) <=> (broker.offers[i].copy = NoCopy)
          /\ broker.captures[i] \in 0 .. broker.next
          /\ broker.seen[i] \in 0 .. broker.last.epoch
    /\ up \subseteq broker.live
    /\ home \in {{}, Instances}
    /\ \A l \in Launches :
          /\ px[l].changing \in {0, px[l].local}
          /\ px[l].snap \in 0 .. broker.next
          /\ px[l].alive => InstanceOf[l] \in up
          /\ pend[l].ticket \in 0 .. asked

\* What is pasted with no question is the person's latest copy (paste.rs,
\* prepare_paste): wherever the broker answers that the instance's own
\* selection is the one, that was announced with the latest epoch or after it,
\* or was restored from a history, and taken in after that epoch.
PastesTheLatest ==
    \A i \in broker.live :
        LET copy == broker.offers[i].copy
        IN IsCurrent(broker, i) /\ copy # NoCopy =>
              \/ announced[copy.n] >= broker.last.epoch
              \/ copy.kind = "restored" /\ broker.offers[i].revision > broker.last.epoch

\* The latest copy, once pasted into another instance, stays good there
\* without a question, whatever becomes of where it was copied: cleared,
\* replaced by a selection that is not a copy, or the instance ended
\* (prepare_paste: a snapshot is independent of its source).
ImportStays ==
    \A i \in broker.live :
        LET copy == broker.offers[i].copy
        IN /\ copy # NoCopy /\ i # broker.last.source
           /\ announced[copy.n] = broker.last.epoch
           => IsCurrent(broker, i)

\* What a proxy offers its applications is what the broker holds, but while
\* something is on its way that will tell it: the instance's eventfd, a
\* refresh, or an answer (private_clipboard.rs tick, controller.rs tick).
SnapshotIsCurrent ==
    \A l \in Launches :
        LET p == px[l]
        IN p.alive /\ ~p.changed /\ ~p.refresh /\ Free(p)
           => p.snap = broker.offers[InstanceOf[l]].revision

\* What an application reads for a paste is the copy the paste was answered
\* with, or nothing: never one that came in its place after the answer or
\* after the chord (broker.rs read, smart_paste.rs tick).
ReadsWhatWasAnswered ==
    [][\A l \in Launches :
          px'[l].alive /\ px[l].reads # <<>> /\ px'[l].reads = Tail(px[l].reads)
          => Got(l) \in {NoCopy, Head(px[l].reads).copy}]_vars

\* A copy goes into another container only by the person's last Enter, for
\* exactly what was shown: that copy, in place of the selection the target
\* had then; the latest there is, of an instance that still runs; a secret
\* after the second question (focus/paste.rs run, controller.rs J, paste.rs
\* commit_paste).
OnlyConfirmed ==
    [][\A i \in Instances :
          LET copy == broker'.offers[i].copy
              from == InstanceOf[copy.by]
          IN copy # broker.offers[i].copy /\ copy # NoCopy /\ ~SameContainer(from, i)
             => /\ from \in up
                /\ announced[copy.n] = broker.last.epoch
                /\ \E t \in Tickets :
                      /\ Agreed(t)
                      /\ Target(t) = i
                      /\ helper[t].shown.copy = copy
                      /\ helper[t].shown.target = broker.offers[i].revision]_vars

\* An instance's offer gives way only to one announced after it: neither a
\* late capture nor an import brings an older one back (paste.rs
\* finish_capture, cancel_capture).
NoReorder ==
    [][\A i \in Instances :
          LET old == broker.offers[i].copy
              new == broker'.offers[i].copy
          IN old # NoCopy /\ new # NoCopy /\ old # new
             => announced[new.n] > announced[old.n]]_vars
=============================================================================
