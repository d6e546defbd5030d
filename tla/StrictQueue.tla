---------------------------- MODULE StrictQueue ----------------------------
(***************************************************************************)
(* The strict network of an instance (rust/src/netqueue.rs, netqueue/driver *)
(* .rs, strict_network.rs, strict_network/archive.rs, and the questions of  *)
(* netask.rs): every launch has a token before it runs, the kernel marks a  *)
(* packet with the token of the cgroup its socket was born in and holds it  *)
(* in a queue, and the instance's keeper gives each a verdict - by the      *)
(* rules, or by the person's answer - until the launch's network, the rules *)
(* or the queue itself change under the packets that wait.                  *)
(*                                                                          *)
(* The keeper is one thread: pc says where it is in a turn.  The kernel's   *)
(* queue, its netlink socket and nft's map are as the code uses them.  A    *)
(* packet's number here is its own for ever; the kernel's starts again with *)
(* each queue, and a ticket's session tells the queues apart.               *)
(***************************************************************************)
EXTENDS Naturals, Sequences, FiniteSets, Functions

CONSTANTS Launches, Programs,
          Program,        \* the program each launch is registered as
          FirstPolicy,    \* the rules at the start
          Capacity,       \* packets the kernel's queue holds
          MaxPending, MaxPerLaunch, MaxLaunches,   \* netqueue.rs 24-26
          MaxAcks,        \* 8 * MAX_PENDING
          MaxWorkers,     \* questions open at once: 8
          Round,          \* messages and tickets of one intake: 32
          FlushTime,      \* messages there is time for in a flush's 2 s
          Faults,         \* the kinds of failure there may be
          MaxPackets, MaxEvents    \* bounds: packets; changes and failures

ASSUME QueueAssumption ==
    /\ Program \in [Launches -> Programs]
    /\ FirstPolicy \in [Programs -> {"ask", "allow", "deny"}]
    /\ {Capacity, MaxPending, MaxPerLaunch, MaxLaunches, MaxAcks, MaxWorkers,
        Round, FlushTime} \subseteq Nat \ {0}
    /\ {MaxPackets, MaxEvents} \subseteq Nat
    /\ Faults \subseteq {"ack", "nft", "archive", "rule", "seal", "file"}

VARIABLES
    \* the world: programs, the person, the files
    life,       \* of each launch: new, in, gone
    policy,     \* the rules in the record
    ruled,      \* history: the programs rules allowed, by revision
    consent,    \* history: what the person said yes to
    \* the kernel
    kmap,       \* the tokens in nft's map
    pk,         \* the packets it queued
    inbox,      \* the netlink socket's messages, unread
    outbox,     \* verdicts sent, not applied yet
    \* Archive
    arch,       \* one row a token
    \* Session, Driver
    sess, epoch, revision,
    next,       \* next_token
    cache,      \* launches: the Launch of a token that is in memory
    armed, order, pend,
    ready,      \* held, not looked at yet
    acks,       \* the verdicts not acknowledged yet
    \* Asker
    round, waiting, open, queue, grants,
    workers,    \* question threads that run
    answers,    \* the channel of their answers
    \* Runtime
    rules, pending, failed,
    pc,         \* where the keeper is in a turn
    snap,       \* the rules the turn read
    decided, batch, decisions,
    left,       \* messages it will still read
    todo,       \* launches a renewal has still to register
    \* the keeper around it
    now, file, whole,
    changes, faults     \* bounded: edits, renewals and rotations; failures

worldVars  == <<life, policy, ruled, consent>>
kernelVars == <<kmap, pk, inbox, outbox>>
cacheVars  == <<next, cache, armed, order>>
driverVars == <<pend, ready, acks>>
askerVars  == <<round, waiting, open, queue, grants>>
turnVars   == <<snap, decided, batch, decisions, left, todo>>
outerVars  == <<now, file, whole>>
boundVars  == <<changes, faults>>
vars == <<worldVars, kernelVars, arch, sess, epoch, revision, cacheVars,
          driverVars, askerVars, workers, answers, rules, pending, failed, pc,
          turnVars, outerVars, boundVars>>

-----------------------------------------------------------------------------
(* What the operations are made of.                                         *)

Eventful == changes + faults < MaxEvents
Fault(kind) == kind \in Faults /\ Eventful /\ faults' = faults + 1
NoFault == UNCHANGED faults
Change == Eventful /\ changes' = changes + 1

Packets == DOMAIN pk
HeldByKernel == {p \in Packets : pk[p].st = "held"}
AtMost(m, n) == IF m < n THEN m ELSE n
\* The elements of s that are in S, in the order of s.
Those(s, S) ==
    LET those[n \in 0 .. Len(s)] ==
            IF n = 0 THEN <<>>
            ELSE IF s[n] \in S THEN Append(those[n - 1], s[n]) ELSE those[n - 1]
    IN  those[Len(s)]

\* Ticket::scope, of a ticket issued now for a token
Scope(t) == [session |-> sess, epoch |-> epoch, revision |-> revision, token |-> t]
Current(s) == s = Scope(s.token)
NoScope == [session |-> 0, epoch |-> 0, revision |-> 0, token |-> 0]
Said(s) == [epoch |-> s.epoch, revision |-> s.revision, token |-> s.token]

\* What rules allow, in a revision of the session.
AllowedAt(r, n) == {g \in Programs : r[g] = "allow"} \X {n}

\* Session::missing: issued, and not in memory.
Missing(t) == t # 0 /\ t < next /\ t \notin DOMAIN cache

(* Session::cache_room: tokens with packets pending go to the back, and the *)
(* first of the others is forgotten.                                        *)
Busy == {h.scope.token : h \in pend}
Idle == {i \in DOMAIN order : order[i] \notin Busy}
Full == Cardinality(DOMAIN cache) >= MaxLaunches
CacheRoom == Full => Idle # {}
Victim == CHOOSE i \in Idle : \A j \in Idle : i <= j
Kept == IF Full THEN DOMAIN cache \ {order[Victim]} ELSE DOMAIN cache
\* Mutant of KeptOrder: the one forgotten is not taken off the list.
KeptOrderWhole == order
KeptOrder == IF Full THEN SubSeq(order, Victim + 1, Len(order)) \o SubSeq(order, 1, Victim - 1)
                     ELSE order
CacheWith(t, launch) == [u \in Kept \cup {t} |-> IF u = t THEN launch ELSE cache[u]]

\* Session::hold, after the token was looked up: is the packet's launch one
\* that may ask, and is there room for it?
Authentic(t, c, a) == t \in DOMAIN c /\ t \in a /\ c[t].epoch = epoch
Quota(t) == /\ Cardinality(pend) < MaxPending
            /\ Cardinality({h \in pend : h.scope.token = t}) < MaxPerLaunch

\* Session::decide: a ticket that is pending, of now.
Fresh(h) == h \in pend /\ Current(h.scope)

Verdict(h, allow) == [packet |-> h.packet, allow |-> allow, scope |-> h.scope]
DropOf(p) == [packet |-> p, allow |-> FALSE, scope |-> NoScope]
\* Driver::send: there is room for the acknowledgements.
CanSend(vs) == Cardinality(acks) + Cardinality(vs) <= MaxAcks
Send(vs) == /\ outbox' = outbox \cup vs
            /\ acks' = acks \cup {v.packet : v \in vs}
\* Mutant of Acknowledged: sent is as good as done.
AcknowledgedAtOnce == TRUE
\* Driver::flush waits for this.
Acknowledged == acks = {}
\* ready.retain
Without(hs) == Those(ready, Range(ready) \ hs)

\* Asker::next: the first questions of the queue are opened, as many as may be.
Starting(q, o, w) ==
    LET busy == IF Cardinality(o) > Cardinality(w) THEN Cardinality(o) ELSE Cardinality(w)
    IN  IF busy >= MaxWorkers THEN 0 ELSE AtMost(Len(q), MaxWorkers - busy)
\* Mutant of Ask: those there is no thread for are not put back.
AskLoses(q, o, w) ==
    LET first == Range(SubSeq(q, 1, Starting(q, o, w)))
    IN  /\ queue' = <<>>
        /\ open' = o \cup first
        /\ workers' = w \cup {[round |-> round, scope |-> s] : s \in first}

Ask(q, o, w) ==
    LET n == Starting(q, o, w)
        first == Range(SubSeq(q, 1, n))
    IN  /\ queue' = SubSeq(q, n + 1, Len(q))
        /\ open' = o \cup first
        /\ workers' = w \cup {[round |-> round, scope |-> s] : s \in first}

\* Asker::cancel_all, but for the grants
CancelQuestions == /\ waiting' = {} /\ open' = {} /\ queue' = <<>>
                   /\ round' = round + 1
CancelAll == CancelQuestions /\ grants' = [s \in {} |-> TRUE]

\* Driver::close: the socket is gone, and the kernel drops what it held.
Close == /\ pend' = {} /\ ready' = <<>> /\ acks' = {}
         /\ inbox' = <<>> /\ outbox' = {}
         /\ pk' = [p \in Packets |-> IF pk[p].st = "held"
                                     THEN [pk[p] EXCEPT !.st = "dropped"] ELSE pk[p]]

\* Runtime::fail: the network is closed until the instance is started again.
Fail == /\ failed' = TRUE
        /\ CancelAll /\ Close
        /\ pending' = {}
        /\ pc' = "poll"
        /\ decided' = {} /\ batch' = <<>> /\ decisions' = {} /\ left' = 0 /\ todo' = <<>>
        /\ UNCHANGED <<policy, ruled, consent, kmap, arch, sess, epoch, revision, cacheVars,
                       workers, answers, rules, snap, now, file>>

-----------------------------------------------------------------------------
Init ==
    /\ life = [l \in Launches |-> "new"]
    /\ policy = FirstPolicy /\ rules = policy /\ snap = policy
    /\ ruled = AllowedAt(policy, 1)
    /\ consent = {}
    /\ kmap = {} /\ pk = <<>> /\ inbox = <<>> /\ outbox = {}
    /\ arch = <<>>
    /\ sess = 1 /\ epoch = 1 /\ revision = 1
    /\ next = 1 /\ cache = [t \in {} |-> {}] /\ armed = {} /\ order = <<>>
    /\ pend = {} /\ ready = <<>> /\ acks = {}
    /\ round = 0 /\ waiting = {} /\ open = {} /\ queue = <<>> /\ grants = [s \in {} |-> TRUE]
    /\ workers = {} /\ answers = {}
    /\ pending = {} /\ failed = FALSE
    /\ pc = "poll" /\ decided = {} /\ batch = <<>> /\ decisions = {} /\ left = 0 /\ todo = <<>>
    /\ now = 1 /\ file = 1 /\ whole = TRUE
    /\ changes = 0 /\ faults = 0

-----------------------------------------------------------------------------
(* The kernel.                                                              *)

(* A program of a registered launch sends: its socket's birth cgroup is in  *)
(* the map, so that the packet is queued and the collector told; a full     *)
(* queue drops it.                                                          *)
Offer(t) ==
    /\ t \in kmap /\ life[arch[t].launch] = "in" /\ ~failed
    /\ Len(pk) < MaxPackets
    /\ Cardinality(HeldByKernel) < Capacity
    /\ pk' = Append(pk, [token |-> t, st |-> "held", by |-> NoScope])
    /\ inbox' = Append(inbox, [kind |-> "packet", packet |-> Len(pk) + 1, ok |-> TRUE])
    /\ UNCHANGED <<worldVars, kmap, outbox, arch, sess, epoch, revision, cacheVars, driverVars,
                   askerVars, workers, answers, rules, pending, failed, pc, turnVars, outerVars,
                   boundVars>>

(* A verdict is applied and acknowledged; with an error, where the kernel    *)
(* has not the packet (any more).                                           *)
Apply(v) ==
    /\ v \in outbox
    /\ outbox' = outbox \ {v}
    /\ \E ok \in BOOLEAN :
         /\ IF ok = (pk[v.packet].st = "held") THEN NoFault ELSE ~ok /\ Fault("ack")
         /\ inbox' = Append(inbox, [kind |-> "ack", packet |-> v.packet, ok |-> ok])
         /\ pk' = IF pk[v.packet].st # "held" THEN pk
                  ELSE IF ok /\ v.allow
                  THEN [pk EXCEPT ![v.packet].st = "passed", ![v.packet].by = v.scope]
                  ELSE [pk EXCEPT ![v.packet].st = "dropped"]
    /\ UNCHANGED <<worldVars, kmap, arch, sess, epoch, revision, cacheVars, driverVars,
                   askerVars, workers, answers, rules, pending, failed, pc, turnVars, outerVars,
                   changes>>

-----------------------------------------------------------------------------
(* The world.                                                               *)

\* The person, or Nix, changes the rules.
Edit(g, r) ==
    /\ policy[g] # r /\ ~failed
    /\ Change
    /\ policy' = [policy EXCEPT ![g] = r]
    /\ ruled' = ruled \cup AllowedAt(policy', revision)
    /\ UNCHANGED <<life, consent, kernelVars, arch, sess, epoch, revision, cacheVars, driverVars,
                   askerVars, workers, answers, rules, pending, failed, pc, turnVars, outerVars,
                   faults>>

(* A question's thread ends with the person's answer, or closed.  One that   *)
(* was cancelled may have had its answer already.                           *)
Answer(w, a) ==
    /\ w \in workers /\ ~failed
    /\ workers' = workers \ {w}
    /\ answers' = answers \cup {[round |-> w.round, scope |-> w.scope, answer |-> a]}
    /\ consent' = IF a \in {"always", "now"} THEN consent \cup {Said(w.scope)} ELSE consent
    /\ UNCHANGED <<life, policy, ruled, kernelVars, arch, sess, epoch, revision, cacheVars,
                   driverVars, askerVars, rules, pending, failed, pc, turnVars, outerVars,
                   boundVars>>

\* The programs of a launch have ended.
Ends(l) ==
    /\ life[l] = "in" /\ ~failed
    /\ life' = [life EXCEPT ![l] = "gone"]
    /\ UNCHANGED <<policy, ruled, consent, kernelVars, arch, sess, epoch, revision, cacheVars,
                   driverVars, askerVars, workers, answers, rules, pending, failed, pc, turnVars,
                   outerVars, boundVars>>

-----------------------------------------------------------------------------
(* Messages of the queue's socket: Driver::messages, one at a time.         *)

HearAck ==
    LET m == Head(inbox) IN
    /\ m.kind = "ack" /\ m.ok /\ m.packet \in acks
    /\ acks' = acks \ {m.packet}
    /\ inbox' = Tail(inbox)
    /\ UNCHANGED <<kmap, pk, outbox, cacheVars, pend, ready>>

\* A packet's token, brought back from the archive where memory has lost it.
Restorable(t) == Missing(t) /\ t <= Len(arch) /\ arch[t].epoch = epoch

\* Mutant of Unwanted: not answered at all.
UnwantedIgnored(p) == UNCHANGED <<outbox, acks, pend, ready>>
\* Mutant of Unwanted: the acknowledgement of its drop is not counted on.
UnwantedUncounted(p) == outbox' = outbox \cup {DropOf(p)} /\ UNCHANGED <<acks, pend, ready>>

\* A packet that is not to be held is dropped.
Unwanted(p) == /\ CanSend({DropOf(p)})
               /\ Send({DropOf(p)})
               /\ UNCHANGED <<pend, ready>>

HearPacket ==
    LET m == Head(inbox)
        t == pk[m.packet].token
        back == Restorable(t)
        c == IF back THEN CacheWith(t, arch[t]) ELSE cache
        a == IF back THEN (armed \cap Kept) \cup {t} ELSE armed
        h == [packet |-> m.packet, scope |-> Scope(t), launch |-> c[t].launch]
    IN
    /\ m.kind = "packet"
    /\ back => CacheRoom
    /\ cache' = c /\ armed' = a
    /\ order' = IF back THEN Append(KeptOrder, t) ELSE order
    /\ inbox' = Tail(inbox)
    /\ IF Authentic(t, c, a) /\ Quota(t)
       THEN /\ pend' = pend \cup {h}
            /\ ready' = Append(ready, h)
            /\ UNCHANGED <<outbox, acks>>
       ELSE Unwanted(m.packet)
    /\ UNCHANGED <<kmap, pk, next>>

\* What closes the queue: an acknowledgement with an error or of nothing, and
\* a packet there is no room to look up or to answer.
Unheard ==
    LET m == Head(inbox) IN
    \/ m.kind = "ack" /\ ~(m.ok /\ m.packet \in acks)
    \/ /\ m.kind = "packet"
       /\ LET t == pk[m.packet].token IN
          \/ Restorable(t) /\ ~CacheRoom
          \/ /\ ~Quota(t) \/ ~(Authentic(t, cache, armed) \/ Restorable(t))
             /\ ~CanSend({DropOf(m.packet)})

Hear == /\ inbox # <<>> /\ left > 0 /\ ~Unheard
        /\ HearAck \/ HearPacket
        /\ left' = left - 1
        /\ NoFault

(* The queue is closed for one of: a message as above; two seconds gone in a *)
(* flush; an acknowledgement that is overdue and not among what came.       *)
Broken(flushing) ==
    /\ \/ inbox # <<>> /\ left > 0 /\ Unheard /\ NoFault
       \/ flushing /\ left = 0 /\ acks # {} /\ NoFault
       \/ inbox = <<>> /\ acks # {} /\ Fault("ack")
    /\ Fail

-----------------------------------------------------------------------------
(* A turn: Runtime::handle.                                                 *)

Idly == policy = rules /\ answers = {} /\ inbox = <<>> /\ ready = <<>>

\* The rules as the turn begins; nothing to do is left out.
Begin ==
    /\ pc = "poll" /\ ~failed /\ ~Idly
    /\ policy = rules
    /\ pc' = "answers"
    /\ UNCHANGED <<worldVars, kernelVars, arch, sess, epoch, revision, cacheVars, driverVars,
                   askerVars, workers, answers, rules, pending, failed, turnVars, outerVars,
                   boundVars>>

(* Driver::drop_tickets: the packets pending are dropped, and the drops     *)
(* flushed.                                                                 *)
DropPending ==
    /\ pend' = {} /\ ready' = <<>>
    /\ Send({DropOf(h.packet) : h \in pend})
    /\ left' = FlushTime

\* Rules that changed: the questions cancelled, a new revision.
ChangePolicy ==
    /\ pc = "poll" /\ ~failed
    /\ policy # rules
    /\ snap' = policy
    /\ CancelAll
    /\ pending' = {}
    /\ revision' = revision + 1
    /\ DropPending
    /\ pc' = "barrier"
    /\ ruled' = ruled \cup AllowedAt(policy, revision + 1)
    /\ UNCHANGED <<life, policy, consent, kmap, pk, inbox, arch, sess, epoch, cacheVars, workers, answers,
                   rules, failed, decided, batch, decisions, todo, outerVars, boundVars>>

Flushing == {"barrier", "telling", "draining"}

FlushOne ==
    /\ pc \in Flushing /\ ~Acknowledged
    /\ Hear
    /\ UNCHANGED <<worldVars, arch, sess, epoch, revision, askerVars, workers, answers, rules,
                   pending, failed, pc, snap, decided, batch, decisions, todo, outerVars,
                   changes>>

FlushBreaks ==
    /\ pc \in Flushing /\ ~Acknowledged
    /\ Broken(TRUE)
    /\ UNCHANGED <<life, whole, changes>>

\* Change_policy has returned: the rules are the new ones.
PolicyChanged ==
    /\ pc = "barrier" /\ Acknowledged
    /\ rules' = snap
    /\ left' = 0
    /\ pc' = "answers"
    /\ UNCHANGED <<worldVars, kernelVars, arch, sess, epoch, revision, cacheVars, driverVars,
                   askerVars, workers, answers, pending, failed, snap, decided, batch, decisions,
                   todo, outerVars, boundVars>>

(* Asker::answered, one answer: not one of a question that was cancelled.   *)
\* Mutant of Live: every answer counts.
LiveAlways(a) == TRUE
Live(a) == a.round = round /\ \E h \in waiting : h.scope = a.scope

\* Mutant of Refused: the rules as they were when the turn began.
RefusedBefore(g) == rules[g] = "deny"

\* The rules, read again, refuse what the question would allow.
Refused(g) == policy[g] = "deny"

Stale(a) ==
    /\ pc = "answers" /\ a \in answers /\ ~Live(a)
    /\ answers' = answers \ {a}
    /\ UNCHANGED <<worldVars, kernelVars, arch, sess, epoch, revision, cacheVars, driverVars,
                   askerVars, workers, rules, pending, failed, pc, turnVars, outerVars, boundVars>>

TakeAnswer(a) ==
    LET g == Program[arch[a.scope.token].launch]
        yes == a.answer \in {"always", "now"} /\ ~Refused(g)
        rule == a.answer = "deny" \/ (a.answer = "always" /\ ~Refused(g))
        mine == {h \in waiting : h.scope = a.scope}
    IN
    /\ pc = "answers" /\ a \in answers /\ Live(a)
    /\ answers' = answers \ {a}
    /\ \E written \in BOOLEAN :
         /\ IF rule THEN (written /\ NoFault) \/ (~written /\ Fault("rule"))
                    ELSE ~written /\ NoFault
         /\ LET verdict == yes /\ (a.answer = "always" => written)
                keep == ~written /\ ~Refused(g) /\ a.answer # "always"
            IN  /\ grants' = IF keep
                             THEN [s \in DOMAIN grants \cup {a.scope} |->
                                     IF s = a.scope THEN verdict ELSE grants[s]]
                             ELSE grants
                /\ decided' = decided \cup {[held |-> h, allow |-> verdict] : h \in mine}
         /\ policy' = IF written
                      THEN [policy EXCEPT ![g] = IF a.answer = "always" THEN "allow" ELSE "deny"]
                      ELSE policy
         /\ ruled' = ruled \cup AllowedAt(policy', revision)
    /\ waiting' = waiting \ mine
    /\ open' = open \ {a.scope}
    /\ UNCHANGED <<life, consent, kernelVars, arch, sess, epoch, revision, cacheVars, driverVars,
                   round, queue, workers, rules, pending, failed, pc, snap, batch, decisions,
                   left, todo, outerVars, changes>>

\* The channel is empty: the next questions, and the rules as they are now.
Answered ==
    /\ pc = "answers" /\ answers = {}
    /\ Ask(queue, open, workers)
    /\ snap' = policy
    /\ pc' = "verdicts"
    /\ UNCHANGED <<worldVars, kernelVars, arch, sess, epoch, revision, cacheVars, driverVars,
                   round, waiting, grants, answers, rules, pending, failed, decided, batch,
                   decisions, left, todo, outerVars, boundVars>>

\* One answered ticket: its verdict sent, and every acknowledgement waited for.
Tell(d) ==
    /\ pc = "verdicts" /\ d \in decided
    /\ LET v == Verdict(d.held, d.allow /\ snap[Program[d.held.launch]] # "deny") IN
       IF Fresh(d.held) /\ CanSend({v})
       THEN /\ Send({v})
            /\ decided' = decided \ {d}
            /\ pending' = pending \ {d.held}
            /\ pend' = pend \ {d.held}
            /\ ready' = Without({d.held})
            /\ left' = FlushTime
            /\ pc' = "telling"
            /\ UNCHANGED <<worldVars, kmap, pk, inbox, arch, sess, epoch, revision, cacheVars,
                           askerVars, workers, answers, rules, failed, snap, batch, decisions,
                           todo, outerVars, boundVars>>
       ELSE Fail /\ UNCHANGED <<life, whole, boundVars>>

Told ==
    /\ pc = "telling" /\ Acknowledged
    /\ left' = 0
    /\ pc' = "verdicts"
    /\ UNCHANGED <<worldVars, kernelVars, arch, sess, epoch, revision, cacheVars, driverVars,
                   askerVars, workers, answers, rules, pending, failed, snap, decided, batch,
                   decisions, todo, outerVars, boundVars>>

-----------------------------------------------------------------------------
(* The rest of the turn: Driver::receive_round and decide_round.            *)

StartIntake ==
    /\ pc = "verdicts" /\ decided = {}
    /\ left' = Round
    /\ pc' = "intake"
    /\ UNCHANGED <<worldVars, kernelVars, arch, sess, epoch, revision, cacheVars, driverVars,
                   askerVars, workers, answers, rules, pending, failed, snap, decided, batch,
                   decisions, todo, outerVars, boundVars>>

IntakeOne ==
    /\ pc = "intake" /\ Len(ready) < Round
    /\ Hear
    /\ UNCHANGED <<worldVars, arch, sess, epoch, revision, askerVars, workers, answers, rules,
                   pending, failed, pc, snap, decided, batch, decisions, todo, outerVars,
                   changes>>

IntakeBreaks ==
    /\ pc = "intake" /\ Len(ready) < Round
    /\ Broken(FALSE)
    /\ UNCHANGED <<life, whole, changes>>

EndIntake ==
    /\ pc = "intake"
    /\ inbox = <<>> \/ left = 0 \/ Len(ready) >= Round
    /\ LET n == AtMost(Len(ready), Round) IN
       /\ batch' = SubSeq(ready, 1, n)
       /\ ready' = SubSeq(ready, n + 1, Len(ready))
    /\ left' = 0
    /\ pc' = "asking"
    /\ UNCHANGED <<worldVars, kernelVars, arch, sess, epoch, revision, cacheVars, pend, acks,
                   askerVars, workers, answers, rules, pending, failed, snap, decided, decisions,
                   todo, outerVars, boundVars>>

Asked(s) == {h \in waiting : h.scope = s}
\* Asker::ask_held: too many wait already.
Crowded(h) == /\ h \notin waiting
              /\ Cardinality(waiting) >= MaxPending \/ Cardinality(Asked(h.scope)) >= MaxPerLaunch

\* Mutant of Granted: what was said of one launch holds for its program.
GrantedProgram(h) == {s \in DOMAIN grants : arch[s.token].launch \in
                        {l \in Launches : Program[l] = Program[h.launch]}}

\* Asker::ask_question: what the person said of this launch already.
Granted(h) == {s \in DOMAIN grants : s = h.scope}

Decided(h, allow) ==
    /\ decisions' = decisions \cup {[held |-> h, allow |-> allow]}
    /\ UNCHANGED <<waiting, open, queue, workers, pending>>

Wait(h) ==
    /\ pending' = pending \cup {h}
    /\ waiting' = waiting \cup {h}
    /\ IF Asked(h.scope) = {} THEN Ask(Append(queue, h.scope), open, workers)
                              ELSE UNCHANGED <<open, queue, workers>>
    /\ UNCHANGED decisions

(* One held packet: by the rules, by what was said of its launch, or it     *)
(* waits for the person.                                                    *)
Decide ==
    /\ pc = "asking" /\ batch # <<>>
    /\ batch' = Tail(batch)
    /\ LET h == Head(batch)
           r == snap[Program[h.launch]] IN
       IF r # "ask" THEN Decided(h, r = "allow")
       ELSE IF Granted(h) # {} THEN Decided(h, \E s \in Granted(h) : grants[s])
       ELSE IF Crowded(h) THEN Decided(h, FALSE)
       ELSE Wait(h)
    /\ UNCHANGED <<worldVars, kernelVars, arch, sess, epoch, revision, cacheVars, driverVars,
                   round, grants, answers, rules, failed, pc, snap, decided, left, todo, outerVars,
                   boundVars>>

\* The round's verdicts, not waited for; a ticket that is stale closes the queue.
DecideRound ==
    /\ pc = "asking" /\ batch = <<>>
    /\ LET hs == {d.held : d \in decisions}
           vs == {Verdict(d.held, d.allow) : d \in decisions} IN
       IF (\A h \in hs : Fresh(h)) /\ CanSend(vs)
       THEN /\ Send(vs)
            /\ pend' = pend \ hs
            /\ ready' = Without(hs)
            /\ decisions' = {}
            /\ snap' = rules    \* not looked at again before it is read anew
            /\ pc' = "poll"
            /\ UNCHANGED <<worldVars, kmap, pk, inbox, arch, sess, epoch, revision, cacheVars,
                           askerVars, workers, answers, rules, pending, failed, decided,
                           batch, left, todo, outerVars, boundVars>>
       ELSE Fail /\ UNCHANGED <<life, whole, boundVars>>

-----------------------------------------------------------------------------
(* Registration, renewal and the queue's rotation.                          *)

\* Driver::register and Archive::append: the next token, and its row.
Issuable == CacheRoom /\ next = Len(arch) + 1
Issue(l) ==
    /\ next' = next + 1
    /\ cache' = CacheWith(next, [launch |-> l, epoch |-> epoch])
    /\ arch' = Append(arch, [launch |-> l, epoch |-> now])

\* Runtime::register: token, row, rule, activation, as one for its caller.  No
\* room for it, and only the launch is refused.
Register(l) ==
    /\ pc = "poll" /\ ~failed
    /\ life[l] = "new"
    /\ IF Issuable
       THEN /\ Issue(l)
            /\ kmap' = kmap \cup {next}
            /\ armed' = (armed \cap Kept) \cup {next}
            /\ order' = Append(KeptOrder, next)
            /\ life' = [life EXCEPT ![l] = "in"]
            /\ UNCHANGED <<policy, ruled, consent, pk, inbox, outbox, sess, epoch, revision,
                           driverVars, askerVars, workers, answers, rules, pending, failed, pc,
                           turnVars, outerVars, boundVars>>
       ELSE /\ life' = [life EXCEPT ![l] = "gone"]
            /\ IF CacheRoom
               THEN Fail /\ UNCHANGED <<whole, boundVars>>
               ELSE UNCHANGED <<policy, ruled, consent, kernelVars, arch, sess, epoch, revision,
                                cacheVars, driverVars, askerVars, workers, answers, rules,
                                pending, failed, pc, turnVars, outerVars, boundVars>>

\* The archive's write or nft fails: the launch is refused, the network closed.
RegisterBreaks(l) ==
    /\ pc = "poll" /\ ~failed
    /\ life[l] = "new"
    /\ Fault("archive") \/ Fault("nft")
    /\ Fail
    /\ life' = [life EXCEPT ![l] = "gone"]
    /\ UNCHANGED <<whole, changes>>

(* Transport::renew, up to the strict network's part of it: a new epoch,    *)
(* whose note may not be written, and a seal, which may fail - and then the *)
(* strict network is not told.                                              *)
Renew ==
    /\ pc = "poll" /\ ~failed
    /\ Change
    /\ now' = now + 1
    /\ \/ file' = now + 1 /\ NoFault
       \/ file' = file /\ Fault("file")
    /\ whole' = FALSE
    /\ CancelAll
    /\ pending' = {}
    /\ epoch' = now + 1
    /\ DropPending
    /\ pc' = "draining"
    /\ UNCHANGED <<worldVars, kmap, pk, inbox, arch, sess, revision, cacheVars, workers, answers,
                   rules, failed, snap, decided, batch, decisions, todo>>

SealFails ==
    /\ pc = "poll" /\ ~failed
    /\ Change
    /\ now' = now + 1 /\ file' = now + 1
    /\ whole' = FALSE
    /\ Fault("seal")
    /\ UNCHANGED <<worldVars, kernelVars, arch, sess, epoch, revision, cacheVars, driverVars,
                   askerVars, workers, answers, rules, pending, failed, pc, turnVars>>

\* The rows to register again: of the epoch before, of launches that live.
Enlisted == Those(arch, {m \in Range(arch) : m.epoch + 1 = now /\ life[m.launch] = "in"})

Drained ==
    /\ pc = "draining" /\ Acknowledged
    /\ todo' = Enlisted
    /\ left' = 0
    /\ pc' = "enlisting"
    /\ UNCHANGED <<worldVars, kernelVars, arch, sess, epoch, revision, cacheVars, driverVars,
                   askerVars, workers, answers, rules, pending, failed, snap, decided, batch,
                   decisions, outerVars, boundVars>>

Enlist ==
    /\ pc = "enlisting" /\ todo # <<>>
    /\ IF Issuable
       THEN /\ Issue(Head(todo).launch)
            /\ armed' = armed \cap Kept
            /\ order' = KeptOrder
            /\ todo' = Tail(todo)
            /\ UNCHANGED <<worldVars, kernelVars, sess, epoch, revision, driverVars, askerVars,
                           workers, answers, rules, pending, failed, pc, snap, decided, batch,
                           decisions, left, outerVars, boundVars>>
       ELSE Fail /\ UNCHANGED <<life, whole, boundVars>>

\* The map is replaced as one, and then the tokens of this epoch armed.
NewMap == {t \in DOMAIN arch : arch[t].epoch = now}
Renewed ==
    /\ pc = "enlisting" /\ todo = <<>>
    /\ kmap' = NewMap
    /\ armed' = armed \cup NewMap
    /\ order' = order \o Those([i \in DOMAIN arch |-> i], NewMap \ armed)
    /\ whole' = TRUE
    /\ pc' = "poll"
    /\ UNCHANGED <<worldVars, pk, inbox, outbox, arch, sess, epoch, revision, next, cache,
                   driverVars, askerVars, workers, answers, rules, pending, failed, turnVars,
                   now, file, boundVars>>

RenewBreaks ==
    /\ pc = "enlisting"
    /\ Fault("archive") \/ Fault("nft")
    /\ Fail
    /\ UNCHANGED <<life, whole, changes>>

(* Runtime::rotate_queue: with the way out fenced, another queue, with the   *)
(* epoch its file has; what was said of a launch is kept, its memory is not. *)
\* Mutant of FirstToken: the last one issued is issued again.
FirstTokenIsLast == Len(arch)

\* Session::use_archive: a token is never issued twice.
FirstToken == Len(arch) + 1

Rebound == {s \in DOMAIN grants : s.session = sess}
Rotate ==
    /\ pc = "poll" /\ ~failed
    /\ Change
    /\ CancelQuestions
    /\ grants' = [s \in {[r EXCEPT !.session = sess + 1] : r \in Rebound}
                    |-> grants[[s EXCEPT !.session = sess]]]
    /\ pending' = {}
    /\ Close
    /\ sess' = sess + 1
    /\ epoch' = file
    /\ next' = FirstToken
    /\ cache' = [t \in {} |-> {}] /\ armed' = {} /\ order' = <<>>
    /\ UNCHANGED <<worldVars, kmap, arch, revision, workers, answers, rules, failed, pc, turnVars,
                   outerVars, faults>>

RotateBreaks ==
    /\ pc = "poll" /\ ~failed
    /\ Change
    /\ Fault("nft")
    /\ Fail
    /\ UNCHANGED <<life, whole>>

-----------------------------------------------------------------------------
Kernel == \/ \E t \in kmap : Offer(t)
          \/ \E v \in outbox : Apply(v)

World == \/ \E g \in Programs, r \in {"ask", "allow", "deny"} : Edit(g, r)
         \/ \E w \in workers, a \in {"always", "now", "deny", "closed"} : Answer(w, a)
         \/ \E l \in Launches : Ends(l)

Turn == \/ Begin \/ ChangePolicy \/ PolicyChanged
        \/ FlushOne \/ FlushBreaks
        \/ \E a \in answers : Stale(a) \/ TakeAnswer(a)
        \/ Answered \/ (\E d \in decided : Tell(d)) \/ Told
        \/ StartIntake \/ IntakeOne \/ IntakeBreaks \/ EndIntake
        \/ Decide \/ DecideRound

Keeper == \/ \E l \in Launches : Register(l) \/ RegisterBreaks(l)
          \/ Renew \/ SealFails \/ Drained \/ Enlist \/ Renewed \/ RenewBreaks
          \/ Rotate \/ RotateBreaks

Next == Kernel \/ World \/ Turn \/ Keeper

Spec == Init /\ [][Next]_vars

FairSpec == /\ Spec
            /\ WF_vars(Turn \/ Drained \/ Enlist \/ Renewed)
            /\ WF_vars(\E v \in outbox : Apply(v))
-----------------------------------------------------------------------------
(* What holds of it.                                                        *)

Tokens == Nat \ {0}
Scopes == [session : Nat, epoch : Nat, revision : Nat, token : Nat]
Tickets == [packet : Nat \ {0}, scope : Scopes, launch : Launches]
Rulings == [held : Tickets, allow : BOOLEAN]
Records == [launch : Launches, epoch : Nat]
Policies == [Programs -> {"ask", "allow", "deny"}]

(* Types: every variable has values the code's own could have.              *)
TypeOK ==
    /\ life \in [Launches -> {"new", "in", "gone"}]
    /\ policy \in Policies /\ rules \in Policies /\ snap \in Policies
    /\ ruled \subseteq Programs \X Nat
    /\ consent \subseteq [epoch : Nat, revision : Nat, token : Nat]
    /\ kmap \subseteq DOMAIN arch
    /\ pk \in Seq([token : DOMAIN arch, st : {"held", "passed", "dropped"}, by : Scopes])
    /\ inbox \in Seq([kind : {"packet", "ack"}, packet : Packets, ok : BOOLEAN])
    /\ outbox \subseteq [packet : Packets, allow : BOOLEAN, scope : Scopes]
    /\ arch \in Seq(Records)
    /\ {sess, epoch, revision, next, round, left, now, file} \subseteq Nat
    /\ DOMAIN cache \subseteq DOMAIN arch /\ \A t \in DOMAIN cache : cache[t] \in Records
    /\ armed \subseteq DOMAIN cache
    /\ order \in Seq(DOMAIN cache)
    /\ pend \subseteq Tickets /\ pending \subseteq Tickets /\ waiting \subseteq Tickets
    /\ ready \in Seq(Tickets) /\ batch \in Seq(Tickets)
    /\ acks \subseteq Packets
    /\ open \subseteq Scopes /\ queue \in Seq(Scopes)
    /\ DOMAIN grants \subseteq Scopes /\ \A s \in DOMAIN grants : grants[s] \in BOOLEAN
    /\ workers \subseteq [round : Nat, scope : Scopes]
    /\ answers \subseteq [round : Nat, scope : Scopes,
                          answer : {"always", "now", "deny", "closed"}]
    /\ decided \subseteq Rulings /\ decisions \subseteq Rulings
    /\ todo \in Seq(Records)
    /\ pc \in {"poll", "barrier", "answers", "verdicts", "telling", "intake", "asking",
               "draining", "enlisting"}
    /\ failed \in BOOLEAN /\ whole \in BOOLEAN
    /\ {changes, faults} \subseteq Nat

(* The session's promise (netqueue.rs 366-388, driver.rs 206-217): once the *)
(* policy or the epoch has changed, no acceptance decided before is on its  *)
(* way to the kernel - not even one sent and not acknowledged yet.          *)
NoStaleAccept ==
    \A v \in outbox : v.allow => Current(v.scope) \/ pc \in {"barrier", "draining"}

(* Every packet let out had the person's word for its own launch, in its own *)
(* epoch and revision, or rules that allowed its program in that revision: a *)
(* word or a rule of before a change of the rules lets nothing out after it. *)
PassesOnlyWithConsent ==
    \A p \in Packets : pk[p].st = "passed" =>
        \/ <<Program[arch[pk[p].token].launch], pk[p].by.revision>> \in ruled
        \/ Said([pk[p].by EXCEPT !.token = pk[p].token]) \in consent

(* The kernel holds no packet that nobody will answer: it is in the socket, *)
(* in the keeper's hands, before the person, or its verdict is on its way.  *)
(* What the session counts against a launch is exactly what is in hand, and *)
(* what waits for the person has a question.                                *)
InHand == Range(ready) \cup Range(batch) \cup {d.held : d \in decisions} \cup pending
Unread == {inbox[i].packet : i \in {j \in DOMAIN inbox : inbox[j].kind = "packet"}}
Sent == {v.packet : v \in outbox}
NothingStranded ==
    /\ HeldByKernel \subseteq Unread \cup Sent \cup {h.packet : h \in InHand}
    /\ pend = InHand
    /\ \A h \in pending : h \in waiting \/ \E d \in decided : d.held = h
    /\ \A h \in waiting : h.scope \in open \cup Range(queue)
    /\ \A s \in open : \/ \E w \in workers : w.scope = s /\ w.round = round
                       \/ \E a \in answers : a.scope = s /\ a.round = round

(* Without a failure of the kernel, of nft, of a disk, the network is not   *)
(* closed - no ticket goes stale, no acknowledgement comes out of turn or   *)
(* with an error, and tokens and archive stay in step through renewals and  *)
(* rotations - but where a size is reached: the launches memory has room    *)
(* for, each with packets that wait; the acknowledgements to come; the time *)
(* a flush has (driver.rs 258-335).                                         *)
SizeReached ==
    \/ ~CacheRoom
    \/ Cardinality(acks) >= MaxAcks
    \/ ~CanSend({Verdict(d.held, d.allow) : d \in decisions})
    \/ pc \in Flushing /\ left = 0 /\ acks # {}
ClosesOnlyBySize == [][~failed /\ failed' /\ faults' = 0 => SizeReached]_vars

(* docs/STRICT-NETWORK-OWNERSHIP.md: a renewal registers the new cgroups    *)
(* before the network is attached again.  A launch that lives and was       *)
(* registered keeps its way out: whenever the last renewal was carried      *)
(* through and the network is open, the kernel marks its packets with a     *)
(* token that the controller recognises, from memory or from the archive.   *)
LiveLaunchesKeepWay ==
    pc = "poll" /\ whole /\ ~failed =>
        \A l \in Launches : life[l] = "in" =>
            \E t \in kmap : /\ arch[t].launch = l
                            /\ IF t \in DOMAIN cache THEN Authentic(t, cache, armed)
                                                     ELSE Restorable(t)

\* Where nothing failed, so it is.
HealthyKeepsWay == faults = 0 => LiveLaunchesKeepWay

(* The controller writes a rule for an answer to a question of now only:    *)
(* one cancelled by a change of policy, epoch or queue writes nothing.      *)
ObsoleteAnswerWritesNothing ==
    [][policy' # policy /\ changes' = changes => \E a \in answers \ answers' : Current(a.scope)]_vars

(* A denial in the record is the person's to take back: the controller      *)
(* never turns it into anything else, whatever answers come late.           *)
DenialStands ==
    [][\A g \in Programs : policy[g] = "deny" /\ policy'[g] # "deny" => changes' # changes]_vars

(* Every packet the kernel holds gets a verdict, or waits for the person,   *)
(* or the network is closed.                                                *)
Settled(p) == p \in Packets => \/ pk[p].st # "held" \/ failed
                               \/ \E h \in waiting : h.packet = p
PacketSettles == \A p \in 1..MaxPackets : []<>Settled(p)
=============================================================================
