------------------------------ MODULE FlowGate -----------------------------
(***************************************************************************)
(* The gate on a container instance's new flows (rust/src/relay.rs,        *)
(* verdicts.rs, flows.rs, owners.rs, netrules.rs, netask.rs; zone.rs       *)
(* heard_news, heard_answers).  The relay notes every frame in the flows'  *)
(* table and says so of a new flow; the keeper looks up whose it is,       *)
(* decides it by the container's rules or asks the person, writes the      *)
(* decision in a table the relay reads, and wakes the relay, which holds   *)
(* the outbound frames of a flow until then.                               *)
(*                                                                         *)
(* Relay and keeper are one thread each; they share the two tables, two    *)
(* pipes and nothing else, and their steps here are cut where the other's  *)
(* can fall between.  The record of rules is also edited by the person's   *)
(* tools, processes of their own.                                          *)
(*                                                                         *)
(* Left out: the frames the gate knows no flow of (class, always or never  *)
(* through), the strict controller's instances, which ask another way      *)
(* (StrictQueue), the container without isolation, Nix's lines, the        *)
(* keeper's end (its wake pipe hangs up, and nothing more is decided).     *)
(***************************************************************************)
EXTENDS Naturals, Sequences, FiniteSets, Functions, SequencesExt

CONSTANTS Keys,             \* flows, by their whole key
          Programs,         \* launch keys
          Forwarder,        \* of the flows, those that are DNS to the forwarder
          Blocked,          \* and those to a destination the record blocks
          None,             \* no key; no owner found
          FlowSlots,        \* flows::SLOTS
          Slots,            \* verdicts::SLOTS
          MaxHeld,          \* relay::MAX_HELD
          MaxFrames, MaxTime,
          MaxEvents         \* bounds: frames; seconds; edits of the record and
                            \* relays that end

ASSUME GateAssumption ==
    /\ None \notin Keys \cup Programs
    /\ Keys \cap Programs = {} /\ IsFiniteSet(Keys)
    /\ Forwarder \cup Blocked \subseteq Keys
    /\ {FlowSlots, Slots, MaxHeld} \subseteq Nat \ {0}
    /\ {MaxFrames, MaxTime, MaxEvents} \subseteq Nat

VARIABLES
    \* the relay
    rpc,            \* where it is: at a step, of a frame of a flow
    flows,          \* flows::Table: seconds each was seen first and last
    cached, held,   \* Gate::decided; Gate::held, as how many frames of each flow
    news, wake,     \* the pipes: a word to the keeper, a word from it
    \* the keeper
    kpc,            \* where it is
    known,          \* owners::Keeper::known
    slots, next,    \* verdicts::Table
    todo,           \* the decisions of this round still to write
    waiting, queue, open, session,      \* Asker
    ans,            \* the answer whose rule is being written
    \* the world
    rules,          \* the container's record
    owner,          \* whose each flow is
    now, frames, events,
    \* history
    right,          \* flows allowed by a rule or by the person's word
    went,           \* flows that have sent a frame
    pushed,         \* flows whose decision gave its slot to another's
    unheard,        \* flows whose news the keeper took and did not see
    said,           \* programs the person allowed for the instance's life
    loose,          \* flows that left the table while a frame was held
    raced           \* the record was edited while an answer was written
relayVars == <<rpc, flows, cached, held>>
askVars == <<waiting, queue, open, session>>
worldVars == <<rules, owner, now, frames, events>>
histVars == <<right, went, pushed, unheard, said, loose, raced>>
vars == <<relayVars, news, wake, kpc, known, slots, next, todo, askVars, ans,
          worldVars, histVars>>

Verdicts == {"allow", "deny"}
Questions == Keys \cup Programs
Idle == [at |-> "poll", key |-> None, out |-> FALSE]
Empty == [key |-> None, verdict |-> "none"]
NoAnswer == [q |-> None, answer |-> "none", refused |-> FALSE, allow |-> {}, deny |-> {}]

---------------------------------------------------------------------------
\* netrules: what the rules say of a program, None when none was found.
\* A flow of nobody's is never allowed where a program is denied.
Unknown ==
    IF rules.default = "allow" /\ rules.deny # {} THEN "deny" ELSE rules.default
Decide(who) ==
    CASE who = None -> Unknown
      [] who \in rules.deny -> "deny"
      [] who \in rules.allow \ rules.deny -> "allow"
      [] OTHER -> rules.default
OfFlow(k, who) ==
    CASE k \in Forwarder -> IF Decide(who) = "deny" THEN "deny" ELSE "allow"
      [] k \in Blocked \ Forwarder -> "deny"
      [] OTHER -> Decide(who)

\* netask: a flow of nobody's is a question of its own.
\* Mutant of QuestionOf: all of them are one.
QuestionOf_Shared(k, who) == IF who = None THEN CHOOSE q \in Keys : TRUE ELSE who
QuestionOf(k, who) == IF who = None THEN k ELSE who
ProgramOf(q) == IF q \in Programs THEN q ELSE None

\* Asker::next: each program's question is opened; of the flows of nobody's,
\* one at a time.
\* Mutant of Opened: none while any question is.
Opened_None(q, o) ==
    IF q = <<>> \/ o # {} THEN [queue |-> q, open |-> o]
    ELSE [queue |-> Tail(q), open |-> o \cup {Head(q)}]
Opened(q, o) ==
    IF q = <<>> \/ o \cap Keys # {} THEN [queue |-> q, open |-> o]
    ELSE [queue |-> Tail(q), open |-> o \cup {Head(q)}]

\* The flows some frame of which is held.
Holds == {k \in Keys : held[k] > 0}

\* What the table has of a flow, for either side.
Slot(k) == {i \in DOMAIN slots : slots[i].key = k}
Decided(k) == Slot(k) # {}
\* Gate::decision: what was read before, else the table's.
Decision(k) ==
    IF cached[k] # "none" THEN cached[k]
    ELSE IF Decided(k) THEN slots[CHOOSE i \in Slot(k) : TRUE].verdict
    ELSE "none"

\* The flows the keeper has not looked at, and what it keeps of those it has.
Seen(k) == <<k, flows[k].first>>
Fresh == {k \in DOMAIN flows : Seen(k) \notin known}
Remember(S) ==
    IF Cardinality(S) > 2 * FlowSlots THEN S \cap {Seen(k) : k \in DOMAIN flows} ELSE S

---------------------------------------------------------------------------
Init ==
    /\ rpc = Idle /\ flows = <<>> /\ held = [k \in Keys |-> 0]
    /\ cached = [k \in Keys |-> "none"]
    /\ news = FALSE /\ wake = FALSE
    /\ kpc = "poll" /\ known = {} /\ todo = {} /\ next = 0
    /\ slots = [i \in 0..(Slots - 1) |-> Empty]
    /\ waiting = [q \in Questions |-> {}]
    /\ queue = <<>> /\ open = {}
    /\ session = [p \in Programs |-> "none"]
    /\ ans = NoAnswer
    /\ rules \in [default : {"ask", "allow", "deny"}, allow : {{}}, deny : {{}}]
    /\ owner \in [Keys -> Programs]
    /\ now = 0 /\ frames = 0 /\ events = 0
    /\ right = {} /\ went = {} /\ pushed = {} /\ unheard = {} /\ said = {} /\ loose = {}
    /\ raced = FALSE

---------------------------------------------------------------------------
\* The relay.

\* A frame is read from the tap (out), or was taken by it: its flow's slot is
\* being written from here to Note.
Frame(k, out) ==
    /\ rpc = Idle /\ frames < MaxFrames
    /\ frames' = frames + 1
    /\ now' \in {now, now + 1} /\ now' <= MaxTime
    /\ rpc' = [at |-> "note", key |-> k, out |-> out]
    /\ UNCHANGED <<flows, cached, held, news, wake, kpc, known, slots, next, todo,
                   askVars, ans, rules, owner, events, histVars>>

\* slot_for: a flow's own slot, a free one, or that of one seen longest ago.
Victims ==
    IF Cardinality(DOMAIN flows) < FlowSlots THEN {None}
    ELSE {v \in DOMAIN flows : \A w \in DOMAIN flows : flows[v].last <= flows[w].last}

NoteKnown ==
    /\ rpc.at = "note" /\ rpc.key \in DOMAIN flows
    /\ flows' = [flows EXCEPT ![rpc.key].last = now]
    /\ rpc' = IF rpc.out THEN [rpc EXCEPT !.at = "gate"] ELSE Idle
    /\ UNCHANGED <<cached, held, news, wake, kpc, known, slots, next, todo,
                   askVars, ans, worldVars, histVars>>

\* Table::note of a new flow; take_evicted, Gate::forget.
\* Mutant of Forget: what was read of the flow is kept.
Forget_Keeps(v) == cached' = cached
Forget(v) == cached' = [k \in Keys |-> IF k = v THEN "none" ELSE cached[k]]
NoteNew ==
    /\ rpc.at = "note" /\ rpc.key \notin DOMAIN flows
    /\ \E v \in Victims :
         /\ flows' = [k \in (DOMAIN flows \ {v}) \cup {rpc.key} |->
                        IF k = rpc.key THEN [first |-> now, last |-> now] ELSE flows[k]]
         /\ Forget(v)
         /\ loose' = IF v \in Holds THEN loose \cup {v} ELSE loose \ {v}
    /\ LET k == rpc.key
           gone == ~Decided(k) /\ k \notin loose /\ \A d \in todo : d.key # k
       IN  /\ right' = IF gone THEN right \ {k} ELSE right
           /\ went' = IF gone THEN went \ {k} ELSE went
           /\ unheard' = unheard \ {k}
    /\ rpc' = [rpc EXCEPT !.at = "news"]
    /\ UNCHANGED <<held, news, wake, kpc, known, slots, next, todo,
                   askVars, ans, worldVars, pushed, said, raced>>

News ==
    /\ rpc.at = "news"
    /\ news' = TRUE
    /\ rpc' = IF rpc.out THEN [rpc EXCEPT !.at = "gate"] ELSE Idle
    /\ UNCHANGED <<flows, cached, held, wake, kpc, known, slots, next, todo,
                   askVars, ans, worldVars, histVars>>

\* Gate::outbound: the frame goes, is dropped, or is held while there is room.
\* Mutant of Room: one more than there is.
Room_OneMore == SumFunction(held) <= MaxHeld
Room == SumFunction(held) < MaxHeld
Gate ==
    /\ rpc.at = "gate"
    /\ LET k == rpc.key
           d == Decision(k)
       IN  /\ cached' = [cached EXCEPT ![k] = d]
           /\ held' = IF d = "none" /\ Room THEN [held EXCEPT ![k] = @ + 1] ELSE held
           /\ went' = IF d = "allow" THEN went \cup {k} ELSE went
    /\ rpc' = Idle
    /\ UNCHANGED <<flows, news, wake, kpc, known, slots, next, todo,
                   askVars, ans, worldVars, right, pushed, unheard, said, loose, raced>>

\* Gate::release: the wake pipe is read dry, then what is held decided again,
\* frame by frame; a decision put between two frames has its own wake.
Woken ==
    /\ rpc = Idle /\ wake
    /\ wake' = FALSE
    /\ rpc' = [Idle EXCEPT !.at = "release"]
    /\ UNCHANGED <<flows, cached, held, news, kpc, known, slots, next, todo,
                   askVars, ans, worldVars, histVars>>

Release ==
    /\ rpc.at = "release"
    /\ cached' = [k \in Keys |-> IF k \in Holds THEN Decision(k) ELSE cached[k]]
    /\ held' = [k \in Keys |-> IF Decision(k) = "none" THEN held[k] ELSE 0]
    /\ went' = went \cup {k \in Holds : Decision(k) = "allow"}
    /\ rpc' = Idle
    /\ UNCHANGED <<flows, news, wake, kpc, known, slots, next, todo,
                   askVars, ans, worldVars, right, pushed, unheard, said, loose, raced>>

\* The relay is killed, at any step, and another takes over the two tables:
\* a slot that was being written is emptied.
HalfWritten ==
    IF rpc.at # "note" THEN {}
    ELSE IF rpc.key \in DOMAIN flows THEN {rpc.key} ELSE Victims
Restart ==
    /\ events < MaxEvents
    /\ events' = events + 1
    /\ \E v \in HalfWritten \cup {None} :
         flows' = [k \in DOMAIN flows \ {v} |-> flows[k]]
    /\ unheard' = IF rpc.at = "news" /\ rpc.key \in Fresh
                  THEN unheard \cup {rpc.key} ELSE unheard
    /\ rpc' = Idle /\ held' = [k \in Keys |-> 0]
    /\ cached' = [k \in Keys |-> "none"]
    /\ loose' = {}
    /\ UNCHANGED <<news, wake, kpc, known, slots, next, todo, askVars, ans,
                   rules, owner, now, frames, right, went, pushed, said, raced>>

---------------------------------------------------------------------------
\* The keeper.

\* heard_news: the news pipe is read dry, then the table.
Hear ==
    /\ kpc = "poll" /\ news
    /\ news' = FALSE
    /\ kpc' = "scan"
    /\ UNCHANGED <<relayVars, wake, known, slots, next, todo, askVars, ans,
                   worldVars, histVars>>

\* The flows F, whose owners were found so: each decided by the rules or the
\* person's word on its program, or asked about.
LookAt(F, who) ==
    LET Rule(k) == OfFlow(k, who[k])
        Q(k) == QuestionOf(k, who[k])
        asked == {k \in F : Rule(k) = "ask"}
        byWord == {k \in asked : Q(k) \in Programs /\ session[Q(k)] # "none"}
        waits == asked \ byWord
        opens == {q \in {Q(k) : k \in waits} : waiting[q] = {}}
    IN  /\ known' = Remember(known \cup {Seen(k) : k \in F})
        /\ waiting' = [q \in Questions |-> waiting[q] \cup {k \in waits : Q(k) = q}]
        /\ \E s \in SetToSeqs(opens \cap Keys) :
             LET shown == Opened(queue \o s, open \cup (opens \cap Programs))
             IN  queue' = shown.queue /\ open' = shown.open
        /\ todo' = {[key |-> k, verdict |-> Rule(k)] : k \in F \ asked}
                     \cup {[key |-> k, verdict |-> session[Q(k)]] : k \in byWord}
        /\ right' = right \cup {k \in F : \/ Rule(k) = "allow"
                                          \/ (Rule(k) = "ask" /\ who[k] \in said)}

\* The new flows are looked at - found, the owners of some of them.  A slot
\* that is being written is given up on after some tries.
Scan ==
    /\ kpc = "scan"
    /\ \E skip \in SUBSET (IF rpc.at = "note" THEN {rpc.key} ELSE {}) :
       \E found \in SUBSET (Fresh \ skip) :
         /\ LookAt(Fresh \ skip,
                   [k \in Fresh \ skip |-> IF k \in found THEN owner[k] ELSE None])
         /\ unheard' = (unheard \ (Fresh \ skip)) \cup (skip \cap Fresh)
    /\ kpc' = IF todo' = {} THEN "poll" ELSE "put"
    /\ UNCHANGED <<relayVars, news, wake, slots, next, session, ans, worldVars,
                   went, pushed, said, loose, raced>>

\* decide: the relay is woken when its round is written.
\* Mutant of Woke: when all but the last is.
Woke_Early(rest) == wake \/ Cardinality(rest) = 1
Woke(rest) == wake \/ rest = {}

\* Table::put: the decision's own slot, or the oldest.  The wake is one step
\* with the round's last put: the relay may read that one before it is woken,
\* but not tell so.
Put ==
    /\ kpc = "put"
    /\ \E d \in todo :
         LET own == Slot(d.key)
             i == IF own # {} THEN CHOOSE j \in own : TRUE ELSE next
         IN  /\ slots' = [slots EXCEPT ![i] = d]
             /\ next' = IF own # {} THEN next ELSE (next + 1) % Slots
             /\ pushed' = (pushed \cup {slots[i].key}) \ {d.key, None}
             /\ todo' = todo \ {d}
    /\ wake' = Woke(todo')
    /\ kpc' = IF todo' = {} THEN "poll" ELSE "put"
    /\ UNCHANGED <<relayVars, news, known, askVars, ans, worldVars,
                   right, went, unheard, said, loose, raced>>

\* Asker::answered, from the rule's write on: the verdict of the flows that
\* waited, and what is kept of the answer for the instance's life.
Settle(a, written) ==
    LET yes == a.answer \in {"always", "now"} /\ ~a.refused
        verdict == IF yes /\ (a.answer = "always" => written) THEN "allow" ELSE "deny"
        shown == Opened(queue, open \ {a.q})
        meant == /\ a.answer \in {"always", "now"}
                 /\ raced \/ Decide(ProgramOf(a.q)) # "deny"
    IN  /\ todo' = {[key |-> k, verdict |-> verdict] : k \in waiting[a.q]}
        /\ waiting' = [waiting EXCEPT ![a.q] = {}]
        /\ queue' = shown.queue /\ open' = shown.open
        /\ session' = [p \in Programs |->
                         IF p = a.q /\ ~written /\ ~a.refused /\ a.answer # "always"
                         THEN verdict ELSE session[p]]
        /\ kpc' = "put"
        /\ ans' = NoAnswer
        /\ right' = IF ~meant THEN right
                    ELSE right \cup {k \in waiting[a.q] : a.q = k \/ a.q = owner[k]}
        /\ said' = IF meant /\ a.answer = "now" THEN said \cup ({a.q} \cap Programs) ELSE said
        /\ UNCHANGED <<relayVars, news, wake, known, slots, next, owner, now, frames,
                       events, went, pushed, unheard, loose, raced>>

\* Whether a question's program is refused now, whatever was so when it opened.
\* Mutant of Refused: the rules are not read again.
Refused_Unread(q) == FALSE
Refused(q) == Decide(ProgramOf(q)) = "deny"

\* The person answers: a rule is kept of "always" and of "deny", for a program.
\* The rules' load and write_line's read of the record are one step here.
Answer(q, answer) ==
    /\ kpc = "poll" /\ q \in open
    /\ answer = "always" => q \in Programs
    /\ LET a == [q |-> q, answer |-> answer, refused |-> Refused(q),
                 allow |-> rules.allow, deny |-> rules.deny]
       IN  IF q \in Programs /\ (answer = "deny" \/ (answer = "always" /\ ~a.refused))
           THEN /\ kpc' = "write"
                /\ ans' = a
                /\ UNCHANGED <<relayVars, news, wake, known, slots, next, todo,
                               askVars, worldVars, histVars>>
           ELSE Settle(a, FALSE) /\ UNCHANGED rules

\* netrules::write_line, from its read of the record on: the line of allowed
\* programs, then that of denied ones, each as it was read but for this one.
\* Either write may fail.
WriteLine ==
    /\ kpc = "write"
    /\ LET allow == (ans.allow \ {ans.q}) \cup (IF ans.answer = "always" THEN {ans.q} ELSE {})
           deny == (ans.deny \ {ans.q}) \cup (IF ans.answer = "deny" THEN {ans.q} ELSE {})
       IN  \/ /\ rules' = [rules EXCEPT !.allow = allow, !.deny = deny]
              /\ Settle(ans, TRUE)
           \/ /\ rules' \in {rules, [rules EXCEPT !.allow = allow]}
              /\ Settle(ans, FALSE)

---------------------------------------------------------------------------
\* The record is edited by another process: a program's line.
Edit ==
    /\ events < MaxEvents
    /\ events' = events + 1
    /\ \E p \in Programs, allow, deny \in BOOLEAN :
         /\ ~(allow /\ deny)
         /\ rules' = [rules EXCEPT !.allow = (@ \ {p}) \cup (IF allow THEN {p} ELSE {}),
                                  !.deny = (@ \ {p}) \cup (IF deny THEN {p} ELSE {})]
         /\ rules' # rules
    /\ raced' = (raced \/ kpc = "write")
    /\ UNCHANGED <<relayVars, news, wake, kpc, known, slots, next, todo, askVars, ans,
                   owner, now, frames, right, went, pushed, unheard, said, loose>>

Relay ==
    \/ \E k \in Keys, out \in BOOLEAN : Frame(k, out)
    \/ NoteKnown \/ NoteNew \/ News \/ Gate \/ Woken \/ Release
Keeper == Hear \/ Scan \/ Put \/ WriteLine
Person == \E q \in Questions, a \in {"always", "now", "deny", "closed"} : Answer(q, a)
Next == Relay \/ Restart \/ Keeper \/ Person \/ Edit

Spec == Init /\ [][Next]_vars

---------------------------------------------------------------------------
\* Every variable has its type; no more frames are held than there is room.
TypeOK ==
    /\ rpc \in [at : {"poll", "note", "news", "gate", "release"},
                key : Keys \cup {None}, out : BOOLEAN]
    /\ DOMAIN flows \subseteq Keys /\ Cardinality(DOMAIN flows) <= FlowSlots
    /\ \A k \in DOMAIN flows : flows[k] \in [first : 0..now, last : 0..now]
    /\ cached \in [Keys -> Verdicts \cup {"none"}]
    /\ held \in [Keys -> Nat] /\ SumFunction(held) <= MaxHeld
    /\ {news, wake, raced} \subseteq BOOLEAN
    /\ kpc \in {"poll", "scan", "put", "write"}
    /\ known \subseteq Keys \X (0..MaxTime)
    /\ slots \in [0..(Slots - 1) -> [key : Keys, verdict : Verdicts] \cup {Empty}]
    /\ next \in 0..(Slots - 1)
    /\ todo \subseteq [key : Keys, verdict : Verdicts]
    /\ waiting \in [Questions -> SUBSET Keys]
    /\ queue \in Seq(Keys) /\ open \subseteq Questions
    /\ session \in [Programs -> Verdicts \cup {"none"}]
    /\ ans \in [q : Programs \cup {None}, answer : {"always", "deny", "none"},
                refused : BOOLEAN, allow : SUBSET Programs, deny : SUBSET Programs]
    /\ rules \in [default : {"ask", "allow", "deny"}, allow : SUBSET Programs,
                  deny : SUBSET Programs]
    /\ owner \in [Keys -> Programs]
    /\ now \in 0..MaxTime /\ frames \in 0..MaxFrames /\ events \in 0..MaxEvents
    /\ UNION {right, went, pushed, unheard, loose} \subseteq Keys
    /\ said \subseteq Programs

\* No flow sends a frame but one allowed - by the rules when the keeper looked,
\* by the person's word on its program, or on that very flow where no program
\* was found -, and one that left both tables is allowed anew or sends nothing
\* (relay.rs 339-349, verdicts.rs 19-26, netask.rs 92-96).
Consented == went \subseteq right

\* A program on the record's deny lines leaves them by the person's edit alone:
\* never by an answer to a question that was open meanwhile (netask.rs 394-397),
\* unless the edit fell between the answer's read and its write.
Refusals == [][rules.deny \ rules'.deny # {} => events' # events \/ raced]_vars

\* When relay and keeper have nothing left to do, a frame held of a flow in the
\* table waits for the person - but for a flow whose decision another took the
\* slot of, and one whose news was taken and not seen.
NothingStranded ==
    (rpc = Idle /\ kpc = "poll" /\ ~news /\ ~wake)
    => \A k \in Holds \cap DOMAIN flows :
         k \in pushed \cup unheard \/ \E q \in open \cup Range(queue) : k \in waiting[q]

\* Whatever waits for the person is asked: each program's question is open, and
\* where flows of nobody's wait, exactly one of theirs is (netask.rs 287-301).
QuestionsShown ==
    LET asked == {q \in Questions : waiting[q] # {}}
    IN  /\ asked = open \cup Range(queue)
        /\ asked \cap Programs \subseteq open
        /\ asked \cap Keys # {} => Cardinality(open \cap Keys) = 1
=============================================================================
