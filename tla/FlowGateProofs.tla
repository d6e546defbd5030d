--------------------------- MODULE FlowGateProofs --------------------------
(***************************************************************************)
(* What holds of FlowGate for every set of flows and programs and every    *)
(* size of the tables: no flow sends but one allowed, no refusal is taken  *)
(* back by an answer, what waits for the person is asked, no held frame is *)
(* left behind, and no more are held than there is room for.               *)
(***************************************************************************)
EXTENDS FlowGate, SeqLemmas

---------------------------------------------------------------------------
\* The types the argument needs.
RulesType == [default : Verdicts \cup {"ask"}, allow : SUBSET Programs, deny : SUBSET Programs]
Shape ==
    /\ rpc \in [at : {"poll", "note", "news", "gate", "release"},
                key : Keys \cup {None}, out : BOOLEAN]
    /\ rpc.at \in {"note", "news", "gate"} => rpc.key \in Keys
    /\ rpc.at \in {"news", "gate"} => rpc.key \in DOMAIN flows
    /\ DOMAIN flows \subseteq Keys
    /\ cached \in [Keys -> Verdicts \cup {"none"}]
    /\ held \in [Keys -> Nat]
    /\ slots \in [0..(Slots - 1) -> [key : Keys \cup {None}, verdict : Verdicts \cup {"none"}]]
    /\ todo \subseteq [key : Keys, verdict : Verdicts]
    /\ waiting \in [Questions -> SUBSET Keys]
    /\ session \in [Programs -> Verdicts \cup {"none"}]
    /\ owner \in [Keys -> Programs]
    /\ rules \in RulesType
    /\ ans.allow \subseteq Programs /\ ans.deny \subseteq Programs
    /\ events \in Nat

\* Whatever says "allow" of a flow says it of one that is allowed.
Granted ==
    /\ \A k \in Keys : cached[k] = "allow" => k \in right
    /\ \A i \in DOMAIN slots : slots[i].verdict = "allow" => slots[i].key \in right
    /\ \A d \in todo : d.verdict = "allow" => d.key \in right
    /\ \A s \in Programs : session[s] = "allow" => s \in said

\* What the gate has of a flow, it has of one in the table - or of one that
\* left it while a frame was held.
Kept ==
    \A k \in Keys : cached[k] # "none" \/ held[k] > 0 => k \in DOMAIN flows \cup loose

\* A flow waits for its own program's answer, or for its own.
Asked == \A q \in Questions : \A k \in waiting[q] : q = k \/ q = owner[k]

\* While an answer's rule is written, the record is as the answer read it.
Writing ==
    kpc = "write" =>
        /\ ans.q \in Programs /\ ans.answer \in {"always", "deny"}
        /\ raced \/ /\ ans.deny = rules.deny
                    /\ ans.answer = "always" => Decide(ans.q) # "deny"

IInv == Shape /\ Granted /\ Kept /\ Asked /\ Writing /\ Consented

---------------------------------------------------------------------------
\* What the relay reads of a flow, the keeper or an earlier look put there.
LEMMA Reads ==
    ASSUME Shape, Granted, NEW k \in Keys
    PROVE  /\ Decision(k) \in Verdicts \cup {"none"}
           /\ Decision(k) = "allow" => k \in right
           /\ cached[k] # "none" => Decision(k) = cached[k]
<1>1. CASE cached[k] # "none"
  BY <1>1 DEF Shape, Granted, Decision
<1>2. CASE cached[k] = "none" /\ Slot(k) = {}
  BY <1>2 DEF Decision, Decided
<1>3. CASE cached[k] = "none" /\ Slot(k) # {}
  <2> DEFINE i == CHOOSE j \in Slot(k) : TRUE
  <2>1. i \in DOMAIN slots /\ slots[i].key = k
    BY <1>3 DEF Slot
  <2>2. slots[i].verdict \in Verdicts \cup {"none"}
    BY <2>1 DEF Shape
  <2>3. Decision(k) = slots[i].verdict
    BY <1>3 DEF Decision, Decided
  <2> QED
    BY <1>3, <2>1, <2>2, <2>3 DEF Granted
<1> QED
  BY <1>1, <1>2, <1>3

LEMMA InitIInv == Init => IInv
<1> SUFFICES ASSUME Init PROVE IInv
  OBVIOUS
<1>1. Shape
  BY GateAssumption DEF Init, Shape, Idle, Empty, Verdicts, RulesType, NoAnswer
<1>2. Granted
  BY DEF Init, Granted, Empty
<1>3. Kept
  BY DEF Init, Kept
<1>4. Asked
  BY DEF Init, Asked
<1>5. Writing /\ Consented
  BY DEF Init, Writing, Consented
<1> QED
  BY <1>1, <1>2, <1>3, <1>4, <1>5 DEF IInv

---------------------------------------------------------------------------
(* The relay's steps. *)
LEMMA FrameStep ==
    ASSUME IInv, NEW k \in Keys, NEW out \in BOOLEAN, Frame(k, out)
    PROVE  IInv'
<1> USE DEF IInv, Frame, askVars, histVars
<1>1. Shape'
  BY DEF Shape
<1>2. Granted'
  BY DEF Granted
<1>3. Kept' /\ Asked'
  BY DEF Kept, Asked
<1>4. Writing' /\ Consented'
  BY DEF Writing, Consented, Decide, Unknown
<1> QED
  BY <1>1, <1>2, <1>3, <1>4

LEMMA NoteKnownStep == ASSUME IInv, NoteKnown PROVE IInv'
<1> USE DEF IInv, NoteKnown, askVars, worldVars, histVars
<1>1. DOMAIN flows' = DOMAIN flows
  OBVIOUS
<1>2. Shape'
  BY <1>1 DEF Shape, Idle
<1>3. Granted'
  BY DEF Granted
<1>4. Kept' /\ Asked'
  BY <1>1 DEF Kept, Asked
<1>5. Writing' /\ Consented'
  BY DEF Writing, Consented, Decide, Unknown
<1> QED
  BY <1>2, <1>3, <1>4, <1>5

\* The step that takes an allowance back: what the gate had of the flow is
\* gone with its stay in the table, and nobody else says it is allowed.
LEMMA NoteNewStep == ASSUME IInv, NoteNew PROVE IInv'
<1> DEFINE k == rpc.key
<1>k. k \in Keys /\ k \notin DOMAIN flows
  BY DEF IInv, Shape, NoteNew
<1>v. PICK v : /\ DOMAIN flows' = (DOMAIN flows \ {v}) \cup {k}
               /\ Forget(v)
               /\ loose' = IF v \in Holds THEN loose \cup {v} ELSE loose \ {v}
  BY DEF NoteNew
<1>u. UNCHANGED <<held, slots, todo, waiting, session, ans, rules, owner, events,
                  kpc, said, raced>>
  BY DEF NoteNew, askVars, worldVars
<1>r. rpc' = [rpc EXCEPT !.at = "news"]
  BY DEF NoteNew
<1>g. /\ right' = right /\ went' = went
      \/ /\ right' = right \ {k} /\ went' = went \ {k}
         /\ Slot(k) = {} /\ k \notin loose /\ \A d \in todo : d.key # k
  BY DEF NoteNew, Decided
<1>c. cached' = [x \in Keys |-> IF x = v THEN "none" ELSE cached[x]]
  BY <1>v DEF Forget
<1>1. Shape'
  BY <1>k, <1>v, <1>u, <1>r, <1>c DEF IInv, Shape, Verdicts
<1>2. Granted'
  <2>1. CASE right' = right
    BY <2>1, <1>u, <1>c DEF IInv, Granted
  <2>2. CASE /\ right' = right \ {k} /\ Slot(k) = {} /\ k \notin loose
             /\ \A d \in todo : d.key # k
    <3>1. cached[k] = "none"
      BY <1>k, <2>2 DEF IInv, Kept, Shape
    <3>2. \A i \in DOMAIN slots : slots[i].key # k
      BY <2>2 DEF Slot
    <3> QED
      BY <2>2, <3>1, <3>2, <1>u, <1>c DEF IInv, Granted
  <2> QED
    BY <1>g, <2>1, <2>2
<1>3. Kept'
  <2> SUFFICES ASSUME NEW x \in Keys, cached'[x] # "none" \/ held[x] > 0
               PROVE  x \in DOMAIN flows' \cup loose'
    BY <1>u DEF Kept
  <2>1. x \in DOMAIN flows \cup loose
    BY <1>c DEF IInv, Kept
  <2>2. CASE x = v
    BY <2>2, <1>c, <1>v DEF Holds
  <2>3. CASE x # v
    BY <2>1, <2>3, <1>v
  <2> QED
    BY <2>2, <2>3
<1>4. Asked'
  BY <1>u DEF IInv, Asked
<1>5. Writing'
  BY <1>u DEF IInv, Writing, Decide, Unknown
<1>6. Consented'
  BY <1>g DEF IInv, Consented
<1> QED
  BY <1>1, <1>2, <1>3, <1>4, <1>5, <1>6 DEF IInv

LEMMA NewsStep == ASSUME IInv, News PROVE IInv'
<1> USE DEF IInv, News, askVars, worldVars, histVars
<1>1. Shape'
  BY DEF Shape, Idle
<1>2. Granted'
  BY DEF Granted
<1>3. Kept' /\ Asked'
  BY DEF Kept, Asked
<1>4. Writing' /\ Consented'
  BY DEF Writing, Consented, Decide, Unknown
<1> QED
  BY <1>1, <1>2, <1>3, <1>4

LEMMA GateStep == ASSUME IInv, Gate PROVE IInv'
<1> DEFINE k == rpc.key
           d == Decision(k)
<1>k. k \in Keys /\ k \in DOMAIN flows
  BY DEF IInv, Shape, Gate
<1>d. d \in Verdicts \cup {"none"} /\ (d = "allow" => k \in right)
  BY <1>k, Reads DEF IInv
<1>u. UNCHANGED <<flows, slots, todo, waiting, session, ans, rules, owner, events,
                  kpc, right, said, raced, loose>>
  BY DEF Gate, askVars, worldVars
<1>c. /\ rpc' = Idle
      /\ cached' = [cached EXCEPT ![k] = d]
      /\ held' = IF d = "none" /\ Room THEN [held EXCEPT ![k] = @ + 1] ELSE held
      /\ went' = IF d = "allow" THEN went \cup {k} ELSE went
  BY DEF Gate
<1>1. Shape'
  BY <1>k, <1>d, <1>u, <1>c DEF IInv, Shape, Idle
<1>2. Granted'
  BY <1>k, <1>d, <1>u, <1>c DEF IInv, Granted, Shape
<1>3. Kept'
  BY <1>k, <1>u, <1>c DEF IInv, Kept, Shape
<1>4. Asked'
  BY <1>u DEF IInv, Asked
<1>5. Writing'
  BY <1>u DEF IInv, Writing, Decide, Unknown
<1>6. Consented'
  BY <1>d, <1>u, <1>c DEF IInv, Consented
<1> QED
  BY <1>1, <1>2, <1>3, <1>4, <1>5, <1>6 DEF IInv

LEMMA WokenStep == ASSUME IInv, Woken PROVE IInv'
<1> USE DEF IInv, Woken, askVars, worldVars, histVars
<1>1. Shape'
  BY DEF Shape, Idle
<1>2. Granted'
  BY DEF Granted
<1>3. Kept' /\ Asked'
  BY DEF Kept, Asked
<1>4. Writing' /\ Consented'
  BY DEF Writing, Consented, Decide, Unknown
<1> QED
  BY <1>1, <1>2, <1>3, <1>4

LEMMA ReleaseStep == ASSUME IInv, Release PROVE IInv'
<1>d. \A k \in Keys : /\ Decision(k) \in Verdicts \cup {"none"}
                      /\ Decision(k) = "allow" => k \in right
  BY Reads DEF IInv
<1>u. UNCHANGED <<flows, slots, todo, waiting, session, ans, rules, owner, events,
                  kpc, right, said, raced, loose>>
  BY DEF Release, askVars, worldVars
<1>c. /\ rpc' = Idle
      /\ cached' = [k \in Keys |-> IF k \in Holds THEN Decision(k) ELSE cached[k]]
      /\ held' = [k \in Keys |-> IF Decision(k) = "none" THEN held[k] ELSE 0]
      /\ went' = went \cup {k \in Holds : Decision(k) = "allow"}
  BY DEF Release
<1>1. Shape'
  BY <1>d, <1>u, <1>c DEF IInv, Shape, Idle
<1>2. Granted'
  BY <1>d, <1>u, <1>c DEF IInv, Granted
<1>3. Kept'
  BY <1>u, <1>c DEF IInv, Kept, Shape, Holds
<1>4. Asked'
  BY <1>u DEF IInv, Asked
<1>5. Writing'
  BY <1>u DEF IInv, Writing, Decide, Unknown
<1>6. Consented'
  BY <1>d, <1>u, <1>c DEF IInv, Consented, Holds
<1> QED
  BY <1>1, <1>2, <1>3, <1>4, <1>5, <1>6 DEF IInv

LEMMA RestartStep == ASSUME IInv, Restart PROVE IInv'
<1>f. PICK v : flows' = [k \in DOMAIN flows \ {v} |-> flows[k]]
  BY DEF Restart
<1>u. UNCHANGED <<slots, todo, waiting, session, ans, rules, owner,
                  kpc, right, went, said, raced>>
  BY DEF Restart, askVars
<1>c. /\ rpc' = Idle
      /\ cached' = [k \in Keys |-> "none"]
      /\ held' = [k \in Keys |-> 0]
      /\ events' = events + 1
  BY DEF Restart
<1>1. Shape'
  BY <1>f, <1>u, <1>c DEF IInv, Shape, Idle
<1>2. Granted'
  BY <1>u, <1>c DEF IInv, Granted
<1>3. Kept'
  BY <1>c DEF Kept
<1>4. Asked'
  BY <1>u DEF IInv, Asked
<1>5. Writing'
  BY <1>u DEF IInv, Writing, Decide, Unknown
<1>6. Consented'
  BY <1>u DEF IInv, Consented
<1> QED
  BY <1>1, <1>2, <1>3, <1>4, <1>5, <1>6 DEF IInv
---------------------------------------------------------------------------
(* The keeper's and the person's. *)
LEMMA HearStep == ASSUME IInv, Hear PROVE IInv'
<1> USE DEF IInv, Hear, relayVars, askVars, worldVars, histVars
<1>1. Shape'
  BY DEF Shape
<1>2. Granted'
  BY DEF Granted
<1>3. Kept' /\ Asked'
  BY DEF Kept, Asked
<1>4. Writing' /\ Consented'
  BY DEF Writing, Consented
<1> QED
  BY <1>1, <1>2, <1>3, <1>4

\* A program's word decides only the flows that were found to be its own.
LEMMA ScanStep == ASSUME IInv, Scan PROVE IInv'
<1>p. PICK skip \in SUBSET (IF rpc.at = "note" THEN {rpc.key} ELSE {}) :
        \E found \in SUBSET (Fresh \ skip) :
          LookAt(Fresh \ skip,
                 [k \in Fresh \ skip |-> IF k \in found THEN owner[k] ELSE None])
  BY DEF Scan
<1> DEFINE F == Fresh \ skip
<1>l. PICK found \in SUBSET F :
        LookAt(F, [k \in F |-> IF k \in found THEN owner[k] ELSE None])
  BY <1>p
<1> DEFINE who == [k \in F |-> IF k \in found THEN owner[k] ELSE None]
           Rule(k) == OfFlow(k, who[k])
           Q(k) == QuestionOf(k, who[k])
           asked == {k \in F : Rule(k) = "ask"}
           byWord == {k \in asked : Q(k) \in Programs /\ session[Q(k)] # "none"}
           waits == asked \ byWord
<1>a. /\ waiting' = [q \in Questions |-> waiting[q] \cup {k \in waits : Q(k) = q}]
      /\ todo' = {[key |-> k, verdict |-> Rule(k)] : k \in F \ asked}
                   \cup {[key |-> k, verdict |-> session[Q(k)]] : k \in byWord}
      /\ right' = right \cup {k \in F : \/ Rule(k) = "allow"
                                        \/ (Rule(k) = "ask" /\ who[k] \in said)}
  BY <1>l DEF LookAt
<1>k. kpc' \in {"poll", "put"}
  BY DEF Scan
<1>u. UNCHANGED <<rpc, flows, cached, held, slots, session, owner, events, ans, rules,
                  went, said, loose, raced>>
  BY DEF Scan, relayVars, worldVars
<1>F. F \subseteq Keys
  BY DEF IInv, Shape, Fresh
<1>q. \A k \in F : /\ Q(k) = k \/ Q(k) = owner[k]
                   /\ Q(k) \in Programs => Q(k) = who[k]
  BY <1>F, GateAssumption DEF QuestionOf
<1>v. \A k \in F : Rule(k) \in Verdicts \cup {"ask"}
  <2>1. rules.default \in Verdicts \cup {"ask"}
    BY DEF IInv, Shape, RulesType
  <2> QED
    BY <2>1 DEF OfFlow, Decide, Unknown, Verdicts
<1>1. Shape'
  <2>1. todo' \subseteq [key : Keys, verdict : Verdicts]
    <3>1. \A k \in F \ asked : Rule(k) \in Verdicts
      BY <1>v
    <3>2. \A k \in byWord : session[Q(k)] \in Verdicts
      BY DEF IInv, Shape
    <3> HIDE DEF Rule, Q, asked, byWord, F
    <3>3. \A k \in byWord : k \in F
      BY DEF byWord, asked
    <3> QED
      BY <1>a, <1>F, <3>1, <3>2, <3>3
  <2>2. waiting' \in [Questions -> SUBSET Keys]
    BY <1>a, <1>F DEF IInv, Shape
  <2> QED
    BY <1>u, <2>1, <2>2 DEF IInv, Shape
<1>2. Granted'
  <2>1. right \subseteq right'
    BY <1>a
  <2>2. \A d \in todo' : d.verdict = "allow" => d.key \in right'
    <3> SUFFICES ASSUME NEW d \in todo', d.verdict = "allow" PROVE d.key \in right'
      OBVIOUS
    <3>1. CASE \E k \in F \ asked : d = [key |-> k, verdict |-> Rule(k)]
      <4>1. PICK k \in F \ asked : d = [key |-> k, verdict |-> Rule(k)]
        BY <3>1
      <4>2. d.key = k /\ Rule(k) = "allow"
        BY <4>1
      <4> QED
        BY <4>2, <1>a
    <3>2. CASE \E k \in byWord : d = [key |-> k, verdict |-> session[Q(k)]]
      <4>1. PICK k \in byWord : d = [key |-> k, verdict |-> session[Q(k)]]
        BY <3>2
      <4>2. d.key = k /\ session[Q(k)] = "allow"
        BY <4>1
      <4>3. k \in F /\ Rule(k) = "ask" /\ Q(k) \in Programs /\ Q(k) = who[k]
        BY <1>q
      <4>4. who[k] \in said
        BY <4>2, <4>3 DEF IInv, Granted
      <4> HIDE DEF Rule, who, F
      <4> QED
        BY <4>2, <4>3, <4>4, <1>a
    <3> HIDE DEF Rule, Q, asked, byWord, F
    <3> QED
      BY <1>a, <3>1, <3>2
  <2> QED
    BY <2>1, <2>2, <1>u DEF IInv, Granted
<1>3. Kept'
  BY <1>u DEF IInv, Kept
<1>4. Asked'
  BY <1>a, <1>u, <1>q DEF IInv, Asked
<1>5. Writing'
  BY <1>k DEF Writing
<1>6. Consented'
  BY <1>a, <1>u DEF IInv, Consented
<1> QED
  BY <1>1, <1>2, <1>3, <1>4, <1>5, <1>6 DEF IInv

LEMMA PutStep == ASSUME IInv, Put PROVE IInv'
<1>d. PICK d \in todo : \E i : /\ slots' = [slots EXCEPT ![i] = d]
                             /\ todo' = todo \ {d}
  BY DEF Put
<1>1. PICK i : /\ slots' = [slots EXCEPT ![i] = d]
               /\ todo' = todo \ {d}
  BY <1>d
<1>u. UNCHANGED <<rpc, flows, cached, held, waiting, session, owner, events, ans, rules,
                  right, went, said, loose, raced>>
  BY DEF Put, relayVars, askVars, worldVars
<1>k. kpc' \in {"poll", "put"}
  BY DEF Put
<1>2. Shape'
  BY <1>1, <1>u DEF IInv, Shape
<1>3. Granted'
  BY <1>1, <1>u DEF IInv, Granted, Shape
<1>4. Kept'
  BY <1>u DEF IInv, Kept
<1>5. Asked'
  BY <1>u DEF IInv, Asked
<1>6. Writing' /\ Consented'
  BY <1>u, <1>k DEF IInv, Writing, Consented
<1> QED
  BY <1>2, <1>3, <1>4, <1>5, <1>6 DEF IInv

\* An answer allows the flows that waited for it, when the person meant it.
LEMMA Settles ==
    ASSUME IInv, NEW a, NEW written, Settle(a, written), a.q \in Questions,
           rules' \in RulesType,
           a.refused \/ raced \/ a.answer \notin {"always", "now"}
               \/ Decide(ProgramOf(a.q)) # "deny"
    PROVE  IInv'
<1> DEFINE yes == a.answer \in {"always", "now"} /\ ~a.refused
           verdict == IF yes /\ (a.answer = "always" => written) THEN "allow" ELSE "deny"
           meant == /\ a.answer \in {"always", "now"}
                    /\ raced \/ Decide(ProgramOf(a.q)) # "deny"
<1>s. /\ todo' = {[key |-> k, verdict |-> verdict] : k \in waiting[a.q]}
      /\ waiting' = [waiting EXCEPT ![a.q] = {}]
      /\ session' = [p \in Programs |->
                       IF p = a.q /\ ~written /\ ~a.refused /\ a.answer # "always"
                       THEN verdict ELSE session[p]]
      /\ kpc' = "put"
      /\ right' = IF ~meant THEN right
                  ELSE right \cup {k \in waiting[a.q] : a.q = k \/ a.q = owner[k]}
      /\ said' = IF meant /\ a.answer = "now" THEN said \cup ({a.q} \cap Programs) ELSE said
  BY DEF Settle
<1>u. UNCHANGED <<rpc, flows, cached, held, slots, owner, events, went, loose, raced>>
  BY DEF Settle, relayVars
<1>m. verdict = "allow" => meant
  OBVIOUS
<1>w. waiting[a.q] \subseteq Keys /\ \A k \in waiting[a.q] : a.q = k \/ a.q = owner[k]
  BY DEF IInv, Shape, Asked
<1>v. verdict \in Verdicts
  BY DEF Verdicts
<1> HIDE DEF verdict, meant, yes
<1>a. ans' = NoAnswer
  BY DEF Settle
<1>1. Shape'
  BY <1>s, <1>u, <1>v, <1>w, <1>a DEF IInv, Shape, NoAnswer
<1>2. Granted'
  <2>1. right \subseteq right' /\ said \subseteq said'
    BY <1>s
  <2>2. \A d \in todo' : d.verdict = "allow" => d.key \in right'
    BY <1>s, <1>m, <1>w
  <2>3. \A p \in Programs : session'[p] = "allow" => p \in said'
    <3> SUFFICES ASSUME NEW p \in Programs, session'[p] = "allow" PROVE p \in said'
      OBVIOUS
    <3>1. CASE p = a.q /\ ~written /\ ~a.refused /\ a.answer # "always"
      <4>1. verdict = "allow"
        BY <3>1, <1>s
      <4>2. meant /\ a.answer = "now"
        BY <3>1, <4>1, <1>m DEF verdict, yes
      <4> QED
        BY <3>1, <4>2, <1>s
    <3>2. CASE ~(p = a.q /\ ~written /\ ~a.refused /\ a.answer # "always")
      BY <3>2, <1>s, <2>1 DEF IInv, Granted
    <3> QED
      BY <3>1, <3>2
  <2> QED
    BY <2>1, <2>2, <2>3, <1>u DEF IInv, Granted
<1>3. Kept'
  BY <1>u DEF IInv, Kept
<1>4. Asked'
  BY <1>s, <1>u DEF IInv, Asked, Shape
<1>5. Writing'
  BY <1>s DEF Writing
<1>6. Consented'
  BY <1>s, <1>u DEF IInv, Consented
<1> QED
  BY <1>1, <1>2, <1>3, <1>4, <1>5, <1>6 DEF IInv

LEMMA AnswerStep ==
    ASSUME IInv, NEW q \in Questions, NEW answer \in {"always", "now", "deny", "closed"},
           Answer(q, answer)
    PROVE  IInv'
<1> DEFINE a == [q |-> q, answer |-> answer, refused |-> Refused(q),
                 allow |-> rules.allow, deny |-> rules.deny]
<1>1. CASE q \in Programs /\ (answer = "deny" \/ (answer = "always" /\ ~a.refused))
  <2>1. /\ kpc' = "write" /\ ans' = a
        /\ UNCHANGED <<rpc, flows, cached, held, slots, todo, waiting, session, owner,
                       events, rules, right, went, said, loose, raced>>
    BY <1>1 DEF Answer, relayVars, askVars, worldVars, histVars
  <2>2. Shape'
    BY <2>1 DEF IInv, Shape, RulesType
  <2>3. Granted'
    BY <2>1 DEF IInv, Granted
  <2>4. Kept' /\ Asked' /\ Consented'
    BY <2>1 DEF IInv, Kept, Asked, Consented
  <2>5. Writing'
    BY <1>1, <2>1 DEF Writing, Refused, ProgramOf, Decide, Unknown
  <2> QED
    BY <2>2, <2>3, <2>4, <2>5 DEF IInv
<1>2. CASE ~(q \in Programs /\ (answer = "deny" \/ (answer = "always" /\ ~a.refused)))
  <2>1. Settle(a, FALSE) /\ rules' \in RulesType
    BY <1>2 DEF Answer, IInv, Shape
  <2>2. a.refused \/ Decide(ProgramOf(a.q)) # "deny"
    BY DEF Refused
  <2>3. a.q \in Questions
    OBVIOUS
  <2> HIDE DEF a
  <2> QED
    BY <2>1, <2>2, <2>3, Settles
<1> QED
  BY <1>1, <1>2

LEMMA WriteLineStep == ASSUME IInv, WriteLine PROVE IInv'
<1>0. rules' \in RulesType
  <2> DEFINE allow == (ans.allow \ {ans.q}) \cup (IF ans.answer = "always" THEN {ans.q} ELSE {})
             deny == (ans.deny \ {ans.q}) \cup (IF ans.answer = "deny" THEN {ans.q} ELSE {})
  <2>1. rules \in RulesType /\ allow \subseteq Programs /\ deny \subseteq Programs
    BY DEF IInv, Writing, WriteLine, Shape
  <2>2. \/ rules' = [rules EXCEPT !.allow = allow, !.deny = deny]
        \/ rules' = rules
        \/ rules' = [rules EXCEPT !.allow = allow]
    BY DEF WriteLine
  <2> QED
    BY <2>1, <2>2 DEF RulesType
<1>1. \E written \in BOOLEAN : Settle(ans, written)
  BY DEF WriteLine
<1>2. PICK written \in BOOLEAN : Settle(ans, written)
  BY <1>1
<1>3. /\ ans.q \in Programs /\ ans.answer \in {"always", "deny"}
      /\ raced \/ (ans.answer = "always" => Decide(ans.q) # "deny")
  BY DEF IInv, Writing, WriteLine
<1>4. ans.q \in Questions /\ ProgramOf(ans.q) = ans.q
  BY <1>3 DEF Questions, ProgramOf
<1> QED
  BY <1>0, <1>2, <1>3, <1>4, Settles

LEMMA EditStep == ASSUME IInv, Edit PROVE IInv'
<1>1. /\ events' = events + 1
      /\ raced' = (raced \/ kpc = "write")
      /\ UNCHANGED <<rpc, flows, cached, held, slots, todo, waiting, session, owner,
                     kpc, ans, right, went, said, loose>>
  BY DEF Edit, relayVars, askVars
<1>r. rules' \in RulesType
  <2>1. PICK p \in Programs, allow \in BOOLEAN, deny \in BOOLEAN :
          rules' = [rules EXCEPT !.allow = (@ \ {p}) \cup (IF allow THEN {p} ELSE {}),
                                 !.deny = (@ \ {p}) \cup (IF deny THEN {p} ELSE {})]
    BY DEF Edit
  <2> QED
    BY <2>1 DEF IInv, Shape, RulesType
<1>2. Shape'
  BY <1>1, <1>r DEF IInv, Shape
<1>3. Granted'
  BY <1>1 DEF IInv, Granted
<1>4. Kept' /\ Asked' /\ Consented'
  BY <1>1 DEF IInv, Kept, Asked, Consented
<1>5. Writing'
  BY <1>1 DEF IInv, Writing
<1> QED
  BY <1>2, <1>3, <1>4, <1>5 DEF IInv

---------------------------------------------------------------------------
LEMMA StepIInv == IInv /\ [Next]_vars => IInv'
<1> SUFFICES ASSUME IInv, [Next]_vars PROVE IInv'
  OBVIOUS
<1>1. CASE Relay
  BY <1>1, FrameStep, NoteKnownStep, NoteNewStep, NewsStep, GateStep, WokenStep,
     ReleaseStep DEF Relay
<1>2. CASE Restart
  BY <1>2, RestartStep
<1>3. CASE Keeper
  BY <1>3, HearStep, ScanStep, PutStep, WriteLineStep DEF Keeper
<1>4. CASE Person
  BY <1>4, AnswerStep DEF Person
<1>5. CASE Edit
  BY <1>5, EditStep
<1>6. CASE UNCHANGED vars
  <2> USE <1>6 DEF vars, relayVars, askVars, worldVars, histVars, IInv
  <2>1. Shape' /\ Granted'
    BY DEF Shape, Granted
  <2>2. Kept' /\ Asked' /\ Consented'
    BY DEF Kept, Asked, Consented
  <2>3. Writing'
    BY DEF Writing, Decide, Unknown
  <2> QED
    BY <2>1, <2>2, <2>3
<1> QED
  BY <1>1, <1>2, <1>3, <1>4, <1>5, <1>6 DEF Next

\* No flow sends a frame but one that a rule or the person's word allowed, to
\* its own program or to it alone - whatever the sizes of the tables, the
\* evictions, the relays that end and the edits of the record.
THEOREM ConsentedAlways == Spec => []Consented
<1>1. IInv => Consented
  BY DEF IInv
<1> QED
  BY InitIInv, StepIInv, <1>1, PTL DEF Spec

\* A refusal leaves the record's deny lines by an edit alone, unless one fell
\* into an answer's write.
LEMMA RefusalsStep ==
    ASSUME IInv, [Next]_vars
    PROVE  rules.deny \ rules'.deny # {} => events' # events \/ raced
<1>1. CASE Edit
  BY <1>1 DEF Edit, IInv, Shape
<1>2. CASE WriteLine
  <2>1. /\ ans.q \in Programs /\ ans.answer \in {"always", "deny"}
        /\ raced \/ /\ ans.deny = rules.deny
                    /\ ans.answer = "always" => Decide(ans.q) # "deny"
    BY <1>2 DEF IInv, Writing, WriteLine
  <2>2. ans.q \in rules.deny /\ ans.q # None => Decide(ans.q) = "deny"
    BY DEF Decide
  <2>3. ans.q # None
    BY <2>1, GateAssumption
  <2>4. rules'.deny = rules.deny
          \/ rules'.deny = (ans.deny \ {ans.q}) \cup (IF ans.answer = "deny" THEN {ans.q} ELSE {})
    BY <1>2 DEF WriteLine, IInv, Shape, RulesType
  <2> QED
    BY <2>1, <2>2, <2>3, <2>4
<1>3. CASE UNCHANGED rules
  BY <1>3
<1>4. Next /\ ~Edit /\ ~WriteLine => UNCHANGED rules
  BY DEF Next, Relay, Keeper, Person, Frame, NoteKnown, NoteNew, News, Gate, Woken, Release,
     Restart, Hear, Scan, Put, Answer, worldVars
<1>5. UNCHANGED vars => UNCHANGED rules
  BY DEF vars, worldVars
<1> QED
  BY <1>1, <1>2, <1>3, <1>4, <1>5

\* What the person refused stays refused whoever answers what in the meantime.
THEOREM RefusalsStay == Spec => Refusals
<1>1. IInv /\ [Next]_vars
      => [rules.deny \ rules'.deny # {} => events' # events \/ raced]_vars
  BY RefusalsStep
<1> QED
  BY InitIInv, StepIInv, <1>1, PTL DEF Spec, Refusals

---------------------------------------------------------------------------
(* What is shown to the person.                                            *)

\* A set put in order is a sequence of its elements, each once.
LEMMA Arranged ==
    ASSUME NEW S, IsFiniteSet(S), NEW s \in SetToSeqs(S)
    PROVE  s \in Seq(S) /\ Range(s) = S /\ Once(s)
<1> DEFINE n == Cardinality(S)
<1>1. n \in Nat /\ IsFiniteSet(1..n) /\ Cardinality(1..n) = n
  BY FS_CardinalityType, FS_Interval
<1>2. s \in [1..n -> S] /\ \A i, j \in 1..n : i # j => s[i] # s[j]
  BY DEF SetToSeqs
<1> HIDE DEF n
<1>3. s \in Seq(S) /\ Once(s)
  BY <1>1, <1>2, SeqDef DEF Once
<1>4. s \in Injection(1..n, S)
  BY <1>2 DEF Injection, IsInjective
<1>5. s \in Surjection(1..n, S)
  BY <1>1, <1>4, FS_Injection DEF n
<1>6. Range(s) = S
  BY <1>2, <1>5 DEF Surjection, Range
<1> QED
  BY <1>3, <1>6

\* A queue of flows of nobody's behind the one that is open, and what is open.
InTurn(q, o) ==
    /\ q \in Seq(Keys) /\ Once(q)
    /\ o \subseteq Questions /\ o \cap Range(q) = {}
    /\ \A a, b \in o \cap Keys : a = b

\* The next is opened when no other of its kind is, and nothing is lost.
LEMMA Opening ==
    ASSUME NEW q, NEW o, InTurn(q, o)
    PROVE  LET r == Opened(q, o)
           IN  /\ InTurn(r.queue, r.open)
               /\ r.open \cup Range(r.queue) = o \cup Range(q)
               /\ r.open \cap Keys = {} => r.queue = <<>>
<1>1. CASE q = <<>> \/ o \cap Keys # {}
  BY <1>1 DEF Opened
<1>2. CASE q # <<>> /\ o \cap Keys = {}
  <2>1. /\ Head(q) \in Keys /\ Tail(q) \in Seq(Keys)
        /\ Range(q) = {Head(q)} \cup Range(Tail(q))
        /\ Once(Tail(q)) /\ Head(q) \notin Range(Tail(q))
    BY <1>2, OfTail DEF InTurn
  <2>2. Opened(q, o) = [queue |-> Tail(q), open |-> o \cup {Head(q)}]
    BY <1>2 DEF Opened
  <2>3. InTurn(Tail(q), o \cup {Head(q)})
    BY <1>2, <2>1 DEF InTurn, Questions
  <2>4. (o \cup {Head(q)}) \cap Keys # {}
    BY <2>1
  <2> QED
    BY <2>1, <2>2, <2>3, <2>4
<1> QED
  BY <1>1, <1>2

\* The questions somebody waits for are those open and those queued, and an
\* answer being written is to one that is open.
WaitedFor == {q \in Questions : waiting[q] # {}}
Shown ==
    /\ InTurn(queue, open)
    /\ open \cap Keys = {} => queue = <<>>
    /\ WaitedFor = open \cup Range(queue)
    /\ kpc = "write" => ans.q \in open

\* The table of flows, and what the keeper keeps of those it has looked at.
Table ==
    /\ \A k \in DOMAIN flows : flows[k] \in [first : 0..now, last : 0..now]
    /\ IsFiniteSet(DOMAIN flows) /\ Cardinality(DOMAIN flows) <= FlowSlots
    /\ known \subseteq Keys \X (0..MaxTime)
    /\ now \in 0..MaxTime

\* A round of new flows leaves what is shown in order.
LEMMA ScanShown == ASSUME IInv, Table, Shown, Scan PROVE Shown'
<1>p. PICK skip \in SUBSET (IF rpc.at = "note" THEN {rpc.key} ELSE {}) :
        \E found \in SUBSET (Fresh \ skip) :
          LookAt(Fresh \ skip,
                 [k \in Fresh \ skip |-> IF k \in found THEN owner[k] ELSE None])
  BY DEF Scan
<1> DEFINE F == Fresh \ skip
<1>l. PICK found \in SUBSET F :
        LookAt(F, [k \in F |-> IF k \in found THEN owner[k] ELSE None])
  BY <1>p
<1> DEFINE who == [k \in F |-> IF k \in found THEN owner[k] ELSE None]
           Rule(k) == OfFlow(k, who[k])
           Q(k) == QuestionOf(k, who[k])
           asked == {k \in F : Rule(k) = "ask"}
           byWord == {k \in asked : Q(k) \in Programs /\ session[Q(k)] # "none"}
           waits == asked \ byWord
           asks == {Q(k) : k \in waits}
           opens == {q \in asks : waiting[q] = {}}
           o == open \cup (opens \cap Programs)
<1>a. /\ waiting' = [q \in Questions |-> waiting[q] \cup {k \in waits : Q(k) = q}]
      /\ \E s \in SetToSeqs(opens \cap Keys) :
           LET shown == Opened(queue \o s, o) IN queue' = shown.queue /\ open' = shown.open
  BY <1>l DEF LookAt
<1>F. F \subseteq Keys
  BY DEF IInv, Shape, Fresh
<1>q. \A k \in F : Q(k) \in Questions
  BY <1>F DEF QuestionOf, IInv, Shape, Questions
<1>w. waits \subseteq F
  OBVIOUS
<1>f. IsFiniteSet(opens \cap Keys)
  <2>1. IsFiniteSet(waits)
    BY FS_Subset DEF Table, Fresh
  <2> DEFINE g == [k \in waits |-> Q(k)]
  <2>2. g \in Surjection(waits, asks)
    BY DEF Surjection
  <2>3. IsFiniteSet(asks)
    BY <2>1, <2>2, FS_Surjection
  <2> QED
    BY <2>3, FS_Subset
<1> HIDE DEF who, Rule, byWord, waits, F, Q
<1>1. PICK s \in SetToSeqs(opens \cap Keys) :
        queue' = Opened(queue \o s, o).queue /\ open' = Opened(queue \o s, o).open
  BY <1>a
<1>2. s \in Seq(opens \cap Keys) /\ Range(s) = opens \cap Keys /\ Once(s)
  BY <1>f, Arranged
<1>3. s \in Seq(Keys)
  BY <1>2, OfRange
<1>4. /\ asks \subseteq Questions /\ opens \cap WaitedFor = {}
      /\ asks \ opens \subseteq WaitedFor /\ opens \subseteq asks
  BY <1>q, <1>w DEF WaitedFor
<1>5. Range(queue) \cap Range(s) = {} /\ queue \in Seq(Keys) /\ Once(queue)
  BY <1>2, <1>4 DEF Shown, InTurn
<1>6. /\ queue \o s \in Seq(Keys) /\ Once(queue \o s)
      /\ Range(queue \o s) = Range(queue) \cup (opens \cap Keys)
  BY <1>2, <1>3, <1>5, OfConcat
<1>7. Range(queue) \subseteq Keys
  BY <1>5, OfRange
<1>8. InTurn(queue \o s, o)
  <2>1. o \cap Keys = open \cap Keys
    BY GateAssumption
  <2>2. o \subseteq Questions
    BY <1>4 DEF Shown, InTurn
  <2>3. o \cap Range(queue \o s) = {}
    BY <1>4, <1>6, <1>7, GateAssumption DEF Shown, InTurn
  <2> QED
    BY <1>6, <2>1, <2>2, <2>3 DEF InTurn, Shown
<1>9. o \cup Range(queue \o s) = WaitedFor \cup opens
  BY <1>4, <1>6 DEF Shown, Questions
<1>10. WaitedFor' = WaitedFor \cup asks
  BY <1>a, <1>q, <1>w DEF WaitedFor
<1>11. WaitedFor' = o \cup Range(queue \o s)
  BY <1>4, <1>9, <1>10
<1> HIDE DEF o, opens, asks
<1>12. /\ InTurn(queue', open')
       /\ open' \cup Range(queue') = o \cup Range(queue \o s)
       /\ open' \cap Keys = {} => queue' = <<>>
  BY <1>1, <1>8, Opening
<1>13. kpc' # "write"
  BY DEF Scan
<1> QED
  BY <1>11, <1>12, <1>13 DEF Shown, InTurn

\* So does an answer: its question is gone and nobody waits for it.
LEMMA SettleShown ==
    ASSUME Shape, Shown, NEW a, NEW written, Settle(a, written), a.q \in open
    PROVE  Shown'
<1> DEFINE o == open \ {a.q}
<1>1. /\ waiting' = [waiting EXCEPT ![a.q] = {}]
      /\ queue' = Opened(queue, o).queue /\ open' = Opened(queue, o).open
      /\ kpc' = "put"
  BY DEF Settle
<1>2. InTurn(queue, o)
  BY DEF Shown, InTurn
<1>3. WaitedFor' = WaitedFor \ {a.q}
  BY <1>1 DEF WaitedFor, Shape
<1>4. WaitedFor' = o \cup Range(queue)
  BY <1>3 DEF Shown, InTurn
<1> HIDE DEF o
<1>5. /\ InTurn(queue', open')
      /\ open' \cup Range(queue') = o \cup Range(queue)
      /\ open' \cap Keys = {} => queue' = <<>>
  BY <1>1, <1>2, Opening
<1> QED
  BY <1>1, <1>4, <1>5 DEF Shown, InTurn

---------------------------------------------------------------------------
(* What nobody forgets.                                                    *)

\* A flow that nobody looked at is announced, being announced, or being looked
\* for - or its news was taken and it was not seen.
Heard ==
    \A k \in Fresh : \/ news \/ kpc = "scan" \/ k \in unheard
                     \/ (rpc.at = "news" /\ rpc.key = k)

\* A flow that was looked at is decided, about to be, or waits for the person -
\* or another took its decision's slot.
Placed(k) ==
    \/ k \in pushed \/ Decided(k) \/ \E d \in todo : d.key = k
    \/ \E q \in Questions : k \in waiting[q]
Placing == \A s \in known : Placed(s[1])

\* Where frames of a decided flow are held, the relay is woken, or releasing
\* them, or will be woken by the round that is being written.
Waking == \A k \in Holds : Decided(k) => wake \/ rpc.at = "release" \/ kpc = "put"

Slotted ==
    /\ \A i \in DOMAIN slots : slots[i] = Empty \/ slots[i] \in [key : Keys, verdict : Verdicts]
    /\ next \in DOMAIN slots
    /\ kpc # "put" => todo = {}
    /\ pushed \subseteq Keys

Pursued == Heard /\ Placing /\ Waking /\ Slotted

\* Nothing in the table of decisions says of a flow that none was taken.
LEMMA SaysOne ==
    ASSUME Shape, Slotted, NEW k \in Keys, Decision(k) = "none"
    PROVE  ~Decided(k)
<1> SUFFICES ASSUME Decided(k) PROVE FALSE
  OBVIOUS
<1> DEFINE i == CHOOSE j \in Slot(k) : TRUE
<1>1. i \in DOMAIN slots /\ slots[i].key = k
  BY DEF Decided, Slot
<1>2. slots[i].verdict = "none"
  BY DEF Decision
<1> QED
  BY <1>1, <1>2, GateAssumption DEF Slotted, Empty, Verdicts

\* What the keeper, the person and the record's editors have at hand: the
\* relay's steps leave it alone.
keeperVars == <<kpc, known, slots, next, todo, waiting, queue, open, ans, pushed>>
LEMMA RelayLeaves ==
    ASSUME UNCHANGED keeperVars
    PROVE  /\ Shown => Shown'
           /\ Placing => Placing'
           /\ Slotted => Slotted'
           /\ \A k : Decided(k)' = Decided(k)
<1> USE DEF keeperVars
<1>1. Shown => Shown'
  BY DEF Shown, WaitedFor, InTurn
<1>2. \A k : Decided(k)' = Decided(k)
  BY DEF Decided, Slot
<1>3. Placing => Placing'
  BY <1>2 DEF Placing, Placed
<1>4. Slotted => Slotted'
  BY DEF Slotted
<1> QED
  BY <1>1, <1>2, <1>3, <1>4

\* The relay's steps: a frame is held only of a flow that nothing is known of,
\* and the news of a new one follows its slot.
LEMMA RelayPursued ==
    ASSUME IInv, Table, Shown, Pursued, Relay \/ Restart
    PROVE  Pursued' /\ Shown'
<1>k. UNCHANGED keeperVars
  BY DEF Relay, Restart, Frame, NoteKnown, NoteNew, News, Gate, Woken, Release,
         keeperVars, askVars, worldVars, histVars
<1>1. Shown' /\ Placing' /\ Slotted' /\ (\A k : Decided(k)' = Decided(k))
  BY <1>k, RelayLeaves DEF Pursued
<1>s. Shape
  BY DEF IInv
<1>2. CASE \E k \in Keys, out \in BOOLEAN : Frame(k, out)
  <2>1. PICK k \in Keys, out \in BOOLEAN : Frame(k, out)
    BY <1>2
  <2>2. Heard'
    BY <2>1, <1>k DEF Frame, keeperVars, Pursued, Heard, Fresh, Seen, Idle, histVars
  <2>3. Waking'
    BY <2>1, <1>1, <1>k DEF Frame, keeperVars, Pursued, Waking, Holds, Idle
  <2> QED
    BY <1>1, <2>2, <2>3 DEF Pursued
<1>3. CASE NoteKnown
  <2>1. Fresh' = Fresh
    <3>1. DOMAIN flows' = DOMAIN flows /\ \A x \in DOMAIN flows : flows'[x].first = flows[x].first
      BY <1>3 DEF NoteKnown, Table
    <3> QED
      BY <3>1, <1>k DEF Fresh, Seen, keeperVars
  <2>2. Heard'
    BY <2>1, <1>3, <1>k DEF NoteKnown, keeperVars, Pursued, Heard, histVars
  <2>3. Waking'
    BY <1>3, <1>1, <1>k DEF NoteKnown, keeperVars, Pursued, Waking, Holds
  <2> QED
    BY <1>1, <2>2, <2>3 DEF Pursued
<1>4. CASE NoteNew
  <2> DEFINE k == rpc.key
  <2>1. Fresh' \subseteq Fresh \cup {k}
    <3>1. PICK v : flows' = [x \in (DOMAIN flows \ {v}) \cup {k} |->
                               IF x = k THEN [first |-> now, last |-> now] ELSE flows[x]]
      BY <1>4 DEF NoteNew
    <3> QED
      BY <3>1, <1>k DEF Fresh, Seen, keeperVars
  <2>2. /\ rpc' = [rpc EXCEPT !.at = "news"] /\ unheard' = unheard \ {k}
        /\ UNCHANGED <<held, news, wake>> /\ rpc.at = "note"
    BY <1>4 DEF NoteNew
  <2>3. rpc'.at = "news" /\ rpc'.key = k
    BY <2>2, <1>s DEF Shape
  <2>4. Heard'
    BY <2>1, <2>2, <2>3, <1>k DEF keeperVars, Pursued, Heard
  <2>5. Waking'
    BY <2>2, <1>1, <1>k DEF keeperVars, Pursued, Waking, Holds
  <2> QED
    BY <1>1, <2>4, <2>5 DEF Pursued
<1>5. CASE News
  <2>1. Heard'
    BY <1>5 DEF News, Heard
  <2>2. Waking'
    BY <1>5, <1>1, <1>k DEF News, keeperVars, Pursued, Waking, Holds
  <2> QED
    BY <1>1, <2>1, <2>2 DEF Pursued
<1>6. CASE Gate
  <2> DEFINE k == rpc.key
  <2>1. Heard'
    BY <1>6, <1>k DEF Gate, keeperVars, Pursued, Heard, Fresh, Seen
  <2>2. k \in Keys
    BY <1>6, <1>s DEF Gate, Shape
  <2>3. held' = IF Decision(k) = "none" /\ Room THEN [held EXCEPT ![k] = @ + 1] ELSE held
    BY <1>6 DEF Gate
  <2>4. \A x \in Keys : held'[x] > 0 => held[x] > 0 \/ ~Decided(x)
    BY <2>2, <2>3, <1>s, SaysOne DEF Shape, Pursued
  <2>5. wake' = wake /\ rpc.at # "release"
    BY <1>6 DEF Gate
  <2>6. Waking'
    BY <2>4, <2>5, <1>1, <1>k DEF keeperVars, Pursued, Waking, Holds
  <2> QED
    BY <1>1, <2>1, <2>6 DEF Pursued
<1>7. CASE Woken
  <2>1. Heard'
    BY <1>7, <1>k DEF Woken, keeperVars, Pursued, Heard, Fresh, Seen, Idle, histVars
  <2>2. Waking'
    BY <1>7 DEF Woken, Waking, Idle
  <2> QED
    BY <1>1, <2>1, <2>2 DEF Pursued
<1>8. CASE Release
  <2>1. Heard'
    BY <1>8, <1>k DEF Release, keeperVars, Pursued, Heard, Fresh, Seen
  <2>2. held' = [k \in Keys |-> IF Decision(k) = "none" THEN held[k] ELSE 0]
    BY <1>8 DEF Release
  <2>3. \A x \in Keys : held'[x] > 0 => ~Decided(x)
    BY <2>2, <1>s, SaysOne DEF Pursued
  <2>4. Waking'
    BY <2>3, <1>1 DEF Waking, Holds
  <2> QED
    BY <1>1, <2>1, <2>4 DEF Pursued
<1>9. CASE Restart
  <2>1. Fresh' \subseteq Fresh
    BY <1>9, <1>k DEF Restart, Fresh, Seen, keeperVars
  <2>2. Heard'
    BY <2>1, <1>9, <1>k DEF Restart, keeperVars, Pursued, Heard
  <2>3. Waking'
    BY <1>9 DEF Restart, Waking, Holds
  <2> QED
    BY <1>1, <2>2, <2>3 DEF Pursued
<1> QED
  BY <1>1, <1>2, <1>3, <1>4, <1>5, <1>6, <1>7, <1>8, <1>9 DEF Relay


\* What a round of new flows leaves of Pursued: each is decided or waits, but
\* those whose slot could not be read.
LEMMA ScanPursued == ASSUME IInv, Table, Pursued, Scan PROVE Pursued' /\ Table'
<1>p. PICK skip \in SUBSET (IF rpc.at = "note" THEN {rpc.key} ELSE {}) :
        /\ \E found \in SUBSET (Fresh \ skip) :
             LookAt(Fresh \ skip,
                    [k \in Fresh \ skip |-> IF k \in found THEN owner[k] ELSE None])
        /\ unheard' = (unheard \ (Fresh \ skip)) \cup (skip \cap Fresh)
  BY DEF Scan
<1> DEFINE F == Fresh \ skip
<1>l. PICK found \in SUBSET F :
        LookAt(F, [k \in F |-> IF k \in found THEN owner[k] ELSE None])
  BY <1>p
<1> DEFINE who == [k \in F |-> IF k \in found THEN owner[k] ELSE None]
           Rule(k) == OfFlow(k, who[k])
           Q(k) == QuestionOf(k, who[k])
           asked == {k \in F : Rule(k) = "ask"}
           byWord == {k \in asked : Q(k) \in Programs /\ session[Q(k)] # "none"}
           waits == asked \ byWord
<1>a. /\ known' = Remember(known \cup {Seen(k) : k \in F})
      /\ waiting' = [q \in Questions |-> waiting[q] \cup {k \in waits : Q(k) = q}]
      /\ todo' = {[key |-> k, verdict |-> Rule(k)] : k \in F \ asked}
                   \cup {[key |-> k, verdict |-> session[Q(k)]] : k \in byWord}
  BY <1>l DEF LookAt
<1>u. /\ UNCHANGED <<rpc, flows, held, slots, next, wake, pushed, now>>
      /\ kpc = "scan" /\ kpc' = IF todo' = {} THEN "poll" ELSE "put"
  BY DEF Scan, relayVars, worldVars
<1>F. F \subseteq Keys /\ F \subseteq DOMAIN flows
  BY DEF IInv, Shape, Fresh
<1>q. \A k \in F : Q(k) \in Questions
  BY <1>F DEF QuestionOf, IInv, Shape, Questions
<1>k. \A k \in F : \/ k \in waits
                   \/ [key |-> k, verdict |-> Rule(k)] \in todo'
                   \/ [key |-> k, verdict |-> session[Q(k)]] \in todo'
  BY <1>a
<1>w. waits \subseteq F
  OBVIOUS
<1> HIDE DEF who, Rule, byWord, asked, waits, Q
<1>1. /\ known' \subseteq known \cup {Seen(k) : k \in F}
      /\ \A k \in DOMAIN flows : Seen(k) \in known \cup {Seen(x) : x \in F} => Seen(k) \in known'
  BY <1>a DEF Remember
<1>2. \A k \in F : k \in waits => k \in waiting'[Q(k)] /\ Q(k) \in Questions
  BY <1>a, <1>q
<1>3. \A k \in F : \/ \E q \in Questions : k \in waiting'[q]
                   \/ \E d \in todo' : d.key = k
  <2> SUFFICES ASSUME NEW k \in F PROVE \/ \E q \in Questions : k \in waiting'[q]
                                        \/ \E d \in todo' : d.key = k
    OBVIOUS
  <2>1. CASE k \in waits
    BY <2>1, <1>2
  <2>2. ASSUME NEW v, [key |-> k, verdict |-> v] \in todo' PROVE \E d \in todo' : d.key = k
    BY <2>2
  <2> QED
    BY <1>k, <2>1, <2>2
<1>4. \A q \in Questions : waiting[q] \subseteq waiting'[q]
  BY <1>a
<1>5. todo = {}
  BY <1>u DEF Pursued, Slotted
<1>6. \A k : Decided(k)' = Decided(k)
  BY <1>u DEF Decided, Slot
<1>7. Placing'
  <2> SUFFICES ASSUME NEW s \in known' PROVE Placed(s[1])'
    BY DEF Placing
  <2>1. CASE s \in known
    <3>1. Placed(s[1])
      BY <2>1 DEF Pursued, Placing
    <3>2. \A d \in todo : FALSE
      BY <1>5
    <3> QED
      BY <3>1, <3>2, <1>4, <1>6, <1>u DEF Placed
  <2>2. CASE \E k \in F : s = Seen(k)
    <3>1. PICK k \in F : s[1] = k
      BY <2>2 DEF Seen
    <3> QED
      BY <3>1, <1>3 DEF Placed
  <2> QED
    BY <1>1, <2>1, <2>2
<1>8. Heard'
  <2>1. Fresh' \subseteq Fresh \cap skip
    BY <1>1, <1>u DEF Fresh, Seen
  <2> QED
    BY <2>1, <1>p DEF Heard
<1>9. Waking'
  BY <1>6, <1>u DEF Pursued, Waking, Holds
<1>10. Slotted'
  BY <1>u DEF Pursued, Slotted
<1>11. Table'
  <2>1. \A k \in F : Seen(k) \in Keys \X (0..MaxTime)
    <3> SUFFICES ASSUME NEW k \in F PROVE flows[k].first \in 0..MaxTime
      BY <1>F DEF Seen
    <3>1. flows[k].first \in 0..now /\ now \in 0..MaxTime /\ MaxTime \in Nat
      BY <1>F, GateAssumption DEF Table
    <3> QED
      BY <3>1
  <2> QED
    BY <1>1, <1>u, <2>1 DEF Table
<1> QED
  BY <1>7, <1>8, <1>9, <1>10, <1>11 DEF Pursued

\* A decision that takes another's slot leaves that flow among the pushed.
LEMMA PutPursued == ASSUME IInv, Table, Shown, Pursued, Put PROVE Pursued' /\ Shown'
<1>d. PICK d \in todo :
        LET own == Slot(d.key)
            i == IF own # {} THEN CHOOSE j \in own : TRUE ELSE next
        IN  /\ slots' = [slots EXCEPT ![i] = d]
            /\ next' = IF own # {} THEN next ELSE (next + 1) % Slots
            /\ pushed' = (pushed \cup {slots[i].key}) \ {d.key, None}
            /\ todo' = todo \ {d}
  BY DEF Put
<1> DEFINE own == Slot(d.key)
           i == IF own # {} THEN CHOOSE j \in own : TRUE ELSE next
<1>a. /\ slots' = [slots EXCEPT ![i] = d]
      /\ next' = IF own # {} THEN next ELSE (next + 1) % Slots
      /\ pushed' = (pushed \cup {slots[i].key}) \ {d.key, None}
      /\ todo' = todo \ {d}
  BY <1>d
<1>u. /\ UNCHANGED <<rpc, flows, held, news, known, waiting, queue, open, unheard, ans>>
      /\ wake' = (wake \/ todo' = {}) /\ kpc = "put"
      /\ kpc' = IF todo' = {} THEN "poll" ELSE "put"
  BY DEF Put, Woke, relayVars, askVars, worldVars
<1>i. i \in DOMAIN slots
  BY DEF Pursued, Slotted, Slot
<1>D. d \in [key : Keys, verdict : Verdicts] /\ DOMAIN slots = 0..(Slots - 1)
  BY DEF IInv, Shape
<1> HIDE DEF i
<1>1. /\ DOMAIN slots' = DOMAIN slots /\ slots'[i] = d
      /\ \A j \in DOMAIN slots : j # i => slots'[j] = slots[j]
  BY <1>a, <1>i
<1>2. Slotted'
  <2>1. \A j \in DOMAIN slots' : slots'[j] = Empty \/ slots'[j] \in [key : Keys, verdict : Verdicts]
    BY <1>1, <1>D DEF Pursued, Slotted
  <2>2. next' \in DOMAIN slots'
    <3>1. Slots \in Nat \ {0} /\ next \in 0..(Slots - 1)
      BY <1>D, GateAssumption DEF Pursued, Slotted
    <3>2. (next + 1) % Slots \in 0..(Slots - 1)
      BY <3>1
    <3> QED
      BY <3>1, <3>2, <1>a, <1>1, <1>D
  <2>3. pushed' \subseteq Keys
    <3>1. slots[i].key \in Keys \cup {None}
      BY <1>i DEF Pursued, Slotted, Empty
    <3> QED
      BY <3>1, <1>a DEF Pursued, Slotted
  <2> QED
    BY <2>1, <2>2, <2>3, <1>u DEF Slotted
<1>3. \A k \in Keys : Decided(k) => Decided(k)' \/ k \in pushed'
  <2> SUFFICES ASSUME NEW k \in Keys, Decided(k) PROVE Decided(k)' \/ k \in pushed'
    OBVIOUS
  <2>1. PICK j \in DOMAIN slots : slots[j].key = k
    BY DEF Decided, Slot
  <2>2. CASE j # i
    BY <2>1, <2>2, <1>1 DEF Decided, Slot
  <2>3. CASE j = i /\ k = d.key
    BY <2>1, <2>3, <1>1 DEF Decided, Slot
  <2>4. CASE j = i /\ k # d.key
    <3>1. k # None
      BY GateAssumption
    <3> QED
      BY <2>1, <2>4, <3>1, <1>a
  <2> QED
    BY <2>2, <2>3, <2>4
<1>4. Decided(d.key)'
  BY <1>1, <1>i DEF Decided, Slot
<1>5. \A k \in Keys : Placed(k) => Placed(k)'
  <2> SUFFICES ASSUME NEW k \in Keys, Placed(k) PROVE Placed(k)'
    OBVIOUS
  <2>1. CASE k = d.key
    BY <2>1, <1>4 DEF Placed
  <2>2. CASE k # d.key
    <3>1. k \in pushed => k \in pushed'
      BY <2>2, <1>a, GateAssumption
    <3>2. \A x \in todo : x.key = k => x \in todo'
      BY <2>2, <1>a
    <3> QED
      BY <3>1, <3>2, <1>3, <1>u DEF Placed
  <2> QED
    BY <2>1, <2>2
<1>p. Placing'
  <2>1. \A s \in known : s[1] \in Keys
    BY DEF Table
  <2> QED
    BY <2>1, <1>5, <1>u DEF Pursued, Placing
<1>6. Heard'
  BY <1>u DEF Pursued, Heard, Fresh, Seen
<1>7. Waking'
  BY <1>u DEF Waking
<1>8. Shown'
  BY <1>u DEF Shown, WaitedFor, InTurn
<1> QED
  BY <1>2, <1>p, <1>6, <1>7, <1>8 DEF Pursued

\* An answer decides every flow that waited for it.
LEMMA SettlePursued ==
    ASSUME IInv, Pursued, NEW a, NEW written, Settle(a, written), kpc \in {"poll", "write"}
    PROVE  Pursued'
<1> DEFINE yes == a.answer \in {"always", "now"} /\ ~a.refused
           verdict == IF yes /\ (a.answer = "always" => written) THEN "allow" ELSE "deny"
<1>1. /\ todo' = {[key |-> k, verdict |-> verdict] : k \in waiting[a.q]}
      /\ waiting' = [waiting EXCEPT ![a.q] = {}]
      /\ kpc' = "put"
      /\ UNCHANGED <<rpc, flows, held, news, wake, known, slots, next, pushed, unheard>>
  BY DEF Settle, relayVars
<1> HIDE DEF verdict
<1>2. \A k \in waiting[a.q] : \E d \in todo' : d.key = k
  <2> SUFFICES ASSUME NEW k \in waiting[a.q] PROVE \E d \in todo' : d.key = k
    OBVIOUS
  <2>1. [key |-> k, verdict |-> verdict] \in todo'
    BY <1>1
  <2> QED
    BY <2>1
<1>3. \A q \in Questions : q # a.q => waiting'[q] = waiting[q]
  BY <1>1 DEF IInv, Shape
<1>4. \A k : Decided(k)' = Decided(k)
  BY <1>1 DEF Decided, Slot
<1>5. \A d \in todo : FALSE
  BY DEF Pursued, Slotted
<1>6. Placing'
  <2> SUFFICES ASSUME NEW s \in known PROVE Placed(s[1])'
    BY <1>1 DEF Placing
  <2>1. Placed(s[1])
    BY DEF Pursued, Placing
  <2> QED
    BY <2>1, <1>1, <1>2, <1>3, <1>4, <1>5 DEF Placed
<1>7. Heard'
  BY <1>1 DEF Pursued, Heard, Fresh, Seen
<1>8. Waking'
  BY <1>1 DEF Waking
<1>9. Slotted'
  BY <1>1 DEF Pursued, Slotted
<1> QED
  BY <1>6, <1>7, <1>8, <1>9 DEF Pursued

---------------------------------------------------------------------------
(* How many frames are held.                                               *)

\* A set that is not empty loses one with what CHOOSE takes of it.
LEMMA OneLess ==
    ASSUME NEW S, IsFiniteSet(S), NEW s \in SUBSET S, s # {}
    PROVE  /\ (CHOOSE x \in s : TRUE) \in s
           /\ s \ {CHOOSE x \in s : TRUE} \in SUBSET S
           /\ Cardinality(s) \in Nat
           /\ Cardinality(s \ {CHOOSE x \in s : TRUE}) = Cardinality(s) - 1
<1> DEFINE c == CHOOSE x \in s : TRUE
<1>1. c \in s
  OBVIOUS
<1>2. IsFiniteSet(s)
  BY FS_Subset
<1> HIDE DEF c
<1>3. Cardinality(s) \in Nat /\ Cardinality(s \ {c}) = Cardinality(s) - 1
  BY <1>1, <1>2, FS_CardinalityType, FS_RemoveElement
<1> QED
  BY <1>1, <1>3 DEF c

\* The sum over a finite set takes one element away at a time.
LEMMA SumDef ==
    ASSUME NEW S, IsFiniteSet(S), NEW f
    PROVE  \E it : /\ it[{}] = 0
                   /\ \A s \in SUBSET S : s # {} =>
                        it[s] = f[CHOOSE x \in s : TRUE] + it[s \ {CHOOSE x \in s : TRUE}]
                   /\ it[S] = SumFunctionOnSet(f, S)
<1> DEFINE c(s) == CHOOSE x \in s : TRUE
           Step(g, s) == IF s = {} THEN 0 ELSE f[c(s)] + g[s \ {c(s)}]
           Level(n) == {s \in SUBSET S : Cardinality(s) <= n}
           Good(g, n) == g = [s \in Level(n) |-> Step(g, s)]
           P == {n \in Nat : \E g : Good(g, n)}
<1>f. \A s \in SUBSET S : IsFiniteSet(s) /\ Cardinality(s) \in Nat
  BY FS_Subset, FS_CardinalityType
<1>r. \A s \in SUBSET S : s # {} => /\ s \ {c(s)} \in SUBSET S
                                    /\ Cardinality(s \ {c(s)}) = Cardinality(s) - 1
  BY OneLess
<1> HIDE DEF c
<1>1. 0 \in P
  <2> DEFINE g == [s \in Level(0) |-> 0]
  <2>1. \A s \in Level(0) : s = {}
    BY <1>f, FS_EmptySet
  <2>2. Good(g, 0)
    BY <2>1
  <2> QED
    BY <2>2
<1>2. ASSUME NEW n \in Nat, n \in P PROVE n + 1 \in P
  <2>1. PICK g : Good(g, n)
    BY <1>2
  <2> DEFINE h == [s \in Level(n + 1) |-> Step(g, s)]
  <2>a. \A s \in Level(n) : s \in Level(n + 1)
    BY <1>f
  <2>2. \A s \in Level(n) : g[s] = Step(g, s) /\ h[s] = Step(g, s)
    <3> HIDE DEF Level, Step
    <3> QED
      BY <2>1, <2>a
  <2>3. \A s \in Level(n + 1) : s # {} => s \ {c(s)} \in Level(n)
    BY <1>f, <1>r
  <2>4. \A s \in Level(n + 1) : Step(g, s) = Step(h, s)
    <3> HIDE DEF Level, h
    <3> QED
      BY <2>2, <2>3
  <2>5. Good(h, n + 1)
    BY <2>4
  <2> HIDE DEF Good, h
  <2>6. \E k : Good(k, n + 1)
    BY <2>5
  <2> QED
    BY <2>6
<1>3. Nat \subseteq P
  <2> HIDE DEF P
  <2> QED
    BY <1>1, <1>2, Inductive
<1>4. Level(Cardinality(S)) = SUBSET S /\ Cardinality(S) \in Nat
  BY <1>f, FS_Subset
<1> DEFINE iter == CHOOSE g : g = [s \in SUBSET S |-> Step(g, s)]
<1>5. \E g : g = [s \in SUBSET S |-> Step(g, s)]
  <2> HIDE DEF Level, Step
  <2> QED
    BY <1>3, <1>4
<1>6. iter = [s \in SUBSET S |-> Step(iter, s)]
  <2> HIDE DEF Step
  <2> QED
    BY <1>5
<1>7. SumFunctionOnSet(f, S) = iter[S]
  BY DEF SumFunctionOnSet, FoldFunctionOnSet, MapThenFoldSet, c
<1> HIDE DEF iter
<1>8. \A s \in SUBSET S : iter[s] = Step(iter, s)
  <2> HIDE DEF Step
  <2> QED
    BY <1>6
<1>9. iter[{}] = 0
  BY <1>8
<1> QED
  BY <1>7, <1>8, <1>9 DEF c

\* Where one function is nowhere more than another but at one place, and
\* there by one, so is its sum.
LEMMA SumMore ==
    ASSUME NEW S, IsFiniteSet(S), NEW f \in [S -> Nat], NEW g \in [S -> Nat], NEW k,
           \A x \in S : g[x] <= f[x] + (IF x = k THEN 1 ELSE 0)
    PROVE  /\ SumFunction(f) \in Nat /\ SumFunction(g) \in Nat
           /\ SumFunction(g) <= SumFunction(f) + (IF k \in S THEN 1 ELSE 0)
<1> DEFINE c(s) == CHOOSE x \in s : TRUE
<1>1. PICK F : /\ F[{}] = 0
               /\ \A s \in SUBSET S : s # {} => F[s] = f[c(s)] + F[s \ {c(s)}]
               /\ F[S] = SumFunctionOnSet(f, S)
  BY SumDef
<1>2. PICK G : /\ G[{}] = 0
               /\ \A s \in SUBSET S : s # {} => G[s] = g[c(s)] + G[s \ {c(s)}]
               /\ G[S] = SumFunctionOnSet(g, S)
  BY SumDef
<1>c. \A s \in SUBSET S : s # {} => c(s) \in s
  OBVIOUS
<1>r. \A s \in SUBSET S, n \in Nat :
        s # {} /\ Cardinality(s) = n + 1
        => s \ {c(s)} \in SUBSET S /\ Cardinality(s \ {c(s)}) = n
  <2> SUFFICES ASSUME NEW s \in SUBSET S, NEW n \in Nat, s # {}, Cardinality(s) = n + 1
               PROVE  s \ {c(s)} \in SUBSET S /\ Cardinality(s \ {c(s)}) = n
    OBVIOUS
  <2>1. s \ {c(s)} \in SUBSET S /\ Cardinality(s \ {c(s)}) = (n + 1) - 1
    BY OneLess
  <2> QED
    BY <2>1
<1> HIDE DEF c
<1> DEFINE More(s) == IF k \in s THEN 1 ELSE 0
           Good(s) == F[s] \in Nat /\ G[s] \in Nat /\ G[s] <= F[s] + More(s)
           P == {n \in Nat : \A s \in SUBSET S : Cardinality(s) = n => Good(s)}
<1>f. \A s \in SUBSET S : IsFiniteSet(s) /\ Cardinality(s) \in Nat
  BY FS_Subset, FS_CardinalityType
<1>3. 0 \in P
  <2>1. \A s \in SUBSET S : Cardinality(s) = 0 => s = {}
    BY <1>f, FS_EmptySet
  <2>2. Good({})
    BY <1>1, <1>2
  <2> HIDE DEF Good
  <2> QED
    BY <2>1, <2>2
<1>4. ASSUME NEW n \in Nat, n \in P PROVE n + 1 \in P
  <2> SUFFICES ASSUME NEW s \in SUBSET S, Cardinality(s) = n + 1 PROVE Good(s)
    OBVIOUS
  <2> DEFINE x == c(s)
             t == s \ {x}
  <2>1. s # {}
    BY FS_EmptySet
  <2>3. Cardinality(t) = n /\ t \in SUBSET S
    BY <2>1, <1>r
  <2>4. Good(t)
    BY <1>4, <2>3
  <2>5. F[s] = f[x] + F[t] /\ G[s] = g[x] + G[t]
    BY <1>1, <1>2, <2>1
  <2>6. f[x] \in Nat /\ g[x] \in Nat /\ g[x] <= f[x] + (IF x = k THEN 1 ELSE 0)
    BY <2>1, <1>c
  <2>7. x \notin t /\ x \in s /\ (k \in s <=> (k \in t \/ k = x))
    BY <2>1, <1>c
  <2>8. More(s) = More(t) + (IF x = k THEN 1 ELSE 0)
    BY <2>7
  <2>9. More(t) \in Nat
    OBVIOUS
  <2> HIDE DEF x, t, More
  <2> QED
    BY <2>4, <2>5, <2>6, <2>8, <2>9
<1>5. Nat \subseteq P
  <2> HIDE DEF P
  <2> QED
    BY <1>3, <1>4, Inductive
<1>6. Good(S)
  <2> HIDE DEF Good
  <2> QED
    BY <1>5, <1>f
<1>7. SumFunction(f) = F[S] /\ SumFunction(g) = G[S]
  BY <1>1, <1>2 DEF SumFunction
<1> QED
  BY <1>6, <1>7

\* A function that is 0 everywhere has the sum 0.
LEMMA SumNone ==
    ASSUME NEW S, IsFiniteSet(S)
    PROVE  SumFunction([x \in S |-> 0]) = 0
<1> DEFINE f == [x \in S |-> 0]
           c(s) == CHOOSE x \in s : TRUE
<1>1. PICK F : /\ F[{}] = 0
               /\ \A s \in SUBSET S : s # {} => F[s] = f[c(s)] + F[s \ {c(s)}]
               /\ F[S] = SumFunctionOnSet(f, S)
  BY SumDef
<1>c. \A s \in SUBSET S : s # {} => c(s) \in s
  OBVIOUS
<1>r. \A s \in SUBSET S, n \in Nat :
        s # {} /\ Cardinality(s) = n + 1
        => s \ {c(s)} \in SUBSET S /\ Cardinality(s \ {c(s)}) = n
  <2> SUFFICES ASSUME NEW s \in SUBSET S, NEW n \in Nat, s # {}, Cardinality(s) = n + 1
               PROVE  s \ {c(s)} \in SUBSET S /\ Cardinality(s \ {c(s)}) = n
    OBVIOUS
  <2>1. s \ {c(s)} \in SUBSET S /\ Cardinality(s \ {c(s)}) = (n + 1) - 1
    BY OneLess
  <2> QED
    BY <2>1
<1>f. \A s \in SUBSET S : IsFiniteSet(s) /\ Cardinality(s) \in Nat
  BY FS_Subset, FS_CardinalityType
<1> HIDE DEF c
<1> DEFINE P == {n \in Nat : \A s \in SUBSET S : Cardinality(s) = n => F[s] = 0}
<1>3. 0 \in P
  BY <1>1, <1>f, FS_EmptySet
<1>4. ASSUME NEW n \in Nat, n \in P PROVE n + 1 \in P
  <2> SUFFICES ASSUME NEW s \in SUBSET S, Cardinality(s) = n + 1 PROVE F[s] = 0
    OBVIOUS
  <2>1. s # {}
    BY FS_EmptySet
  <2>2. s \ {c(s)} \in SUBSET S /\ Cardinality(s \ {c(s)}) = n
    BY <2>1, <1>r
  <2>3. F[s \ {c(s)}] = 0
    BY <1>4, <2>2
  <2>4. f[c(s)] = 0
    BY <2>1, <1>c
  <2>5. F[s] = f[c(s)] + F[s \ {c(s)}]
    BY <1>1, <2>1
  <2> HIDE DEF f
  <2> QED
    BY <2>3, <2>4, <2>5
<1>5. Nat \subseteq P
  <2> HIDE DEF P
  <2> QED
    BY <1>3, <1>4, Inductive
<1>6. F[S] = 0
  BY <1>5, <1>f
<1> QED
  BY <1>1, <1>6 DEF SumFunction

\* The gate holds no more than there is room for.
Roomy == SumFunction(held) <= MaxHeld

LEMMA RoomyStep ==
    ASSUME Shape, Roomy, [Next]_vars
    PROVE  Roomy'
<1>0. held \in [Keys -> Nat] /\ IsFiniteSet(Keys) /\ MaxHeld \in Nat
  BY GateAssumption DEF Shape
<1>1. CASE Gate /\ held' # held
  <2> DEFINE k == rpc.key
  <2>1. held' = [held EXCEPT ![k] = @ + 1] /\ SumFunction(held) < MaxHeld
    BY <1>1 DEF Gate, Room
  <2>k. k \in Keys
    BY <1>1 DEF Gate, Shape
  <2>2. held' \in [Keys -> Nat]
    BY <2>1, <2>k, <1>0
  <2>3. \A x \in Keys : held'[x] <= held[x] + (IF x = k THEN 1 ELSE 0)
    BY <2>1, <1>0
  <2> HIDE DEF k
  <2>4. /\ SumFunction(held) \in Nat /\ SumFunction(held') \in Nat
        /\ SumFunction(held') <= SumFunction(held) + (IF k \in Keys THEN 1 ELSE 0)
    BY <2>2, <2>3, <1>0, SumMore
  <2> QED
    BY <2>1, <2>4, <1>0 DEF Roomy
<1>2. CASE Release \/ Restart
  <2>1. held' \in [Keys -> Nat] /\ \A x \in Keys : held'[x] <= held[x]
    BY <1>2, <1>0 DEF Release, Restart
  <2>2. \A x \in Keys : held'[x] <= held[x] + (IF x = None THEN 1 ELSE 0)
    BY <2>1, <1>0
  <2>3. /\ SumFunction(held) \in Nat /\ SumFunction(held') \in Nat
        /\ SumFunction(held') <= SumFunction(held) + (IF None \in Keys THEN 1 ELSE 0)
    BY <2>1, <2>2, <1>0, SumMore
  <2>4. SumFunction(held') <= SumFunction(held)
    BY <2>3, GateAssumption
  <2> QED
    BY <2>3, <2>4, <1>0 DEF Roomy
<1>3. CASE held' = held
  BY <1>3 DEF Roomy
<1>4. Next => Gate \/ Release \/ Restart \/ held' = held
  <2>1. Relay => Gate \/ Release \/ held' = held
    BY DEF Relay, Frame, NoteKnown, NoteNew, News, Woken
  <2>2. ASSUME NEW a, NEW written, Settle(a, written) PROVE held' = held
    BY <2>2 DEF Settle, relayVars
  <2>3. Keeper => held' = held
    BY <2>2 DEF Keeper, Hear, Scan, Put, WriteLine, relayVars
  <2>4. ASSUME NEW q, NEW answer, Answer(q, answer) PROVE held' = held
    BY <2>2, <2>4 DEF Answer, relayVars
  <2>5. Edit => held' = held
    BY DEF Edit, relayVars
  <2> QED
    BY <2>1, <2>3, <2>4, <2>5 DEF Next, Person
<1>5. UNCHANGED vars => held' = held
  BY DEF vars, relayVars
<1> QED
  BY <1>1, <1>2, <1>3, <1>4, <1>5

---------------------------------------------------------------------------
(* The table, and the rest of the types.                                   *)

Plain ==
    /\ news \in BOOLEAN /\ wake \in BOOLEAN /\ raced \in BOOLEAN
    /\ kpc \in {"poll", "scan", "put", "write"}
    /\ ans \in [q : Programs \cup {None}, answer : {"always", "deny", "none"},
                refused : BOOLEAN, allow : SUBSET Programs, deny : SUBSET Programs]
    /\ frames \in 0..MaxFrames /\ events \in 0..MaxEvents
    /\ right \subseteq Keys /\ unheard \subseteq Keys /\ loose \subseteq Keys
    /\ said \subseteq Programs

\* The relay's steps keep the table: a new flow takes a free slot, or that of
\* another.
LEMMA RelayTable ==
    ASSUME Shape, Table, Relay \/ Restart
    PROVE  Table'
<1>u. known' = known
  BY DEF Relay, Restart, Frame, NoteKnown, NoteNew, News, Gate, Woken, Release
<1>n. now \in Nat /\ MaxTime \in Nat
  BY GateAssumption DEF Table
<1>1. CASE \E k \in Keys, out \in BOOLEAN : Frame(k, out)
  <2>1. flows' = flows /\ now' \in {now, now + 1} /\ now' <= MaxTime
    BY <1>1 DEF Frame
  <2>2. now' \in 0..MaxTime /\ 0..now \subseteq 0..now'
    BY <2>1, <1>n
  <2> QED
    BY <2>1, <2>2, <1>u DEF Table
<1>2. CASE NoteKnown
  <2>1. /\ DOMAIN flows' = DOMAIN flows /\ now' = now
        /\ \A k \in DOMAIN flows : flows'[k] = flows[k] \/ flows'[k] = [flows[k] EXCEPT !.last = now]
    BY <1>2 DEF NoteKnown, worldVars
  <2>2. now \in 0..now
    BY <1>n
  <2> QED
    BY <2>1, <2>2, <1>u DEF Table
<1>3. CASE NoteNew
  <2> DEFINE k == rpc.key
  <2>1. PICK v \in Victims :
          flows' = [x \in (DOMAIN flows \ {v}) \cup {k} |->
                     IF x = k THEN [first |-> now, last |-> now] ELSE flows[x]]
    BY <1>3 DEF NoteNew
  <2>2. now' = now /\ k \notin DOMAIN flows
    BY <1>3 DEF NoteNew, worldVars
  <2> DEFINE D == DOMAIN flows \ {v}
  <2>3. IsFiniteSet(D) /\ Cardinality(D) \in Nat /\ Cardinality(D) <= FlowSlots - 1
    <3>1. IsFiniteSet(DOMAIN flows) /\ Cardinality(DOMAIN flows) \in Nat /\ FlowSlots \in Nat \ {0}
      BY FS_CardinalityType, GateAssumption DEF Table
    <3>2. /\ IsFiniteSet(D)
          /\ Cardinality(D) = IF v \in DOMAIN flows THEN Cardinality(DOMAIN flows) - 1
                              ELSE Cardinality(DOMAIN flows)
      BY <3>1, FS_RemoveElement
    <3>3. CASE Cardinality(DOMAIN flows) < FlowSlots
      BY <3>1, <3>2, <3>3, FS_CardinalityType
    <3>4. CASE ~(Cardinality(DOMAIN flows) < FlowSlots)
      <4>1. v \in DOMAIN flows
        BY <3>4 DEF Victims
      <4> QED
        BY <4>1, <3>1, <3>2, FS_CardinalityType DEF Table
    <3> QED
      BY <3>3, <3>4
  <2> HIDE DEF D
  <2>4. IsFiniteSet(D \cup {k}) /\ Cardinality(D \cup {k}) <= Cardinality(D) + 1
    BY <2>3, FS_AddElement
  <2>5. IsFiniteSet(DOMAIN flows') /\ Cardinality(DOMAIN flows') <= FlowSlots
    <3>1. Cardinality(D \cup {k}) \in Nat /\ FlowSlots \in Nat
      BY <2>4, FS_CardinalityType, GateAssumption
    <3>2. DOMAIN flows' = D \cup {k}
      BY <2>1 DEF D
    <3>3. Cardinality(D \cup {k}) <= FlowSlots
      BY <2>3, <2>4, <3>1
    <3> QED
      BY <2>4, <3>2, <3>3
  <2>6. now \in 0..now
    BY <1>n
  <2>7. \A x \in DOMAIN flows' : flows'[x] \in [first : 0..now, last : 0..now]
    BY <2>1, <2>6 DEF Table
  <2> QED
    BY <2>2, <2>5, <2>7, <1>u DEF Table
<1>4. CASE News \/ Gate \/ Woken \/ Release
  <2>1. UNCHANGED <<flows, now>>
    BY <1>4 DEF News, Gate, Woken, Release, worldVars
  <2> QED
    BY <2>1, <1>u DEF Table
<1>5. CASE Restart
  <2>1. PICK v : flows' = [k \in DOMAIN flows \ {v} |-> flows[k]]
    BY <1>5 DEF Restart
  <2>2. now' = now
    BY <1>5 DEF Restart
  <2>3. IsFiniteSet(DOMAIN flows \ {v}) /\ Cardinality(DOMAIN flows \ {v}) <= Cardinality(DOMAIN flows)
    BY FS_Subset DEF Table
  <2>4. Cardinality(DOMAIN flows \ {v}) <= FlowSlots
    <3>1. /\ Cardinality(DOMAIN flows \ {v}) \in Nat /\ Cardinality(DOMAIN flows) \in Nat
          /\ FlowSlots \in Nat
      BY <2>3, FS_CardinalityType, GateAssumption DEF Table
    <3> QED
      BY <3>1, <2>3 DEF Table
  <2> QED
    BY <2>1, <2>2, <2>3, <2>4, <1>u DEF Table
<1> QED
  BY <1>1, <1>2, <1>3, <1>4, <1>5 DEF Relay

LEMMA PlainStep ==
    ASSUME IInv, Table, Pursued, Plain, [Next]_vars
    PROVE  Plain'
<1>h. Holds \subseteq Keys /\ rpc.key \in Keys \cup {None} /\ DOMAIN flows \subseteq Keys
  BY DEF Holds, IInv, Shape
<1>f. Fresh \subseteq Keys
  BY <1>h DEF Fresh
<1>e. events \in Nat /\ MaxEvents \in Nat /\ frames \in Nat /\ MaxFrames \in Nat
  BY GateAssumption DEF Plain
<1>r. rules \in RulesType
  BY DEF IInv, Shape
<1>1. CASE \E k \in Keys, out \in BOOLEAN : Frame(k, out)
  BY <1>1, <1>e DEF Frame, Plain, histVars
<1>2. CASE NoteKnown \/ News \/ Gate \/ Woken \/ Release
  BY <1>2 DEF NoteKnown, News, Gate, Woken, Release, Plain, worldVars, histVars
<1>3. CASE NoteNew
  <2>1. loose' \subseteq Keys
    BY <1>3, <1>h DEF NoteNew, Plain
  <2> QED
    BY <1>3, <2>1 DEF NoteNew, Plain, worldVars
<1>4. CASE Restart
  BY <1>4, <1>e, <1>f DEF Restart, Plain
<1>5. CASE Hear
  BY <1>5 DEF Hear, relayVars, askVars, worldVars, histVars, Plain
<1>6. CASE Scan
  <2>1. right' \subseteq Keys
    <3>1. PICK skip, who : LookAt(Fresh \ skip, who)
      BY <1>6 DEF Scan
    <3> QED
      BY <3>1, <1>f DEF LookAt, Plain
  <2>2. unheard' \subseteq Keys
    BY <1>6, <1>f DEF Scan, Plain
  <2> QED
    BY <1>6, <2>1, <2>2 DEF Scan, relayVars, worldVars, Plain
<1>7. CASE Put
  <2>1. wake' \in BOOLEAN
    BY <1>7 DEF Put, Woke, Plain
  <2> QED
    BY <1>7, <2>1 DEF Put, relayVars, askVars, worldVars, Plain
<1>8. ASSUME NEW a, NEW written, Settle(a, written), a.q \in Questions PROVE Plain'
  <2>1. waiting[a.q] \subseteq Keys
    BY <1>8 DEF IInv, Shape
  <2>2. /\ right' \subseteq right \cup waiting[a.q] /\ said' \subseteq said \cup Programs
        /\ kpc' = "put" /\ ans' = NoAnswer
        /\ UNCHANGED <<news, wake, raced, frames, events, unheard, loose>>
    BY <1>8 DEF Settle
  <2> QED
    BY <2>1, <2>2 DEF Plain, NoAnswer
<1>9. ASSUME NEW q \in Questions, NEW answer \in {"always", "now", "deny", "closed"},
             Answer(q, answer)
      PROVE  Plain'
  <2> DEFINE a == [q |-> q, answer |-> answer, refused |-> Refused(q),
                   allow |-> rules.allow, deny |-> rules.deny]
  <2>1. CASE q \in Programs /\ (answer = "deny" \/ (answer = "always" /\ ~a.refused))
    <3>1. /\ ans' = a /\ kpc' = "write"
          /\ UNCHANGED <<news, wake, raced, frames, events, right, unheard, loose, said>>
      BY <1>9, <2>1 DEF Answer, worldVars, histVars
    <3>2. Refused(q) \in BOOLEAN
      BY DEF Refused
    <3> QED
      BY <2>1, <3>1, <3>2, <1>r DEF Plain, RulesType
  <2>2. CASE ~(q \in Programs /\ (answer = "deny" \/ (answer = "always" /\ ~a.refused)))
    <3>1. Settle(a, FALSE) /\ a.q \in Questions
      BY <1>9, <2>2 DEF Answer
    <3> HIDE DEF a
    <3> QED
      BY <3>1, <1>8
  <2> QED
    BY <2>1, <2>2
<1>10. CASE WriteLine
  <2>1. \E written \in BOOLEAN : Settle(ans, written)
    BY <1>10 DEF WriteLine
  <2>2. ans.q \in Questions
    BY <1>10 DEF WriteLine, IInv, Writing, Questions
  <2> QED
    BY <2>1, <2>2, <1>8
<1>11. CASE Edit
  BY <1>11, <1>e DEF Edit, relayVars, askVars, Plain
<1>12. CASE UNCHANGED vars
  BY <1>12 DEF vars, relayVars, askVars, worldVars, histVars, Plain
<1> QED
  BY <1>1, <1>2, <1>3, <1>4, <1>5, <1>6, <1>7, <1>9, <1>10, <1>11, <1>12
     DEF Next, Relay, Keeper, Person

---------------------------------------------------------------------------
(* All of it, of every step.                                               *)
WholeInv == IInv /\ Table /\ Shown /\ Pursued /\ Roomy /\ Plain

LEMMA InitWhole == Init => WholeInv
<1> SUFFICES ASSUME Init PROVE WholeInv
  OBVIOUS
<1>1. IInv
  BY InitIInv
<1>2. Table
  <2>1. flows = <<>> /\ now = 0 /\ known = {}
    BY DEF Init
  <2>2. DOMAIN flows = {}
    BY <2>1
  <2>3. FlowSlots \in Nat /\ 0 <= FlowSlots /\ 0 \in 0..MaxTime
    BY GateAssumption
  <2> QED
    BY <2>1, <2>2, <2>3, FS_EmptySet DEF Table
<1>3. Shown
  <2>1. queue = <<>> /\ open = {} /\ WaitedFor = {} /\ kpc = "poll"
    BY DEF Init, WaitedFor
  <2>2. Range(<<>>) = {} /\ Once(<<>>) /\ <<>> \in Seq(Keys)
    BY EmptySeq DEF Range, Once
  <2> QED
    BY <2>1, <2>2 DEF Shown, InTurn
<1>4. Pursued
  <2>1. Heard
    BY DEF Init, Heard, Fresh
  <2>2. Placing /\ Waking
    BY DEF Init, Placing, Waking, Holds
  <2>3. Slotted
    <3>1. 0 \in 0..(Slots - 1)
      BY GateAssumption
    <3> QED
      BY <3>1 DEF Init, Slotted
  <2> QED
    BY <2>1, <2>2, <2>3 DEF Pursued
<1>5. Roomy
  <2>1. held = [x \in Keys |-> 0]
    BY DEF Init
  <2>2. SumFunction(held) = 0
    BY <2>1, SumNone, GateAssumption
  <2> QED
    BY <2>2, GateAssumption DEF Roomy
<1>6. Plain
  <2>1. 0 \in 0..MaxFrames /\ 0 \in 0..MaxEvents
    BY GateAssumption
  <2> QED
    BY <2>1 DEF Init, Plain, NoAnswer
<1> QED
  BY <1>1, <1>2, <1>3, <1>4, <1>5, <1>6 DEF WholeInv

LEMMA StepWhole == WholeInv /\ [Next]_vars => WholeInv'
<1> SUFFICES ASSUME WholeInv, [Next]_vars PROVE WholeInv'
  OBVIOUS
<1> USE DEF WholeInv
<1>1. IInv' /\ Roomy' /\ Plain'
  BY StepIInv, RoomyStep, PlainStep DEF IInv
<1>2. CASE Relay \/ Restart
  BY <1>2, <1>1, RelayPursued, RelayTable DEF IInv
<1>3. CASE Hear
  <2> USE <1>3 DEF Hear, relayVars, askVars, worldVars, histVars
  <2>1. Table' /\ Shown'
    BY DEF Table, Shown, InTurn, WaitedFor
  <2>2. \A k : Decided(k)' = Decided(k)
    BY DEF Decided, Slot
  <2>3. Placing'
    BY <2>2 DEF Pursued, Placing, Placed
  <2>4. Heard' /\ Waking' /\ Slotted'
    BY <2>2 DEF Pursued, Heard, Waking, Holds, Slotted
  <2> QED
    BY <1>1, <2>1, <2>3, <2>4 DEF Pursued
<1>4. CASE Scan
  BY <1>1, <1>4, ScanShown, ScanPursued
<1>5. CASE Put
  <2>1. Table'
    BY <1>5 DEF Put, relayVars, worldVars, Table
  <2> QED
    BY <1>1, <1>5, <2>1, PutPursued
<1>6. ASSUME NEW a, NEW written, Settle(a, written), kpc \in {"poll", "write"}, a.q \in open
      PROVE  Table' /\ Shown' /\ Pursued'
  <2>1. Table'
    BY <1>6 DEF Settle, relayVars, Table
  <2> QED
    BY <1>6, <2>1, SettleShown, SettlePursued DEF IInv
<1>7. ASSUME NEW q \in Questions, NEW answer \in {"always", "now", "deny", "closed"},
             Answer(q, answer)
      PROVE  Table' /\ Shown' /\ Pursued'
  <2> DEFINE a == [q |-> q, answer |-> answer, refused |-> Refused(q),
                   allow |-> rules.allow, deny |-> rules.deny]
  <2>0. kpc = "poll" /\ q \in open
    BY <1>7 DEF Answer
  <2>1. CASE q \in Programs /\ (answer = "deny" \/ (answer = "always" /\ ~a.refused))
    <3> DEFINE rest == <<relayVars, news, wake, known, slots, next, todo, askVars, worldVars, histVars>>
    <3>1. UNCHANGED rest /\ ans' = a /\ kpc' = "write"
      BY <1>7, <2>1 DEF Answer
    <3>2. Table'
      BY <3>1 DEF Table, relayVars, worldVars
    <3>3. ans'.q = q
      BY <3>1
    <3> HIDE DEF a
    <3>4. Shown'
      BY <2>0, <3>1, <3>3 DEF Shown, InTurn, WaitedFor, askVars
    <3>5. \A k : Decided(k)' = Decided(k)
      BY <3>1 DEF Decided, Slot
    <3>6. Placing'
      BY <3>1, <3>5 DEF Pursued, Placing, Placed, askVars, histVars
    <3>7. Heard'
      BY <2>0, <3>1 DEF Pursued, Heard, Fresh, Seen, relayVars, histVars
    <3>8. Waking' /\ Slotted'
      BY <2>0, <3>1, <3>5 DEF Pursued, Waking, Holds, Slotted, relayVars, histVars
    <3> QED
      BY <3>2, <3>4, <3>6, <3>7, <3>8 DEF Pursued
  <2>2. CASE ~(q \in Programs /\ (answer = "deny" \/ (answer = "always" /\ ~a.refused)))
    <3>1. Settle(a, FALSE) /\ a.q = q
      BY <1>7, <2>2 DEF Answer
    <3> HIDE DEF a
    <3> QED
      BY <2>0, <3>1, <1>6
  <2> QED
    BY <2>1, <2>2
<1>8. CASE WriteLine
  <2>1. \E written \in BOOLEAN : Settle(ans, written)
    BY <1>8 DEF WriteLine
  <2>2. ans.q \in open /\ kpc = "write"
    BY <1>8 DEF WriteLine, Shown
  <2> QED
    BY <1>1, <1>6, <2>1, <2>2
<1>9. CASE Edit \/ UNCHANGED vars
  <2> DEFINE rest == <<rpc, flows, held, news, wake, kpc, known, slots, next, todo, waiting,
                       queue, open, ans, now, pushed, unheard>>
  <2>1. UNCHANGED rest
    BY <1>9 DEF Edit, vars, relayVars, askVars, worldVars, histVars
  <2>2. Table' /\ Shown'
    BY <2>1 DEF Table, Shown, InTurn, WaitedFor
  <2>3. \A k : Decided(k)' = Decided(k)
    BY <2>1 DEF Decided, Slot
  <2>4. Placing'
    BY <2>1, <2>3 DEF Pursued, Placing, Placed
  <2>5. Heard' /\ Waking' /\ Slotted'
    BY <2>1, <2>3 DEF Pursued, Heard, Fresh, Seen, Waking, Holds, Slotted
  <2> QED
    BY <1>1, <2>2, <2>4, <2>5 DEF Pursued
<1> QED
  BY <1>1, <1>2, <1>3, <1>4, <1>5, <1>7, <1>8, <1>9 DEF Next, Keeper, Person

\* Every variable has its type; the table of flows has no more than its slots,
\* and no more frames are held than there is room for, however many were held,
\* released and let go with a relay.
THEOREM TypeCorrect == Spec => []TypeOK
<1>1. WholeInv => TypeOK
  <2> SUFFICES ASSUME WholeInv PROVE TypeOK
    OBVIOUS
  <2> USE DEF WholeInv
  <2>1. slots \in [0..(Slots - 1) -> [key : Keys, verdict : Verdicts] \cup {Empty}]
    BY DEF IInv, Shape, Pursued, Slotted
  <2>2. next \in 0..(Slots - 1) /\ pushed \subseteq Keys
    BY <2>1 DEF Pursued, Slotted
  <2>3. queue \in Seq(Keys) /\ open \subseteq Questions
    BY DEF Shown, InTurn
  <2>4. UNION {right, went, pushed, unheard, loose} \subseteq Keys
    BY <2>2 DEF Plain, IInv, Consented
  <2>5. {news, wake, raced} \subseteq BOOLEAN
    BY DEF Plain
  <2>6. rules \in [default : {"ask", "allow", "deny"}, allow : SUBSET Programs, deny : SUBSET Programs]
    BY DEF IInv, Shape, RulesType, Verdicts
  <2>7. /\ rpc \in [at : {"poll", "note", "news", "gate", "release"},
                    key : Keys \cup {None}, out : BOOLEAN]
        /\ DOMAIN flows \subseteq Keys
        /\ cached \in [Keys -> Verdicts \cup {"none"}]
        /\ held \in [Keys -> Nat]
        /\ todo \subseteq [key : Keys, verdict : Verdicts]
        /\ waiting \in [Questions -> SUBSET Keys]
        /\ session \in [Programs -> Verdicts \cup {"none"}]
        /\ owner \in [Keys -> Programs]
    BY DEF IInv, Shape
  <2>8. SumFunction(held) <= MaxHeld
    BY DEF Roomy
  <2>9. /\ Cardinality(DOMAIN flows) <= FlowSlots
        /\ \A k \in DOMAIN flows : flows[k] \in [first : 0..now, last : 0..now]
        /\ known \subseteq Keys \X (0..MaxTime) /\ now \in 0..MaxTime
    BY DEF Table
  <2>10. /\ kpc \in {"poll", "scan", "put", "write"}
         /\ ans \in [q : Programs \cup {None}, answer : {"always", "deny", "none"},
                     refused : BOOLEAN, allow : SUBSET Programs, deny : SUBSET Programs]
         /\ frames \in 0..MaxFrames /\ events \in 0..MaxEvents /\ said \subseteq Programs
    BY DEF Plain
  <2> QED
    BY <2>1, <2>2, <2>3, <2>4, <2>5, <2>6, <2>7, <2>8, <2>9, <2>10 DEF TypeOK
<1> QED
  BY InitWhole, StepWhole, <1>1, PTL DEF Spec

\* Whatever waits for the person is asked: each program's question is open, and
\* where flows of nobody's wait exactly one of theirs is - whatever came while
\* a rule was written, and whoever answered what.
THEOREM QuestionsAreShown == Spec => []QuestionsShown
<1>1. WholeInv => QuestionsShown
  <2> SUFFICES ASSUME WholeInv PROVE QuestionsShown
    OBVIOUS
  <2>1. /\ WaitedFor = open \cup Range(queue) /\ Range(queue) \subseteq Keys
        /\ open \cap Keys = {} => queue = <<>>
        /\ \A a, b \in open \cap Keys : a = b
    BY OfRange DEF WholeInv, Shown, InTurn
  <2>2. WaitedFor \cap Programs \subseteq open
    BY <2>1, GateAssumption
  <2>3. ASSUME WaitedFor \cap Keys # {} PROVE Cardinality(open \cap Keys) = 1
    <3>1. Range(<<>>) = {}
      BY DEF Range
    <3>2. open \cap Keys # {}
      BY <2>1, <2>3, <3>1
    <3>3. PICK k : open \cap Keys = {} \cup {k}
      BY <2>1, <3>2
    <3> QED
      BY <3>3, FS_EmptySet, FS_AddElement
  <2> QED
    BY <2>1, <2>2, <2>3 DEF QuestionsShown, WaitedFor
<1> QED
  BY InitWhole, StepWhole, <1>1, PTL DEF Spec

\* With nothing left to do for relay or keeper, a frame held of a flow in the
\* table waits for the person alone: no order of news, looks, decisions, wakes
\* and releases leaves it behind, but for a decision pushed out of its slot and
\* news taken and not seen.
THEOREM NothingIsStranded == Spec => []NothingStranded
<1>1. WholeInv => NothingStranded
  <2> SUFFICES ASSUME WholeInv, rpc = Idle, kpc = "poll", ~news, ~wake,
                      NEW k \in Holds \cap DOMAIN flows, k \notin pushed \cup unheard
               PROVE  \E q \in open \cup Range(queue) : k \in waiting[q]
    BY DEF NothingStranded
  <2>1. k \notin Fresh
    BY DEF WholeInv, Pursued, Heard, Idle
  <2>2. Placed(k)
    <3>1. <<k, flows[k].first>> \in known
      BY <2>1 DEF Fresh, Seen
    <3>2. Placed(<<k, flows[k].first>>[1])
      BY <3>1 DEF WholeInv, Pursued, Placing
    <3> QED
      BY <3>2
  <2>3. ~Decided(k)
    BY DEF WholeInv, Pursued, Waking, Idle
  <2>4. todo = {}
    BY DEF WholeInv, Pursued, Slotted
  <2>5. PICK q \in Questions : k \in waiting[q]
    BY <2>2, <2>3, <2>4 DEF Placed
  <2>6. q \in WaitedFor
    BY <2>5 DEF WaitedFor
  <2> QED
    BY <2>5, <2>6 DEF WholeInv, Shown
<1> QED
  BY InitWhole, StepWhole, <1>1, PTL DEF Spec
=============================================================================
