----------------------------- MODULE PasteProofs ----------------------------
(***************************************************************************)
(* What holds of Paste for every set of instances, launches and kinds of   *)
(* copies: what an instance offers never goes back to an older copy, what  *)
(* passes for the person's latest copy is, nothing crosses into another    *)
(* container but what the person was shown and confirmed, and what an      *)
(* application reads is what its paste was answered with.                  *)
(***************************************************************************)
EXTENDS Paste, SeqLemmas

---------------------------------------------------------------------------
\* The types the argument needs.
CopyOrNone == Copies \cup {NoCopy}
OfferType  == [revision : Nat, copy : CopyOrNone]
LastType   == [epoch : Nat, source : Instances \cup {NoInstance}, ready : Nat, failed : BOOLEAN]
BrokerType == [next : Nat, live : SUBSET Instances, offers : [Instances -> OfferType],
               captures : [Instances -> Nat], last : LastType,
               seen : [Instances -> Nat], late : Nat]

EpochsType == [local : Nat, epoch : Nat]
ToldType   == [local : Nat, ok : BOOLEAN, revision : Nat]
ProxyType  == [alive : BOOLEAN, local : Nat, changing : Nat, epochs : EpochsType,
               begin : CopyOrNone, aborts : SUBSET Nat, capture : CopyOrNone,
               publish : CopyOrNone, told : ToldType, clear : BOOLEAN, clearing : Nat,
               refresh : BOOLEAN, changed : BOOLEAN, snap : Nat, reads : Seq(OfferType)]

PendType     == [ticket : Nat, confirmed : BOOLEAN, revision : Nat, copy : CopyOrNone]
ResultType   == [ok : BOOLEAN, revision : Nat, copy : CopyOrNone]
ShownType    == [kind : {"transfer"}, epoch : Nat, source : Instances, revision : Nat,
                 target : Nat, copy : CopyOrNone]
QuestionType == [phase : {"question", "secret"}, launch : Launches, shown : ShownType]

HelperOK(h) ==
    /\ h.phase \in {"none", "dropped", "prepare", "question", "secret", "tell", "told", "reaped"}
    /\ h.phase = "prepare" => h.launch \in Launches /\ h.expected \in Nat
    /\ h.phase \in {"question", "secret"} => h \in QuestionType
    /\ h.phase = "tell" => h.launch \in Launches /\ h.result \in ResultType
    /\ h.phase = "told" => h.launch \in Launches

Shape ==
    /\ broker \in BrokerType
    /\ up \subseteq Instances
    /\ home \in {{}, Instances}
    /\ px \in [Launches -> ProxyType]
    /\ pend \in [Launches -> PendType]
    /\ DOMAIN helper = Tickets
    /\ \A t \in Tickets : HelperOK(helper[t])
    /\ made \in 0 .. MaxSelections
    /\ asked \in 0 .. MaxPastes
    /\ faults \in Nat
    /\ announced \in [Selections -> Nat]

Epoch      == broker.last.epoch
Offered(i) == broker.offers[i].copy
Ann(i)     == announced[Offered(i).n]

\* What the serials bound, and what an instance that is not registered has.
Bounds ==
    /\ \A i \in Instances :
          /\ broker.offers[i].revision <= broker.next
          /\ (broker.offers[i].revision = 0) <=> (Offered(i) = NoCopy)
          /\ broker.captures[i] <= broker.next
          /\ broker.seen[i] <= Epoch
          /\ i \notin broker.live => broker.offers[i].revision = 0 /\ broker.captures[i] = 0
    /\ Epoch <= broker.next
    /\ broker.last.ready <= broker.next
    /\ \A n \in Selections : announced[n] <= broker.next /\ (n > made => announced[n] = 0)
    /\ up \subseteq broker.live

\* What is offered was announced, before what is being read in its place; and
\* what was announced with the latest epoch, or after it, stands for it.
Offers ==
    \A i \in Instances : Offered(i) # NoCopy =>
       /\ Ann(i) # 0
       /\ broker.captures[i] # 0 => Ann(i) < broker.captures[i]
       /\ Epoch # 0 /\ Ann(i) >= Epoch =>
            /\ broker.seen[i] = Epoch
            /\ i # broker.last.source /\ Ann(i) = Epoch => broker.last.ready # 0

\* The latest copy's instance, and what it offers where the copy is ready.
Source ==
    Epoch # 0 =>
      /\ broker.last.source \in Instances
      /\ broker.last.source \in broker.live => broker.seen[broker.last.source] = Epoch
      /\ broker.last.ready # 0 /\ broker.offers[broker.last.source].revision = broker.last.ready
         => /\ Offered(broker.last.source) # NoCopy
            /\ Ann(broker.last.source) = Epoch
            /\ InstanceOf[Offered(broker.last.source).by] = broker.last.source
      /\ \A i \in Instances : broker.captures[i] = Epoch => i = broker.last.source

\* An instance that stands for the latest epoch reads, and offers, nothing
\* older.
Standing ==
    \A i \in Instances : Epoch # 0 /\ broker.seen[i] = Epoch =>
       /\ broker.captures[i] = 0 \/ broker.captures[i] >= Epoch
       /\ (i # broker.last.source \/ broker.last.ready # 0) /\ Offered(i) # NoCopy
          => \/ Ann(i) >= Epoch
             \/ Offered(i).kind = "restored" /\ broker.offers[i].revision > Epoch

Ordered == Bounds /\ Offers /\ Source /\ Standing

\* A proxy works on its application's last selection, and knows the epoch it
\* was announced with; what it reads of the person's is no later than the
\* latest copy, once announced.
ProxyCopy(l, p, c) == c # NoCopy => c.n = p.local /\ c.by = l
Reads(p, c, b, ann) ==
    c # NoCopy => /\ Readable(c.kind)
                  /\ p.begin # NoCopy => c = p.begin
                  /\ c.kind # "restored" /\ p.begin = NoCopy => ann[c.n] <= b.last.epoch
ProxyOK(l, p, m, running, b, ann) ==
    /\ ~p.alive => p = Ended
    /\ p.alive => InstanceOf[l] \in running
    /\ p.local <= m
    /\ p.changing \in {0, p.local}
    /\ p.epochs # NoEpoch =>
         p.local # 0 /\ p.epochs.local = p.local /\ p.epochs.epoch = ann[p.local]
    /\ ProxyCopy(l, p, p.begin) /\ ProxyCopy(l, p, p.capture) /\ ProxyCopy(l, p, p.publish)
    /\ p.begin # NoCopy => ann[p.local] = 0 /\ p.epochs = NoEpoch
    /\ Reads(p, p.capture, b, ann) /\ Reads(p, p.publish, b, ann)
    /\ p.clear => p.local # 0
    /\ p.snap <= b.next
    /\ p.told.revision <= b.next

Proxies ==
    /\ \A l \in Launches : ProxyOK(l, px[l], made, up, broker, announced)
    /\ \A l, m \in Launches : px[l].local = px[m].local => l = m \/ px[l].local = 0

\* What was answered of an instance's offer is what it is, where it is still
\* at the revision answered.
Matches(b, i, r) ==
    /\ r.revision <= b.next
    /\ r.revision = 0 => r.copy = NoCopy
    /\ b.offers[i].revision = r.revision => b.offers[i].copy = r.copy
Showable(b, s) ==
    /\ s.epoch # 0 /\ s.epoch <= b.next
    /\ s.revision # 0 /\ s.revision <= b.next
    /\ b.last.epoch = s.epoch /\ b.offers[b.last.source].revision = s.revision
         => b.offers[b.last.source].copy = s.copy
HelperKnows(b, h) ==
    /\ h.phase = "tell" => Matches(b, InstanceOf[h.launch], h.result)
    /\ h.phase \in {"question", "secret"} => Showable(b, h.shown)
ReadsKnow(b, l, p) == \A k \in 1 .. Len(p.reads) : Matches(b, InstanceOf[l], p.reads[k])
Answers ==
    /\ \A l \in Launches :
         /\ Matches(broker, InstanceOf[l], pend[l])
         /\ ReadsKnow(broker, l, px[l])
         /\ pend[l].ticket <= asked
    /\ \A t \in Tickets : HelperKnows(broker, helper[t])

\* SnapshotIsCurrent, of one proxy.
Fresh(b, l, p) ==
    p.alive /\ ~p.changed /\ ~p.refresh /\ Free(p)
      => p.snap = b.offers[InstanceOf[l]].revision
Current == \A l \in Launches : Fresh(broker, l, px[l])

\* Only a launch that runs holds a paste back.
Held == \A l \in Launches : px[l].alive \/ pend[l] = NoPaste

IInv == Shape /\ Ordered /\ Proxies /\ Answers /\ Current /\ Held

---------------------------------------------------------------------------
(* What the broker's operators change. *)

\* No copy is NoCopy, and a copy's fields are what they are.
LEMMA CopyFields ==
    /\ \A c \in Copies : c # NoCopy /\ c.n \in Selections /\ c.by \in Launches /\ c.kind \in Kinds
    /\ NoCopy \in CopyOrNone
    /\ \A c \in CopyOrNone : c # NoCopy => c \in Copies
BY PasteAssumption DEF CopyOrNone, Copies, Selections

Begins(b, i, user, r) ==
    /\ r \in BrokerType
    /\ r.next = b.next + 1
    /\ r.live = b.live /\ r.offers = b.offers
    /\ r.captures = [b.captures EXCEPT ![i] = b.next + 1]
    /\ user => /\ r.last.epoch = b.next + 1 /\ r.last.source = i /\ r.last.ready = 0
               /\ r.seen = [b.seen EXCEPT ![i] = b.next + 1]
    /\ ~user => /\ r.last.epoch = b.last.epoch /\ r.last.source = b.last.source
                /\ r.last.ready = b.last.ready
                /\ r.seen = b.seen

LEMMA BeginFields ==
    ASSUME NEW b \in BrokerType, NEW i \in Instances, NEW user \in BOOLEAN
    PROVE  Begins(b, i, user, BeginCapture(b, i, user))
<1> DEFINE r == BeginCapture(b, i, user)
<1> DEFINE epoch == b.next + 1
           latest == IF user
                     THEN [epoch |-> epoch, source |-> i, ready |-> 0, failed |-> FALSE]
                     ELSE [b.last EXCEPT !.failed = @ \/ (b.last.source = i /\ b.last.ready = 0)]
           seen == IF user THEN epoch ELSE b.seen[i]
<1>1. epoch \in Nat /\ b.last \in LastType /\ b.seen \in [Instances -> Nat]
  BY DEF BrokerType
<1>2. /\ latest \in LastType
      /\ user => latest.epoch = epoch /\ latest.source = i /\ latest.ready = 0
      /\ ~user => /\ latest.epoch = b.last.epoch /\ latest.source = b.last.source
                  /\ latest.ready = b.last.ready
  BY <1>1 DEF LastType
<1>3. seen \in Nat /\ (user => seen = epoch) /\ (~user => [b.seen EXCEPT ![i] = seen] = b.seen)
  BY <1>1
<1>4. r = [b EXCEPT !.next = epoch, !.captures[i] = epoch, !.last = latest, !.seen[i] = seen]
  BY DEF BeginCapture
<1> DEFINE captures == [b.captures EXCEPT ![i] = epoch]
           marks == [b.seen EXCEPT ![i] = seen]
<1>6. captures \in [Instances -> Nat] /\ marks \in [Instances -> Nat]
  BY <1>1, <1>3 DEF BrokerType
<1>7. r = [b EXCEPT !.next = epoch, !.captures = captures, !.last = latest, !.seen = marks]
  BY <1>4
<1> HIDE DEF latest, seen, captures, marks, epoch
<1>8. /\ r \in BrokerType
      /\ r.next = epoch
      /\ r.live = b.live /\ r.offers = b.offers
      /\ r.captures = captures
      /\ r.last = latest
      /\ r.seen = marks
  BY <1>1, <1>2, <1>6, <1>7 DEF BrokerType
<1>5. /\ r \in BrokerType
      /\ r.next = epoch
      /\ r.live = b.live /\ r.offers = b.offers
      /\ r.captures = [b.captures EXCEPT ![i] = epoch]
      /\ r.last = latest
      /\ r.seen = [b.seen EXCEPT ![i] = seen]
  BY <1>8 DEF captures, marks
<1> QED
  BY <1>2, <1>3, <1>5 DEF epoch, Begins

LEMMA AbortFields ==
    ASSUME NEW b \in BrokerType, NEW i \in Instances, NEW epoch \in Nat,
           NEW r, r = AbortCapture(b, i, epoch)
    PROVE  /\ r \in BrokerType
           /\ r.next = b.next /\ r.live = b.live /\ r.offers = b.offers /\ r.seen = b.seen
           /\ r.late = b.late
           /\ r.last.epoch = b.last.epoch /\ r.last.source = b.last.source
           /\ r.last.ready = b.last.ready
           /\ r.captures[i] \in {0, b.captures[i]}
           /\ b.captures[i] \in {0, epoch} => r.captures[i] = 0
           /\ \A j \in Instances \ {i} : r.captures[j] = b.captures[j]
BY DEF AbortCapture, BrokerType, LastType

LEMMA CancelFields ==
    ASSUME NEW b \in BrokerType, NEW i \in Instances, NEW r, r = CancelCapture(b, i)
    PROVE  /\ r \in BrokerType
           /\ r.next = b.next /\ r.live = b.live /\ r.offers = b.offers /\ r.seen = b.seen
           /\ r.last.epoch = b.last.epoch /\ r.last.source = b.last.source
           /\ r.last.ready = b.last.ready
           /\ r.captures[i] = 0
           /\ \A j \in Instances \ {i} : r.captures[j] = b.captures[j]
<1>1. b.captures[i] \in Nat
  BY DEF BrokerType
<1>2. CASE b.captures[i] = 0
  BY <1>2 DEF CancelCapture
<1>3. CASE b.captures[i] # 0
  BY <1>1, <1>3, AbortFields DEF CancelCapture
<1> QED
  BY <1>2, <1>3

LEMMA SetFields ==
    ASSUME NEW b \in BrokerType, NEW i \in Instances, NEW copy \in Copies,
           NEW s, s = SetSelection(b, i, copy), NEW r, r = s.broker
    PROVE  /\ s = [broker |-> r, ok |-> TRUE, revision |-> b.next + 1]
           /\ r \in BrokerType
           /\ r.next = b.next + 1 /\ r.live = b.live
           /\ r.offers = [b.offers EXCEPT ![i] = [revision |-> b.next + 1, copy |-> copy]]
           /\ r.captures[i] = 0
           /\ \A j \in Instances \ {i} : r.captures[j] = b.captures[j] /\ r.seen[j] = b.seen[j]
           /\ copy.kind = "restored" => r.seen[i] = b.last.epoch
           /\ copy.kind # "restored" => r.seen[i] = b.seen[i]
           /\ r.last.epoch = b.last.epoch /\ r.last.source = b.last.source
           /\ r.last.ready = b.last.ready
<1> DEFINE c == CancelCapture(b, i)
           seen == IF copy.kind = "restored" THEN c.last.epoch ELSE c.seen[i]
           offer == [revision |-> b.next + 1, copy |-> copy]
<1>1. /\ c \in BrokerType
      /\ c.next = b.next /\ c.live = b.live /\ c.offers = b.offers /\ c.seen = b.seen
      /\ c.last.epoch = b.last.epoch /\ c.last.source = b.last.source
      /\ c.last.ready = b.last.ready
      /\ c.captures[i] = 0
      /\ \A j \in Instances \ {i} : c.captures[j] = b.captures[j]
  BY CancelFields
<1>2. /\ s.broker = [c EXCEPT !.next = b.next + 1, !.offers[i] = offer, !.seen[i] = seen]
      /\ s = [broker |-> s.broker, ok |-> TRUE, revision |-> b.next + 1]
  BY DEF SetSelection, Accepted
<1>3. offer \in OfferType /\ b.next + 1 \in Nat /\ b.next \in Nat
  BY DEF OfferType, CopyOrNone, BrokerType
<1>4. seen \in Nat
  BY <1>1 DEF BrokerType, LastType
<1>5. /\ copy.kind = "restored" => seen = b.last.epoch
      /\ copy.kind # "restored" => seen = b.seen[i]
  BY <1>1
<1> HIDE DEF c, seen, offer
<1> DEFINE next == b.next + 1
<1>n. next \in Nat /\ next = b.next + 1
  BY <1>3
<1>r. r = [c EXCEPT !.next = next, !.offers[i] = offer, !.seen[i] = seen]
  BY <1>2
<1> DEFINE offers == [c.offers EXCEPT ![i] = offer]
           marks == [c.seen EXCEPT ![i] = seen]
<1>o. offers \in [Instances -> OfferType] /\ marks \in [Instances -> Nat]
  BY <1>1, <1>3, <1>4 DEF BrokerType
<1>s. r = [c EXCEPT !.next = next, !.offers = offers, !.seen = marks]
  BY <1>r
<1> HIDE DEF next, offers, marks
<1>f. /\ r \in BrokerType
      /\ r.next = next /\ r.live = c.live /\ r.captures = c.captures /\ r.last = c.last
      /\ r.offers = offers /\ r.seen = marks
  BY <1>1, <1>s, <1>n, <1>o DEF BrokerType
<1>6. /\ r \in BrokerType
      /\ r.next = next /\ r.live = c.live /\ r.captures = c.captures /\ r.last = c.last
      /\ r.offers = [c.offers EXCEPT ![i] = offer]
      /\ r.seen = [c.seen EXCEPT ![i] = seen]
  BY <1>f DEF offers, marks
<1>7. r.seen[i] = seen /\ \A j \in Instances \ {i} : r.seen[j] = b.seen[j]
  BY <1>1, <1>6 DEF BrokerType
<1> QED
  BY <1>1, <1>2, <1>5, <1>6, <1>7, <1>n DEF offer

LEMMA ClearFields ==
    ASSUME NEW b \in BrokerType, NEW i \in Instances, NEW r, r = ClearSelection(b, i)
    PROVE  /\ r \in BrokerType
           /\ r.next = b.next /\ r.live = b.live /\ r.seen = b.seen
           /\ r.offers = [b.offers EXCEPT ![i] = NoOffer]
           /\ r.last.epoch = b.last.epoch /\ r.last.source = b.last.source
           /\ r.last.ready = b.last.ready
           /\ r.captures[i] = 0
           /\ \A j \in Instances \ {i} : r.captures[j] = b.captures[j]
<1> DEFINE c == CancelCapture(b, i)
<1>1. /\ c \in BrokerType
      /\ c.next = b.next /\ c.live = b.live /\ c.offers = b.offers /\ c.seen = b.seen
      /\ c.last.epoch = b.last.epoch /\ c.last.source = b.last.source
      /\ c.last.ready = b.last.ready
      /\ c.captures[i] = 0
      /\ \A j \in Instances \ {i} : c.captures[j] = b.captures[j]
  BY CancelFields
<1>2. r = [c EXCEPT !.offers[i] = NoOffer]
  BY DEF ClearSelection
<1>3. NoOffer \in OfferType
  BY CopyFields DEF NoOffer, OfferType
<1> HIDE DEF c
<1>4. /\ r \in BrokerType
      /\ r.next = c.next /\ r.live = c.live /\ r.captures = c.captures /\ r.last = c.last
      /\ r.offers = [c.offers EXCEPT ![i] = NoOffer]
      /\ r.seen = c.seen
  BY <1>1, <1>2, <1>3 DEF BrokerType
<1> QED
  BY <1>1, <1>4

LEMMA RemoveFields ==
    ASSUME NEW b \in BrokerType, NEW i \in Instances, NEW r, r = RemoveInstance(b, i)
    PROVE  /\ r \in BrokerType
           /\ r.next = b.next /\ r.live = b.live \ {i}
           /\ r.offers = [b.offers EXCEPT ![i] = NoOffer]
           /\ r.captures = [b.captures EXCEPT ![i] = 0]
           /\ r.seen = [b.seen EXCEPT ![i] = 0]
           /\ r.last.epoch = b.last.epoch /\ r.last.source = b.last.source
           /\ r.last.ready = b.last.ready
<1>1. NoOffer \in OfferType
  BY CopyFields DEF NoOffer, OfferType
<1> QED
  BY <1>1 DEF RemoveInstance, BrokerType, LastType

\* The three ends of a capture: rejected, given up, or taken in as the
\* instance's selection, and as the latest copy if it is that one.
Rejects(b, d) == d = [broker |-> b, ok |-> FALSE, revision |-> 0]
GivesUp(b, i, d) ==
    LET r == d.broker
    IN /\ d = [broker |-> r, ok |-> FALSE, revision |-> 0]
       /\ r \in BrokerType
       /\ r.next = b.next /\ r.live = b.live /\ r.offers = b.offers /\ r.seen = b.seen
       /\ r.last.epoch = b.last.epoch /\ r.last.source = b.last.source
       /\ r.last.ready = b.last.ready
       /\ r.captures[i] = 0
       /\ \A j \in Instances \ {i} : r.captures[j] = b.captures[j]
TakesIn(b, i, epoch, copy, d) ==
    LET r == d.broker
    IN /\ d = [broker |-> r, ok |-> TRUE, revision |-> b.next + 1]
       /\ b.captures[i] = epoch /\ epoch > b.late
       /\ r \in BrokerType
       /\ r.next = b.next + 1 /\ r.live = b.live
       /\ r.offers = [b.offers EXCEPT ![i] = [revision |-> b.next + 1, copy |-> copy]]
       /\ r.captures[i] = 0
       /\ \A j \in Instances \ {i} : r.captures[j] = b.captures[j] /\ r.seen[j] = b.seen[j]
       /\ copy.kind = "restored" => r.seen[i] = b.last.epoch
       /\ copy.kind # "restored" => r.seen[i] = b.seen[i]
       /\ r.last.epoch = b.last.epoch /\ r.last.source = b.last.source
       /\ b.last.source = i /\ b.last.epoch = epoch => r.last.ready = b.next + 1
       /\ ~ (b.last.source = i /\ b.last.epoch = epoch) => r.last.ready = b.last.ready

LEMMA FinishFields ==
    ASSUME NEW b \in BrokerType, NEW i \in Instances, NEW epoch \in Nat, NEW copy \in Copies,
           NEW fits,
           NEW d, d = FinishCapture(b, i, epoch, copy, fits)
    PROVE  Rejects(b, d) \/ GivesUp(b, i, d) \/ TakesIn(b, i, epoch, copy, d)
<1> DEFINE taken == [b EXCEPT !.captures[i] = 0]
           set   == SetSelection(taken, i, copy)
<1>1. /\ taken \in BrokerType
      /\ taken.next = b.next /\ taken.live = b.live /\ taken.offers = b.offers
      /\ taken.seen = b.seen /\ taken.last = b.last
      /\ taken.captures[i] = 0
      /\ \A j \in Instances \ {i} : taken.captures[j] = b.captures[j]
  BY DEF BrokerType
<1> HIDE DEF taken
<1>2. CASE ~OnTime(b, i, epoch)
  BY <1>2 DEF FinishCapture, Rejected, Rejects
<1>3. CASE OnTime(b, i, epoch) /\ ~fits
  <2> DEFINE a == AbortCapture(taken, i, epoch)
  <2>1. d = [broker |-> a, ok |-> FALSE, revision |-> 0]
    BY <1>3 DEF FinishCapture, Rejected, taken
  <2>2. /\ a \in BrokerType
        /\ a.next = taken.next /\ a.live = taken.live /\ a.offers = taken.offers
        /\ a.seen = taken.seen
        /\ a.last.epoch = taken.last.epoch /\ a.last.source = taken.last.source
        /\ a.last.ready = taken.last.ready
        /\ a.captures[i] = 0
        /\ \A j \in Instances \ {i} : a.captures[j] = taken.captures[j]
    BY <1>1, AbortFields
  <2>3. d.broker = a
    BY <2>1
  <2> HIDE DEF a
  <2> QED
    BY <1>1, <2>1, <2>2, <2>3 DEF GivesUp
<1>4. CASE OnTime(b, i, epoch) /\ fits
  <2>0. b.captures[i] = epoch /\ epoch > b.late
    BY <1>4 DEF OnTime
  <2> DEFINE s == set.broker
  <2>1. /\ set = [broker |-> s, ok |-> TRUE, revision |-> taken.next + 1]
        /\ s \in BrokerType
        /\ s.next = taken.next + 1 /\ s.live = taken.live
        /\ s.offers = [taken.offers EXCEPT ![i] = [revision |-> taken.next + 1, copy |-> copy]]
        /\ s.captures[i] = 0
        /\ \A j \in Instances \ {i} : s.captures[j] = taken.captures[j] /\ s.seen[j] = taken.seen[j]
        /\ copy.kind = "restored" => s.seen[i] = taken.last.epoch
        /\ copy.kind # "restored" => s.seen[i] = taken.seen[i]
        /\ s.last.epoch = taken.last.epoch /\ s.last.source = taken.last.source
        /\ s.last.ready = taken.last.ready
    BY <1>1, SetFields
  <2>2. CASE b.last.source = i /\ b.last.epoch = epoch
    <3>1. d = [set EXCEPT !.broker.last.ready = set.revision, !.broker.last.failed = FALSE]
      BY <1>4, <2>2 DEF FinishCapture, taken
    <3> HIDE DEF set
    <3>2. b.next + 1 \in Nat /\ set.revision = b.next + 1
      BY <1>1, <2>1 DEF BrokerType
    <3> DEFINE latest == [s.last EXCEPT !.ready = set.revision, !.failed = FALSE]
               done == [s EXCEPT !.last = latest]
    <3>a. d = [set EXCEPT !.broker = done]
      BY <3>1, <2>1, <3>2 DEF BrokerType, LastType
    <3>b. set = [broker |-> s, ok |-> TRUE, revision |-> b.next + 1]
      BY <1>1, <2>1
    <3>3. d = [broker |-> done, ok |-> TRUE, revision |-> b.next + 1]
      <4> HIDE DEF done, s
      <4> QED BY <3>a, <3>b
    <3>4. /\ latest \in LastType
          /\ latest.epoch = s.last.epoch /\ latest.source = s.last.source
          /\ latest.ready = b.next + 1
      BY <2>1, <3>2 DEF BrokerType, LastType
    <3> HIDE DEF latest, s
    <3>5. /\ done \in BrokerType
          /\ done.next = s.next /\ done.live = s.live /\ done.offers = s.offers
          /\ done.captures = s.captures /\ done.seen = s.seen /\ done.last = latest
      BY <2>1, <3>4 DEF BrokerType
    <3>6. d.broker = done
      BY <3>3
    <3> HIDE DEF done
    <3> QED
      BY <1>1, <2>0, <2>1, <2>2, <3>3, <3>4, <3>5, <3>6 DEF TakesIn
  <2>3. CASE ~ (b.last.source = i /\ b.last.epoch = epoch)
    <3>1. d = set
      BY <1>4, <2>3 DEF FinishCapture, taken
    <3>2. d.broker = s
      BY <3>1
    <3> HIDE DEF set, s
    <3> QED
      BY <1>1, <2>0, <2>1, <2>3, <3>1, <3>2 DEF TakesIn
  <2> QED
    BY <2>2, <2>3
<1> QED
  BY <1>2, <1>3, <1>4

\* What the broker's answers say.
LEMMA PrepareFacts ==
    ASSUME NEW b \in BrokerType, NEW t \in Instances, NEW expected \in Nat,
           NEW d, d = PreparePaste(b, t, expected)
    PROVE  /\ d.kind \in {"current", "pending", "transfer", "stale"}
           /\ d.kind = "current" =>
                d.target = b.offers[t].revision /\ d.copy = b.offers[t].copy
           /\ d.kind = "transfer" =>
                /\ d = [kind |-> "transfer", epoch |-> b.last.epoch, source |-> b.last.source,
                        revision |-> b.last.ready, target |-> b.offers[t].revision,
                        copy |-> b.offers[b.last.source].copy]
                /\ b.last.epoch # 0 /\ b.last.ready # 0
                /\ b.last.source # t
                /\ b.seen[t] < b.last.epoch
                /\ b.last.source \in b.live
                /\ b.offers[b.last.source].revision = b.last.ready
<1>1. b.seen[t] \in Nat /\ b.last.epoch \in Nat
  BY DEF BrokerType, LastType
<1>2. CASE IsCurrent(b, t)
  <2>0. ~IsPending(b, t) /\ ~IsTransfer(b, t, expected)
    BY <1>2 DEF IsCurrent, IsPending, IsTransfer
  <2>1. d = Decision("current", b, t)
    BY <1>2, <2>0 DEF PreparePaste
  <2>2. d.kind = "current" /\ d.target = b.offers[t].revision
    BY <2>1 DEF Decision
  <2>3. d.copy = b.offers[t].copy
    BY <2>1 DEF Decision
  <2> QED
    BY <2>2, <2>3
<1>3. CASE ~IsCurrent(b, t) /\ IsPending(b, t)
  <2>0. ~IsTransfer(b, t, expected)
    BY <1>3 DEF IsPending, IsTransfer
  <2>1. d = Decision("pending", b, t)
    BY <1>3, <2>0 DEF PreparePaste
  <2>2. d.kind = "pending"
    BY <2>1 DEF Decision
  <2> QED
    BY <2>2
<1>4. CASE ~IsCurrent(b, t) /\ ~IsPending(b, t) /\ IsTransfer(b, t, expected)
  <2>1. d = Decision("transfer", b, t)
    BY <1>4 DEF PreparePaste
  <2>2. /\ b.last.epoch # 0 /\ b.last.ready # 0
        /\ b.last.source # t
        /\ ~Has(b, t)
        /\ b.last.source \in b.live
        /\ b.offers[b.last.source].revision = b.last.ready
    BY <1>4 DEF IsTransfer, Reading, SourceOffer
  <2>3. b.seen[t] < b.last.epoch
    BY <1>1, <2>2 DEF Has
  <2> QED
    BY <2>1, <2>2, <2>3 DEF Decision, SourceOffer
<1>5. CASE ~IsCurrent(b, t) /\ ~IsPending(b, t) /\ ~IsTransfer(b, t, expected)
  BY <1>5 DEF PreparePaste, NoDecision
<1> QED
  BY <1>2, <1>3, <1>4, <1>5

\* A paste that goes through takes the latest copy, as it was shown; another
\* changes nothing.
Imports(b, t, shown, d) ==
    LET r == d.broker
    IN /\ d = [broker |-> r, ok |-> TRUE, revision |-> b.next + 1]
       /\ SourceOffer(b).copy \in Copies
       /\ shown.epoch = b.last.epoch /\ shown.revision = b.last.ready
       /\ shown.target = b.offers[t].revision
       /\ b.last.epoch # 0 /\ b.last.ready # 0
       /\ b.last.source # t
       /\ b.seen[t] < b.last.epoch
       /\ b.last.source \in b.live
       /\ b.offers[b.last.source].revision = b.last.ready
       /\ r \in BrokerType
       /\ r.next = b.next + 1 /\ r.live = b.live
       /\ r.offers = [b.offers EXCEPT ![t] = [revision |-> b.next + 1,
                                              copy |-> SourceOffer(b).copy]]
       /\ r.captures[t] = 0
       /\ \A j \in Instances \ {t} : r.captures[j] = b.captures[j] /\ r.seen[j] = b.seen[j]
       /\ r.seen[t] = b.last.epoch
       /\ r.last.epoch = b.last.epoch /\ r.last.source = b.last.source
       /\ r.last.ready = b.last.ready

LEMMA CommitFields ==
    ASSUME NEW b \in BrokerType, NEW t \in Instances, NEW shown \in ShownType,
           NEW secret, NEW fits,
           b.last.epoch # 0 /\ b.last.ready # 0 /\ SourceOffer(b).revision = b.last.ready
              => SourceOffer(b).copy \in Copies,
           NEW d, d = CommitPaste(b, t, shown, secret, fits)
    PROVE  Rejects(b, d) \/ Imports(b, t, shown, d)
<1>1. CASE ~ (MayCommit(b, t, shown, secret) /\ fits)
  BY <1>1 DEF CommitPaste, Rejected, Rejects
<1>2. CASE MayCommit(b, t, shown, secret) /\ fits
  <2> DEFINE now == PreparePaste(b, t, shown.target)
             copy == SourceOffer(b).copy
             set == SetSelection(b, t, copy)
             s == set.broker
  <2>1. /\ now.kind = "transfer" /\ now.epoch = shown.epoch
        /\ now.revision = shown.revision /\ now.target = shown.target
    BY <1>2 DEF MayCommit
  <2>2. shown.target \in Nat /\ shown.epoch \in Nat
    BY DEF ShownType
  <2>3. /\ now = [kind |-> "transfer", epoch |-> b.last.epoch, source |-> b.last.source,
                        revision |-> b.last.ready, target |-> b.offers[t].revision,
                        copy |-> b.offers[b.last.source].copy]
        /\ b.last.epoch # 0 /\ b.last.ready # 0
        /\ b.last.source # t
        /\ b.seen[t] < b.last.epoch
        /\ b.last.source \in b.live
        /\ b.offers[b.last.source].revision = b.last.ready
    BY <2>1, <2>2, PrepareFacts
  <2>4. copy \in Copies
    BY <2>3 DEF SourceOffer
  <2> HIDE DEF now, copy
  <2>5. /\ set = [broker |-> s, ok |-> TRUE, revision |-> b.next + 1]
        /\ s \in BrokerType
        /\ s.next = b.next + 1 /\ s.live = b.live
        /\ s.offers = [b.offers EXCEPT ![t] = [revision |-> b.next + 1, copy |-> copy]]
        /\ s.captures[t] = 0
        /\ \A j \in Instances \ {t} : s.captures[j] = b.captures[j] /\ s.seen[j] = b.seen[j]
        /\ s.last.epoch = b.last.epoch /\ s.last.source = b.last.source
        /\ s.last.ready = b.last.ready
    BY <2>4, SetFields
  <2>6. d = [set EXCEPT !.broker.seen[t] = shown.epoch]
    BY <1>2 DEF CommitPaste, copy
  <2> HIDE DEF set
  <2> DEFINE marks == [s.seen EXCEPT ![t] = shown.epoch]
             done == [s EXCEPT !.seen = marks]
  <2>a. d = [set EXCEPT !.broker = done]
    BY <2>5, <2>6 DEF BrokerType
  <2>7. d = [broker |-> done, ok |-> TRUE, revision |-> b.next + 1]
    <3> HIDE DEF done, s
    <3> QED BY <2>a, <2>5
  <2>8. /\ marks \in [Instances -> Nat] /\ marks[t] = shown.epoch
        /\ \A j \in Instances \ {t} : marks[j] = b.seen[j]
    BY <2>2, <2>5 DEF BrokerType
  <2> HIDE DEF marks, s
  <2>9. /\ done \in BrokerType
        /\ done.next = s.next /\ done.live = s.live /\ done.offers = s.offers
        /\ done.captures = s.captures /\ done.seen = marks /\ done.last = s.last
    BY <2>5, <2>8 DEF BrokerType
  <2>10. d.broker = done
    BY <2>7
  <2>11. shown.epoch = b.last.epoch /\ shown.revision = b.last.ready
         /\ shown.target = b.offers[t].revision
    BY <2>1, <2>3
  <2> HIDE DEF done
  <2> QED
    BY <2>3, <2>4, <2>5, <2>7, <2>8, <2>9, <2>10, <2>11 DEF copy, Imports
<1> QED
  BY <1>1, <1>2

---------------------------------------------------------------------------
(* The broker's steps keep its offers in order. *)

LEMMA BrokerFields ==
    ASSUME NEW b \in BrokerType
    PROVE  /\ b.next \in Nat /\ b.live \subseteq Instances
           /\ \A j \in Instances :
                 /\ b.offers[j].revision \in Nat /\ b.offers[j].copy \in CopyOrNone
                 /\ b.captures[j] \in Nat /\ b.seen[j] \in Nat
           /\ b.last.epoch \in Nat /\ b.last.ready \in Nat
           /\ b.last.source \in Instances \cup {NoInstance}
BY DEF BrokerType, LastType, OfferType

\* An instance's offer stays, goes, or gives way to one with a new serial; so
\* does the latest epoch.
Moves ==
    /\ broker' \in BrokerType
    /\ broker'.next >= broker.next
    /\ \A i \in Instances :
          \/ broker'.offers[i] = broker.offers[i]
          \/ broker'.offers[i] = NoOffer
          \/ broker'.offers[i].revision = broker'.next /\ broker'.next > broker.next
    /\ Epoch' >= Epoch
    /\ \/ Epoch' = Epoch /\ broker'.last.source = broker.last.source
       \/ Epoch' > broker.next

LEMMA BrokerStays ==
    ASSUME Shape, Ordered, UNCHANGED <<broker, announced>>, made' >= made, up' \subseteq up,
           made' \in Nat
    PROVE  Ordered' /\ Moves
<1>1. made \in Nat
  BY DEF Shape
<1>2. Bounds'
  BY <1>1 DEF Shape, Ordered, Bounds, Offered, Epoch, Selections
<1>3. Offers' /\ Source' /\ Standing'
  BY DEF Ordered, Offers, Source, Standing, Offered, Epoch, Ann
<1>4. Moves
  BY BrokerFields DEF Shape, Moves, Epoch
<1> QED
  BY <1>2, <1>3, <1>4 DEF Ordered

\* A copy announced has the latest serial there is.
LEMMA BeginKeeps ==
    ASSUME Shape, Ordered, NEW i \in broker.live, NEW n \in Selections, NEW user \in BOOLEAN,
           announced[n] = 0, n <= made, UNCHANGED <<up, made>>,
           broker' = BeginCapture(broker, i, user),
           announced' = [announced EXCEPT ![n] = broker.next + 1]
    PROVE  Ordered' /\ Moves
<1> DEFINE e == broker.next + 1
<1>t. i \in Instances /\ broker \in BrokerType /\ announced \in [Selections -> Nat]
  BY DEF Shape, BrokerType
<1>f. /\ broker.next \in Nat /\ broker.live \subseteq Instances
      /\ \A j \in Instances :
            /\ broker.offers[j].revision \in Nat /\ broker.offers[j].copy \in CopyOrNone
            /\ broker.captures[j] \in Nat /\ broker.seen[j] \in Nat
      /\ broker.last.epoch \in Nat /\ broker.last.ready \in Nat
      /\ broker.last.source \in Instances \cup {NoInstance}
  BY <1>t, BrokerFields
<1>b. /\ broker' \in BrokerType
      /\ broker'.next = e
      /\ broker'.live = broker.live /\ broker'.offers = broker.offers
      /\ broker'.captures = [broker.captures EXCEPT ![i] = e]
      /\ user => /\ broker'.last.epoch = e /\ broker'.last.source = i /\ broker'.last.ready = 0
                 /\ broker'.seen = [broker.seen EXCEPT ![i] = e]
      /\ ~user => /\ broker'.last.epoch = broker.last.epoch
                  /\ broker'.last.source = broker.last.source
                  /\ broker'.last.ready = broker.last.ready
                  /\ broker'.seen = broker.seen
  <2>1. Begins(broker, i, user, broker')
    BY <1>t, BeginFields, Zenon
  <2> QED
    BY <2>1 DEF Begins
<1>c. /\ broker'.captures[i] = e /\ \A j \in Instances \ {i} : broker'.captures[j] = broker.captures[j]
      /\ user => broker'.seen[i] = e /\ \A j \in Instances \ {i} : broker'.seen[j] = broker.seen[j]
  BY <1>t, <1>b DEF BrokerType
<1>o. \A j \in Instances :
         /\ Offered(j)' = Offered(j)
         /\ Offered(j) # NoCopy => Ann(j)' = Ann(j) /\ Ann(j) \in Nat /\ Ann(j) < e
  <2> SUFFICES ASSUME NEW j \in Instances, Offered(j) # NoCopy
               PROVE  Ann(j)' = Ann(j) /\ Ann(j) \in Nat /\ Ann(j) < e
    BY <1>b DEF Offered
  <2>1. Offered(j).n \in Selections
    BY <1>f, CopyFields DEF Offered
  <2>2. Ann(j) # 0 /\ Ann(j) \in Nat /\ Ann(j) <= broker.next
    BY <1>t, <2>1 DEF Ordered, Offers, Bounds, Ann
  <2> QED
    BY <1>t, <1>b, <1>f, <2>1, <2>2 DEF Ann, Offered
<1>e. (user => Epoch' = e) /\ (~user => Epoch' = Epoch) /\ Epoch \in Nat /\ Epoch <= broker.next
  BY <1>b, <1>f DEF Epoch, Ordered, Bounds
<1>u. up' = up /\ made' = made /\ made \in Nat
  BY DEF Shape
<1> HIDE DEF e
<1>n. e \in Nat /\ e = broker.next + 1
  BY <1>f DEF e
<1>1. Bounds'
  <2>1. ASSUME NEW j \in Instances
        PROVE  /\ broker'.offers[j].revision <= broker'.next
               /\ (broker'.offers[j].revision = 0) <=> (Offered(j)' = NoCopy)
               /\ broker'.captures[j] <= broker'.next
               /\ broker'.seen[j] <= Epoch'
               /\ j \notin broker'.live => broker'.offers[j].revision = 0 /\ broker'.captures[j] = 0
    <3>1. /\ broker.offers[j].revision <= broker.next
          /\ (broker.offers[j].revision = 0) <=> (Offered(j) = NoCopy)
          /\ broker.captures[j] <= broker.next
          /\ broker.seen[j] <= Epoch
          /\ j \notin broker.live => broker.offers[j].revision = 0 /\ broker.captures[j] = 0
      BY DEF Ordered, Bounds
    <3>0. broker.offers[j].revision \in Nat /\ broker.captures[j] \in Nat /\ broker.seen[j] \in Nat
          /\ broker.next \in Nat
      BY <1>f
    <3>2. /\ broker'.offers[j].revision <= broker'.next
          /\ (broker'.offers[j].revision = 0) <=> (Offered(j)' = NoCopy)
      BY ONLY <3>1, <3>0, <1>b, <1>o, <1>n, j \in Instances
    <3>3. broker'.captures[j] <= broker'.next
      BY ONLY <3>1, <3>0, <1>b, <1>c, <1>n, j \in Instances
    <3>6. broker'.seen[j] <= Epoch'
      <4>1. CASE user /\ j = i
        BY ONLY <4>1, <1>c, <1>e, <1>n
      <4>2. CASE user /\ j # i
        BY ONLY <4>2, <3>1, <3>0, <1>c, <1>e, <1>n, j \in Instances
      <4>3. CASE ~user
        BY <4>3, <3>1, <1>b, <1>e
      <4> QED
        BY <4>1, <4>2, <4>3
    <3>7. j \notin broker'.live => broker'.offers[j].revision = 0 /\ broker'.captures[j] = 0
      BY <3>1, <1>b, <1>c
    <3> QED
      BY <3>2, <3>3, <3>6, <3>7
  <2>2. Epoch' <= broker'.next /\ broker'.last.ready <= broker'.next
    BY <1>b, <1>e, <1>f, <1>n DEF Ordered, Bounds
  <2>3. \A m \in Selections : announced'[m] <= broker'.next /\ (m > made' => announced'[m] = 0)
    BY <1>t, <1>b, <1>f, <1>n, <1>u DEF Ordered, Bounds, Selections, e
  <2>4. up' \subseteq broker'.live
    BY <1>b DEF Ordered, Bounds
  <2> QED
    BY <2>1, <2>2, <2>3, <2>4 DEF Bounds
<1>2. Offers'
  <2> SUFFICES ASSUME NEW j \in Instances, Offered(j)' # NoCopy
               PROVE  /\ Ann(j)' # 0
                      /\ broker'.captures[j] # 0 => Ann(j)' < broker'.captures[j]
                      /\ Epoch' # 0 /\ Ann(j)' >= Epoch' =>
                           /\ broker'.seen[j] = Epoch'
                           /\ j # broker'.last.source /\ Ann(j)' = Epoch' => broker'.last.ready # 0
    BY DEF Offers
  <2>1. /\ Ann(j) # 0
        /\ broker.captures[j] # 0 => Ann(j) < broker.captures[j]
        /\ Epoch # 0 /\ Ann(j) >= Epoch =>
             /\ broker.seen[j] = Epoch
             /\ j # broker.last.source /\ Ann(j) = Epoch => broker.last.ready # 0
    BY <1>o DEF Ordered, Offers
  <2> QED
    BY <2>1, <1>o, <1>b, <1>c, <1>e, <1>f, <1>n
<1>3. Source'
  <2>1. CASE user
    <3>1. \A j \in Instances : broker.captures[j] <= broker.next
      BY DEF Ordered, Bounds
    <3>2. \A j \in Instances : broker'.captures[j] = e => j = i
      BY <3>1, <1>c, <1>f, <1>n
    <3>3. broker'.last.source = i /\ broker'.seen[i] = e /\ broker'.last.ready = 0 /\ Epoch' = e
      BY <2>1, <1>b, <1>c, <1>e
    <3> QED
      BY <1>t, <3>2, <3>3 DEF Source
  <2>2. CASE ~user
    <3> SUFFICES ASSUME Epoch # 0
                 PROVE  Source'
      BY <2>2, <1>e DEF Source
    <3> DEFINE s == broker.last.source
    <3>1. /\ s \in Instances
          /\ s \in broker.live => broker.seen[s] = Epoch
          /\ broker.last.ready # 0 /\ broker.offers[s].revision = broker.last.ready
             => Offered(s) # NoCopy /\ Ann(s) = Epoch /\ InstanceOf[Offered(s).by] = s
          /\ \A j \in Instances : broker.captures[j] = Epoch => j = s
      BY DEF Ordered, Source
    <3>2. \A j \in Instances : broker'.captures[j] = Epoch => j = s
      BY <3>1, <1>c, <1>e, <1>f, <1>n
    <3>3. broker'.last.ready # 0 /\ broker'.offers[s].revision = broker'.last.ready
             => Offered(s)' # NoCopy /\ Ann(s)' = Epoch /\ InstanceOf[Offered(s)'.by] = s
      BY <2>2, <3>1, <1>b, <1>o
    <3>4. s \in broker'.live => broker'.seen[s] = Epoch
      BY <2>2, <3>1, <1>b
    <3>5. broker'.last.source = s /\ Epoch' = Epoch
      BY <2>2, <1>b, <1>e
    <3> QED
      BY <3>1, <3>2, <3>3, <3>4, <3>5 DEF Source, Offered, Ann
  <2> QED
    BY <2>1, <2>2
<1>4. Standing'
  <2> SUFFICES ASSUME NEW j \in Instances, Epoch' # 0, broker'.seen[j] = Epoch'
               PROVE  /\ broker'.captures[j] = 0 \/ broker'.captures[j] >= Epoch'
                      /\ (j # broker'.last.source \/ broker'.last.ready # 0) /\ Offered(j)' # NoCopy
                         => \/ Ann(j)' >= Epoch'
                            \/ Offered(j)'.kind = "restored" /\ broker'.offers[j].revision > Epoch'
    BY DEF Standing
  <2>1. CASE user
    <3>0. broker.seen[j] <= Epoch
      BY DEF Ordered, Bounds
    <3>1. broker.seen[j] < e
      <4>1. broker.seen[j] \in Nat /\ broker.next \in Nat
        BY <1>f
      <4> QED
        BY ONLY <3>0, <4>1, <1>e, <1>n
    <3>2. j = i
      <4> SUFFICES ASSUME j # i PROVE FALSE
        OBVIOUS
      <4>1. broker'.seen[j] = broker.seen[j] /\ Epoch' = e
        BY <2>1, <1>c, <1>e
      <4> QED
        BY ONLY <3>1, <4>1, <1>f, <1>n, j \in Instances, broker'.seen[j] = Epoch'
    <3> QED
      BY ONLY <2>1, <3>2, <1>b, <1>c, <1>e, <1>n, broker'.seen[j] = Epoch'
  <2>2. CASE ~user
    <3>1. /\ broker.captures[j] = 0 \/ broker.captures[j] >= Epoch
          /\ (j # broker.last.source \/ broker.last.ready # 0) /\ Offered(j) # NoCopy
             => \/ Ann(j) >= Epoch
                \/ Offered(j).kind = "restored" /\ broker.offers[j].revision > Epoch
      BY <2>2, <1>b, <1>e DEF Ordered, Standing
    <3> QED
      BY <2>2, <3>1, <1>b, <1>c, <1>e, <1>f, <1>n, <1>o
  <2> QED
    BY <2>1, <2>2
<1>5. Moves
  BY <1>b, <1>c, <1>e, <1>f, <1>n DEF Moves, Epoch
<1> QED
  BY <1>1, <1>2, <1>3, <1>4, <1>5 DEF Ordered

\* What only takes away - a capture, an offer, an instance - keeps the order.
LEMMA LessKeeps ==
    ASSUME Shape, Ordered, UNCHANGED <<announced, up, made>>,
           broker' \in BrokerType,
           broker'.next = broker.next,
           broker'.last.epoch = broker.last.epoch, broker'.last.source = broker.last.source,
           broker'.last.ready = broker.last.ready,
           broker'.live \subseteq broker.live, up \subseteq broker'.live,
           \A j \in Instances :
              /\ broker'.captures[j] \in {0, broker.captures[j]}
              /\ broker'.offers[j] \in {NoOffer, broker.offers[j]}
              /\ broker'.seen[j] \in {0, broker.seen[j]}
              /\ broker'.seen[j] # broker.seen[j] =>
                    j \notin broker'.live /\ broker'.offers[j] = NoOffer /\ broker'.captures[j] = 0
              /\ j \in broker.live /\ j \notin broker'.live =>
                    broker'.offers[j] = NoOffer /\ broker'.captures[j] = 0
    PROVE  Ordered' /\ Moves
<1>t. broker \in BrokerType /\ announced \in [Selections -> Nat]
  BY DEF Shape
<1>f. /\ broker.next \in Nat /\ broker.live \subseteq Instances
      /\ \A j \in Instances :
            /\ broker.offers[j].revision \in Nat /\ broker.offers[j].copy \in CopyOrNone
            /\ broker.captures[j] \in Nat /\ broker.seen[j] \in Nat
      /\ broker.last.epoch \in Nat /\ broker.last.ready \in Nat
      /\ broker.last.source \in Instances \cup {NoInstance}
  BY <1>t, BrokerFields
<1>e. Epoch' = Epoch /\ Epoch \in Nat
  BY <1>f DEF Epoch
<1>n. NoOffer.revision = 0 /\ NoOffer.copy = NoCopy
  BY DEF NoOffer
<1>o. \A j \in Instances :
         \/ Offered(j)' = NoCopy /\ broker'.offers[j].revision = 0
         \/ /\ Offered(j)' = Offered(j) /\ Ann(j)' = Ann(j)
            /\ broker'.offers[j].revision = broker.offers[j].revision
            /\ broker'.offers[j] = broker.offers[j]
  BY <1>n DEF Offered, Ann
<1>1. Bounds'
  <2>1. ASSUME NEW j \in Instances
        PROVE  /\ broker'.offers[j].revision <= broker'.next
               /\ (broker'.offers[j].revision = 0) <=> (Offered(j)' = NoCopy)
               /\ broker'.captures[j] <= broker'.next
               /\ broker'.seen[j] <= Epoch'
               /\ j \notin broker'.live => broker'.offers[j].revision = 0 /\ broker'.captures[j] = 0
    <3>1. /\ broker.offers[j].revision <= broker.next
          /\ (broker.offers[j].revision = 0) <=> (Offered(j) = NoCopy)
          /\ broker.captures[j] <= broker.next
          /\ broker.seen[j] <= Epoch
          /\ j \notin broker.live => broker.offers[j].revision = 0 /\ broker.captures[j] = 0
      BY DEF Ordered, Bounds
    <3>2. /\ broker.offers[j].revision \in Nat /\ broker.captures[j] \in Nat
          /\ broker.seen[j] \in Nat
      BY <1>f
    <3>3. broker'.offers[j].revision <= broker'.next
      BY <3>1, <3>2, <1>o, <1>f
    <3>4. (broker'.offers[j].revision = 0) <=> (Offered(j)' = NoCopy)
      BY <3>1, <1>o
    <3>5. broker'.captures[j] <= broker'.next /\ broker'.seen[j] <= Epoch'
      BY <3>1, <3>2, <1>f, <1>e
    <3>6. j \notin broker'.live => broker'.offers[j].revision = 0 /\ broker'.captures[j] = 0
      BY <3>1, <1>n, <1>o
    <3> QED
      BY <3>3, <3>4, <3>5, <3>6
  <2>2. Epoch' <= broker'.next /\ broker'.last.ready <= broker'.next
    BY <1>e DEF Ordered, Bounds
  <2>3. \A m \in Selections : announced'[m] <= broker'.next /\ (m > made' => announced'[m] = 0)
    BY DEF Ordered, Bounds
  <2> QED
    BY <2>1, <2>2, <2>3 DEF Bounds
<1>2. Offers'
  <2> SUFFICES ASSUME NEW j \in Instances, Offered(j)' # NoCopy
               PROVE  /\ Ann(j)' # 0
                      /\ broker'.captures[j] # 0 => Ann(j)' < broker'.captures[j]
                      /\ Epoch' # 0 /\ Ann(j)' >= Epoch' =>
                           /\ broker'.seen[j] = Epoch'
                           /\ j # broker'.last.source /\ Ann(j)' = Epoch' => broker'.last.ready # 0
    BY DEF Offers
  <2>0. Offered(j)' = Offered(j) /\ Ann(j)' = Ann(j) /\ broker'.offers[j] # NoOffer
    BY <1>o, <1>n DEF Offered
  <2>1. /\ Ann(j) # 0
        /\ broker.captures[j] # 0 => Ann(j) < broker.captures[j]
        /\ Epoch # 0 /\ Ann(j) >= Epoch =>
             /\ broker.seen[j] = Epoch
             /\ j # broker.last.source /\ Ann(j) = Epoch => broker.last.ready # 0
    BY <2>0 DEF Ordered, Offers
  <2>2. broker'.seen[j] = broker.seen[j] /\ broker'.captures[j] \in {0, broker.captures[j]}
    BY <2>0
  <2> QED
    BY <2>0, <2>1, <2>2, <1>e
<1>3. Source'
  <2> SUFFICES ASSUME Epoch # 0
               PROVE  Source'
    BY <1>e DEF Source
  <2> DEFINE s == broker.last.source
  <2>1. /\ s \in Instances
        /\ s \in broker.live => broker.seen[s] = Epoch
        /\ broker.last.ready # 0 /\ broker.offers[s].revision = broker.last.ready
             => Offered(s) # NoCopy /\ Ann(s) = Epoch /\ InstanceOf[Offered(s).by] = s
        /\ \A j \in Instances : broker.captures[j] = Epoch => j = s
    BY DEF Ordered, Source
  <2>2. \A j \in Instances : broker'.captures[j] = Epoch => j = s
    BY <2>1
  <2>3. broker'.last.ready # 0 /\ broker'.offers[s].revision = broker'.last.ready
             => Offered(s)' # NoCopy /\ Ann(s)' = Epoch /\ InstanceOf[Offered(s)'.by] = s
    BY <2>1, <1>o
  <2>4. s \in broker'.live => broker'.seen[s] = Epoch
    BY <2>1
  <2> QED
    BY <2>1, <2>2, <2>3, <2>4, <1>e DEF Source, Offered, Ann
<1>4. Standing'
  <2> SUFFICES ASSUME NEW j \in Instances, Epoch' # 0, broker'.seen[j] = Epoch'
               PROVE  /\ broker'.captures[j] = 0 \/ broker'.captures[j] >= Epoch'
                      /\ (j # broker'.last.source \/ broker'.last.ready # 0) /\ Offered(j)' # NoCopy
                         => \/ Ann(j)' >= Epoch'
                            \/ Offered(j)'.kind = "restored" /\ broker'.offers[j].revision > Epoch'
    BY DEF Standing
  <2>0. broker.seen[j] = Epoch
    BY <1>e
  <2>1. /\ broker.captures[j] = 0 \/ broker.captures[j] >= Epoch
        /\ (j # broker.last.source \/ broker.last.ready # 0) /\ Offered(j) # NoCopy
             => \/ Ann(j) >= Epoch
                \/ Offered(j).kind = "restored" /\ broker.offers[j].revision > Epoch
    BY <2>0, <1>e DEF Ordered, Standing
  <2> QED
    BY <2>1, <1>o, <1>e
<1>5. Moves
  BY <1>e, <1>f DEF Moves, Epoch
<1> QED
  BY <1>1, <1>2, <1>3, <1>4, <1>5 DEF Ordered

\* A selection taken in keeps the order: where it stands for the latest copy
\* it was announced with it or after it, or restored in its place.
LEMMA SetKeeps ==
    ASSUME Shape, Ordered, UNCHANGED <<announced, up, made>>,
           NEW i \in broker.live, NEW copy \in Copies,
           broker' \in BrokerType,
           broker'.next = broker.next + 1, broker'.live = broker.live,
           broker'.offers = [broker.offers EXCEPT ![i] = [revision |-> broker.next + 1, copy |-> copy]],
           broker'.captures[i] = 0,
           \A j \in Instances \ {i} :
              broker'.captures[j] = broker.captures[j] /\ broker'.seen[j] = broker.seen[j],
           broker'.seen[i] \in {broker.seen[i], broker.last.epoch},
           broker'.last.epoch = broker.last.epoch, broker'.last.source = broker.last.source,
           \/ broker'.last.ready = broker.last.ready
           \/ /\ broker.last.source = i /\ broker'.last.ready = broker.next + 1
              /\ announced[copy.n] = Epoch /\ InstanceOf[copy.by] = i,
           announced[copy.n] # 0,
           Epoch # 0 /\ announced[copy.n] >= Epoch =>
              /\ broker'.seen[i] = Epoch
              /\ i # broker.last.source /\ announced[copy.n] = Epoch => broker.last.ready # 0,
           Epoch # 0 /\ broker'.seen[i] = Epoch =>
              announced[copy.n] >= Epoch \/ copy.kind = "restored"
    PROVE  Ordered' /\ Moves
<1> DEFINE e == broker.next + 1
<1>t. i \in Instances /\ broker \in BrokerType /\ announced \in [Selections -> Nat]
  BY DEF Shape, BrokerType
<1>f. /\ broker.next \in Nat /\ broker.live \subseteq Instances
      /\ \A j \in Instances :
            /\ broker.offers[j].revision \in Nat /\ broker.offers[j].copy \in CopyOrNone
            /\ broker.captures[j] \in Nat /\ broker.seen[j] \in Nat
      /\ broker.last.epoch \in Nat /\ broker.last.ready \in Nat
      /\ broker.last.source \in Instances \cup {NoInstance}
  BY <1>t, BrokerFields
<1>e. Epoch' = Epoch /\ Epoch \in Nat /\ Epoch <= broker.next
  BY <1>f DEF Epoch, Ordered, Bounds
<1>a. copy # NoCopy /\ copy.n \in Selections /\ announced[copy.n] \in Nat
  BY <1>t, CopyFields
<1>i. /\ Offered(i)' = copy /\ broker'.offers[i].revision = e
      /\ Ann(i)' = announced[copy.n]
  BY <1>t DEF Offered, Ann, BrokerType
<1>j. \A j \in Instances \ {i} :
         /\ broker'.offers[j] = broker.offers[j]
         /\ Offered(j)' = Offered(j) /\ Ann(j)' = Ann(j)
  BY <1>t DEF Offered, Ann, BrokerType
<1>r. \/ broker'.last.ready = broker.last.ready
      \/ /\ broker.last.source = i /\ broker'.last.ready = e
         /\ announced[copy.n] = Epoch /\ InstanceOf[copy.by] = i
  OBVIOUS
<1>s. broker'.last.ready # 0 \/ broker'.last.ready = broker.last.ready
  BY <1>f
<1> HIDE DEF e
<1>n. e \in Nat /\ e = broker.next + 1 /\ e # 0
  BY <1>f DEF e
<1>1. Bounds'
  <2>1. ASSUME NEW j \in Instances
        PROVE  /\ broker'.offers[j].revision <= broker'.next
               /\ (broker'.offers[j].revision = 0) <=> (Offered(j)' = NoCopy)
               /\ broker'.captures[j] <= broker'.next
               /\ broker'.seen[j] <= Epoch'
               /\ j \notin broker'.live => broker'.offers[j].revision = 0 /\ broker'.captures[j] = 0
    <3>1. /\ broker.offers[j].revision <= broker.next
          /\ (broker.offers[j].revision = 0) <=> (Offered(j) = NoCopy)
          /\ broker.captures[j] <= broker.next
          /\ broker.seen[j] <= Epoch
          /\ j \notin broker.live => broker.offers[j].revision = 0 /\ broker.captures[j] = 0
      BY DEF Ordered, Bounds
    <3>2. /\ broker.offers[j].revision \in Nat /\ broker.captures[j] \in Nat
          /\ broker.seen[j] \in Nat
      BY <1>f
    <3>4. CASE j = i
      <4>1. broker'.offers[j].revision <= broker'.next /\ broker'.captures[j] <= broker'.next
        BY <3>4, <1>i, <1>n, <1>f
      <4>2. (broker'.offers[j].revision = 0) <=> (Offered(j)' = NoCopy)
        BY <3>4, <1>i, <1>n, <1>a
      <4>3. broker'.seen[j] <= Epoch'
        BY <3>1, <3>2, <3>4, <1>e DEF Epoch
      <4> QED
        BY <3>4, <4>1, <4>2, <4>3
    <3>5. CASE j # i
      BY <3>1, <3>2, <3>5, <1>j, <1>f, <1>e
    <3> QED
      BY <3>4, <3>5
  <2>2. Epoch' <= broker'.next /\ broker'.last.ready <= broker'.next
    BY <1>e, <1>f, <1>n, <1>r DEF Ordered, Bounds
  <2>3. \A m \in Selections : announced'[m] <= broker'.next /\ (m > made' => announced'[m] = 0)
    BY <1>t, <1>f DEF Ordered, Bounds
  <2>4. up' \subseteq broker'.live
    BY DEF Ordered, Bounds
  <2> QED
    BY <2>1, <2>2, <2>3, <2>4 DEF Bounds
<1>2. Offers'
  <2> SUFFICES ASSUME NEW j \in Instances, Offered(j)' # NoCopy
               PROVE  /\ Ann(j)' # 0
                      /\ broker'.captures[j] # 0 => Ann(j)' < broker'.captures[j]
                      /\ Epoch' # 0 /\ Ann(j)' >= Epoch' =>
                           /\ broker'.seen[j] = Epoch'
                           /\ j # broker'.last.source /\ Ann(j)' = Epoch' => broker'.last.ready # 0
    BY DEF Offers
  <2>1. CASE j = i
    BY <2>1, <1>i, <1>e, <1>s
  <2>2. CASE j # i
    <3>1. Offered(j) # NoCopy /\ Ann(j)' = Ann(j)
      BY <2>2, <1>j
    <3>2. /\ Ann(j) # 0
          /\ broker.captures[j] # 0 => Ann(j) < broker.captures[j]
          /\ Epoch # 0 /\ Ann(j) >= Epoch =>
               /\ broker.seen[j] = Epoch
               /\ j # broker.last.source /\ Ann(j) = Epoch => broker.last.ready # 0
      BY <3>1 DEF Ordered, Offers
    <3> QED
      BY <2>2, <3>1, <3>2, <1>e, <1>s
  <2> QED
    BY <2>1, <2>2
<1>3. Source'
  <2> SUFFICES ASSUME Epoch # 0
               PROVE  Source'
    BY <1>e DEF Source
  <2> DEFINE s == broker.last.source
  <2>1. /\ s \in Instances
        /\ s \in broker.live => broker.seen[s] = Epoch
        /\ broker.last.ready # 0 /\ broker.offers[s].revision = broker.last.ready
             => Offered(s) # NoCopy /\ Ann(s) = Epoch /\ InstanceOf[Offered(s).by] = s
        /\ \A j \in Instances : broker.captures[j] = Epoch => j = s
    BY DEF Ordered, Source
  <2>2. \A j \in Instances : broker'.captures[j] = Epoch => j = s
    BY <2>1, <1>t
  <2>3. broker'.last.ready # 0 /\ broker'.offers[s].revision = broker'.last.ready
             => Offered(s)' # NoCopy /\ Ann(s)' = Epoch /\ InstanceOf[Offered(s)'.by] = s
    <3>1. CASE s = i
      <4>1. broker.last.ready # e /\ broker'.offers[s].revision = e
        BY <3>1, <1>i, <1>n, <1>f DEF Ordered, Bounds
      <4> QED
        BY <3>1, <4>1, <1>r, <1>i, <1>a
    <3>2. CASE s # i
      BY <3>2, <2>1, <1>j, <1>r
    <3> QED
      BY <3>1, <3>2
  <2>4. s \in broker'.live => broker'.seen[s] = Epoch
    BY <2>1 DEF Epoch
  <2> QED
    BY <2>1, <2>2, <2>3, <2>4, <1>e DEF Source, Offered, Ann
<1>4. Standing'
  <2> SUFFICES ASSUME NEW j \in Instances, Epoch' # 0, broker'.seen[j] = Epoch'
               PROVE  /\ broker'.captures[j] = 0 \/ broker'.captures[j] >= Epoch'
                      /\ (j # broker'.last.source \/ broker'.last.ready # 0) /\ Offered(j)' # NoCopy
                         => \/ Ann(j)' >= Epoch'
                            \/ Offered(j)'.kind = "restored" /\ broker'.offers[j].revision > Epoch'
    BY DEF Standing
  <2>1. CASE j = i
    BY <2>1, <1>e, <1>i, <1>n, <1>f
  <2>2. CASE j # i
    <3>0. broker.seen[j] = Epoch
      BY <2>2, <1>e
    <3>1. /\ broker.captures[j] = 0 \/ broker.captures[j] >= Epoch
          /\ (j # broker.last.source \/ broker.last.ready # 0) /\ Offered(j) # NoCopy
               => \/ Ann(j) >= Epoch
                  \/ Offered(j).kind = "restored" /\ broker.offers[j].revision > Epoch
      BY <3>0, <1>e DEF Ordered, Standing
    <3> QED
      BY <2>2, <3>1, <1>j, <1>e, <1>r
  <2> QED
    BY <2>1, <2>2
<1>5. Moves
  <2>1. \A j \in Instances :
           \/ broker'.offers[j] = broker.offers[j]
           \/ broker'.offers[j].revision = broker'.next /\ broker'.next > broker.next
    BY <1>i, <1>j, <1>n, <1>f
  <2> QED
    BY <2>1, <1>e, <1>f DEF Moves, Epoch
<1> QED
  BY <1>1, <1>2, <1>3, <1>4, <1>5 DEF Ordered

---------------------------------------------------------------------------
(* What the proxies and the pastes know stays true while the broker moves. *)

LEMMA MatchesStay ==
    ASSUME Shape, Moves, NEW i \in Instances, NEW r, r.revision \in Nat, Matches(broker, i, r)
    PROVE  Matches(broker', i, r)
<1>1. broker.next \in Nat /\ broker'.next \in Nat /\ broker'.next >= broker.next
  BY BrokerFields DEF Shape, Moves
<1>2. r.revision <= broker'.next
  BY <1>1 DEF Matches
<1>3. NoOffer.revision = 0 /\ NoOffer.copy = NoCopy
  BY DEF NoOffer
<1>4. CASE broker'.offers[i] = broker.offers[i]
  BY <1>2, <1>4 DEF Matches
<1>5. CASE broker'.offers[i] = NoOffer
  BY <1>2, <1>3, <1>5 DEF Matches
<1>6. CASE broker'.offers[i].revision = broker'.next /\ broker'.next > broker.next
  BY <1>1, <1>2, <1>6 DEF Matches
<1> QED
  BY <1>4, <1>5, <1>6 DEF Moves

LEMMA ShowableStays ==
    ASSUME Shape, Ordered, Moves, NEW s \in ShownType, Showable(broker, s)
    PROVE  Showable(broker', s)
<1>1. /\ broker.next \in Nat /\ broker'.next \in Nat /\ broker'.next >= broker.next
      /\ broker'.last.epoch \in Nat
  BY BrokerFields DEF Shape, Moves
<1>2. s.epoch \in Nat /\ s.revision \in Nat
  BY DEF ShownType
<1>3. /\ s.epoch # 0 /\ s.epoch <= broker'.next
      /\ s.revision # 0 /\ s.revision <= broker'.next
  BY <1>1, <1>2 DEF Showable
<1> SUFFICES ASSUME broker'.last.epoch = s.epoch,
                    broker'.offers[broker'.last.source].revision = s.revision
             PROVE  broker'.offers[broker'.last.source].copy = s.copy
  BY <1>3 DEF Showable
<1> DEFINE i == broker.last.source
<1>4. broker.last.epoch = s.epoch /\ broker'.last.source = i
  BY <1>1, <1>2 DEF Moves, Showable, Epoch
<1>5. i \in Instances
  BY <1>3, <1>4 DEF Ordered, Source, Epoch
<1>6. NoOffer.revision = 0
  BY DEF NoOffer
<1>7. CASE broker'.offers[i] = broker.offers[i]
  BY <1>4, <1>7 DEF Showable
<1>8. CASE broker'.offers[i] = NoOffer
  BY <1>3, <1>4, <1>6, <1>8
<1>9. CASE broker'.offers[i].revision = broker'.next /\ broker'.next > broker.next
  BY <1>1, <1>2, <1>4, <1>9 DEF Showable
<1> QED
  BY <1>5, <1>7, <1>8, <1>9 DEF Moves

LEMMA HelperStays ==
    ASSUME Shape, Ordered, Moves, NEW h, HelperOK(h), HelperKnows(broker, h)
    PROVE  HelperKnows(broker', h)
<1>1. CASE h.phase = "tell"
  <2>1. h.launch \in Launches /\ h.result.revision \in Nat
    BY <1>1 DEF HelperOK, ResultType
  <2>2. InstanceOf[h.launch] \in Instances
    BY <2>1, PasteAssumption
  <2>3. Matches(broker', InstanceOf[h.launch], h.result)
    BY <1>1, <2>1, <2>2, MatchesStay DEF HelperKnows
  <2> QED
    BY <1>1, <2>3 DEF HelperKnows
<1>2. CASE h.phase \in {"question", "secret"}
  <2>1. h.shown \in ShownType
    BY <1>2 DEF HelperOK, QuestionType
  <2>2. Showable(broker', h.shown)
    BY <1>2, <2>1, ShowableStays DEF HelperKnows
  <2> QED
    BY <1>2, <2>2 DEF HelperKnows
<1> QED
  BY <1>1, <1>2 DEF HelperKnows

LEMMA NothingMatches ==
    ASSUME Ordered, NEW i \in Instances, NEW r, r.revision = 0, r.copy = NoCopy, broker.next \in Nat
    PROVE  Matches(broker, i, r)
BY DEF Ordered, Bounds, Offered, Matches

LEMMA AnswersKept ==
    ASSUME Shape, Ordered, Answers, Moves, asked' \in Nat, asked' >= asked,
           \A l \in Launches :
              /\ \/ pend'[l] = pend[l]
                 \/ Matches(broker', InstanceOf[l], pend'[l]) /\ pend'[l].ticket <= asked'
              /\ \/ px'[l].reads = px[l].reads
                 \/ ReadsKnow(broker', l, px'[l]),
           \A t \in Tickets : helper'[t] = helper[t] \/ HelperKnows(broker', helper'[t])
    PROVE  Answers'
<1>1. ASSUME NEW l \in Launches
      PROVE  Matches(broker', InstanceOf[l], pend'[l]) /\ pend'[l].ticket <= asked'
  <2>1. CASE pend'[l] = pend[l]
    <3>1. /\ InstanceOf[l] \in Instances /\ pend[l].revision \in Nat /\ pend[l].ticket \in Nat
          /\ asked \in Nat
      BY PasteAssumption DEF Shape, PendType
    <3>2. Matches(broker, InstanceOf[l], pend[l]) /\ pend[l].ticket <= asked
      BY DEF Answers
    <3>3. Matches(broker', InstanceOf[l], pend[l])
      BY <3>1, <3>2, MatchesStay
    <3> QED
      BY <2>1, <3>1, <3>2, <3>3
  <2> QED
    BY <2>1
<1>2. ASSUME NEW l \in Launches
      PROVE  ReadsKnow(broker', l, px'[l])
  <2>1. CASE px'[l].reads = px[l].reads
    <3> SUFFICES ASSUME NEW k \in 1 .. Len(px[l].reads)
                 PROVE  Matches(broker', InstanceOf[l], px[l].reads[k])
      BY <2>1 DEF ReadsKnow
    <3>0. px[l].reads \in Seq(OfferType)
      BY DEF Shape, ProxyType
    <3>1. px[l].reads[k] \in OfferType
      BY <3>0
    <3>2. px[l].reads[k].revision \in Nat /\ InstanceOf[l] \in Instances
      BY <3>1, PasteAssumption DEF OfferType
    <3>3. Matches(broker, InstanceOf[l], px[l].reads[k])
      BY DEF Answers, ReadsKnow
    <3> QED
      BY <3>2, <3>3, MatchesStay
  <2> QED
    BY <2>1
<1>3. ASSUME NEW t \in Tickets
      PROVE  HelperKnows(broker', helper'[t])
  <2>1. CASE helper'[t] = helper[t]
    <3>1. HelperOK(helper[t]) /\ HelperKnows(broker, helper[t])
      BY DEF Shape, Answers
    <3>2. HelperKnows(broker', helper[t])
      BY <3>1, HelperStays
    <3> QED
      BY <2>1, <3>2
  <2> QED
    BY <2>1
<1> QED
  BY <1>1, <1>2, <1>3 DEF Answers

\* A proxy that does not move is as well in order after the step.
LEMMA ProxyStays ==
    ASSUME Shape, NEW l \in Launches, NEW p \in ProxyType,
           ProxyOK(l, p, made, up, broker, announced),
           Moves, made' \in Nat, made' >= made,
           p.alive => InstanceOf[l] \in up',
           p.local \in Selections => announced'[p.local] = announced[p.local]
    PROVE  ProxyOK(l, p, made', up', broker', announced')
<1>1. /\ broker.next \in Nat /\ broker'.next \in Nat /\ broker'.next >= broker.next
      /\ broker.last.epoch \in Nat /\ broker'.last.epoch \in Nat
      /\ broker'.last.epoch >= broker.last.epoch
  BY BrokerFields DEF Shape, Moves, Epoch
<1>2. /\ p.local \in Nat /\ p.snap \in Nat /\ p.told.revision \in Nat
      /\ p.begin \in CopyOrNone /\ p.capture \in CopyOrNone /\ p.publish \in CopyOrNone
  BY DEF ProxyType, ToldType
<1>3. made \in Nat /\ announced \in [Selections -> Nat] /\ made <= MaxSelections /\ MaxSelections \in Nat
  BY PasteAssumption DEF Shape
<1>4. p.local <= made' /\ p.snap <= broker'.next /\ p.told.revision <= broker'.next
  BY <1>1, <1>2, <1>3 DEF ProxyOK
<1>5. p.local # 0 => announced'[p.local] = announced[p.local]
  BY <1>2, <1>3 DEF ProxyOK, Selections
<1>6. ASSUME NEW c \in CopyOrNone, ProxyCopy(l, p, c), Reads(p, c, broker, announced)
      PROVE  Reads(p, c, broker', announced')
  <2> SUFFICES ASSUME c # NoCopy PROVE Reads(p, c, broker', announced')
    BY DEF Reads
  <2>1. c.n = p.local /\ c.n \in Selections
    BY <1>6, CopyFields DEF ProxyCopy
  <2>2. announced'[c.n] = announced[c.n] /\ announced[c.n] \in Nat
    BY <1>3, <2>1
  <2> QED
    BY <1>1, <1>6, <2>2 DEF Reads
<1>7. p.begin # NoCopy => p.local # 0
  BY <1>2, CopyFields DEF ProxyOK, ProxyCopy, Selections
<1> QED
  BY <1>2, <1>4, <1>5, <1>6, <1>7 DEF ProxyOK

---------------------------------------------------------------------------
(* What the operators on a proxy change. *)

LEMMA ProxyFields ==
    ASSUME NEW p \in ProxyType
    PROVE  /\ p.alive \in BOOLEAN /\ p.local \in Nat /\ p.changing \in Nat
           /\ p.epochs \in EpochsType /\ p.epochs.local \in Nat /\ p.epochs.epoch \in Nat
           /\ p.begin \in CopyOrNone /\ p.capture \in CopyOrNone /\ p.publish \in CopyOrNone
           /\ p.aborts \subseteq Nat
           /\ p.told \in ToldType /\ p.told.local \in Nat /\ p.told.ok \in BOOLEAN
           /\ p.told.revision \in Nat
           /\ p.clear \in BOOLEAN /\ p.clearing \in Nat
           /\ p.refresh \in BOOLEAN /\ p.changed \in BOOLEAN /\ p.snap \in Nat
           /\ p.reads \in Seq(OfferType)
BY DEF ProxyType, EpochsType, ToldType

LEMMA NewTypes ==
    /\ NewProxy \in ProxyType /\ Ended \in ProxyType
    /\ NoEpoch \in EpochsType /\ NoTold \in ToldType
    /\ NewProxy.alive /\ ~Ended.alive
    /\ \A p \in {NewProxy, Ended} :
          /\ p.local = 0 /\ p.changing = 0 /\ p.epochs = NoEpoch
          /\ p.begin = NoCopy /\ p.capture = NoCopy /\ p.publish = NoCopy
          /\ p.aborts = {} /\ p.told = NoTold
          /\ p.clear = FALSE /\ p.clearing = 0
          /\ p.refresh = FALSE /\ p.changed = FALSE /\ p.snap = 0 /\ p.reads = <<>>
    /\ NoTold.revision = 0
<1>1. NoEpoch \in EpochsType /\ NoTold \in ToldType /\ NoTold.revision = 0
  BY DEF NoEpoch, NoTold, EpochsType, ToldType
<1>2. <<>> \in Seq(OfferType)
  OBVIOUS
<1>3. NoCopy \in CopyOrNone
  BY DEF CopyOrNone
<1>4. NewProxy \in ProxyType
  BY <1>1, <1>2, <1>3 DEF NewProxy, ProxyType
<1>5. Ended \in ProxyType
  BY <1>4 DEF Ended, ProxyType
<1>6. /\ NewProxy.alive
      /\ NewProxy.local = 0 /\ NewProxy.changing = 0 /\ NewProxy.epochs = NoEpoch
      /\ NewProxy.begin = NoCopy /\ NewProxy.capture = NoCopy /\ NewProxy.publish = NoCopy
      /\ NewProxy.aborts = {} /\ NewProxy.told = NoTold
      /\ NewProxy.clear = FALSE /\ NewProxy.clearing = 0
      /\ NewProxy.refresh = FALSE /\ NewProxy.changed = FALSE /\ NewProxy.snap = 0 /\ NewProxy.reads = <<>>
  BY DEF NewProxy
<1>7. /\ ~Ended.alive
      /\ Ended.local = 0 /\ Ended.changing = 0 /\ Ended.epochs = NoEpoch
      /\ Ended.begin = NoCopy /\ Ended.capture = NoCopy /\ Ended.publish = NoCopy
      /\ Ended.aborts = {} /\ Ended.told = NoTold
      /\ Ended.clear = FALSE /\ Ended.clearing = 0
      /\ Ended.refresh = FALSE /\ Ended.changed = FALSE /\ Ended.snap = 0 /\ Ended.reads = <<>>
  BY DEF Ended, NewProxy
<1> QED
  BY <1>1, <1>4, <1>5, <1>6, <1>7

\* A launch that has ended keeps nothing.
LEMMA EndedOK ==
    ASSUME NEW l \in Launches, NEW m \in Nat, NEW running, NEW b \in BrokerType, NEW ann
    PROVE  ProxyOK(l, Ended, m, running, b, ann) /\ Fresh(b, l, Ended)
<1>1. b.next \in Nat
  BY DEF BrokerType
<1> QED
  BY <1>1, NewTypes DEF ProxyOK, ProxyCopy, Reads, Fresh

\* A proxy that dropped some of what it had is in order.
LEMMA Alike ==
    ASSUME NEW l \in Launches, NEW m, NEW running, NEW b, NEW ann, NEW p, NEW q,
           ProxyOK(l, p, m, running, b, ann), p.alive, q.alive,
           q.local = p.local,
           \/ q.changing = p.changing /\ q.epochs = p.epochs
           \/ q.changing = 0 /\ q.epochs = NoEpoch,
           q.begin = p.begin,
           q.capture \in {p.capture, NoCopy},
           q.publish \in {p.publish, p.capture, NoCopy},
           q.clear => p.clear,
           q.snap <= b.next, q.told.revision <= b.next
    PROVE  ProxyOK(l, q, m, running, b, ann)
<1>1. /\ ~q.alive => q = Ended
      /\ q.alive => InstanceOf[l] \in running
      /\ q.local <= m
      /\ q.changing \in {0, q.local}
  BY DEF ProxyOK
<1>2. /\ q.epochs # NoEpoch =>
           q.local # 0 /\ q.epochs.local = q.local /\ q.epochs.epoch = ann[q.local]
      /\ q.begin # NoCopy => ann[q.local] = 0 /\ q.epochs = NoEpoch
      /\ q.clear => q.local # 0
  BY DEF ProxyOK
<1>3. ASSUME NEW c, ProxyCopy(l, p, c) PROVE ProxyCopy(l, q, c)
  BY <1>3 DEF ProxyCopy
<1>4. ASSUME NEW c, Reads(p, c, b, ann) PROVE Reads(q, c, b, ann)
  BY <1>4 DEF Reads
<1>5. ProxyCopy(l, q, NoCopy) /\ Reads(q, NoCopy, b, ann)
  BY DEF ProxyCopy, Reads
<1>6. /\ ProxyCopy(l, q, q.begin) /\ ProxyCopy(l, q, q.capture) /\ ProxyCopy(l, q, q.publish)
      /\ Reads(q, q.capture, b, ann) /\ Reads(q, q.publish, b, ann)
  BY <1>3, <1>4, <1>5 DEF ProxyOK
<1> QED
  BY <1>1, <1>2, <1>6 DEF ProxyOK

LEMMA TakenBackType ==
    ASSUME NEW p \in ProxyType PROVE TakenBack(p) \subseteq Nat
BY ProxyFields DEF TakenBack

\* A selection settled: the proxy no longer waits for it, or nothing of the
\* proxy is another.
Released(p, q) ==
    /\ q \in ProxyType
    /\ q.alive = p.alive /\ q.local = p.local
    /\ \/ q.changing = p.changing /\ q.epochs = p.epochs
       \/ q.changing = 0 /\ q.epochs = NoEpoch
    /\ q.begin = p.begin /\ q.capture = p.capture /\ q.publish = p.publish
    /\ q.told = p.told /\ q.clear = p.clear /\ q.clearing = p.clearing
    /\ q.refresh = p.refresh /\ q.changed = p.changed /\ q.snap = p.snap
    /\ q.reads = p.reads

LEMMA ReleaseFields ==
    ASSUME NEW p \in ProxyType, NEW local, NEW failed
    PROVE  Released(p, ReleaseLocal(p, local, failed))
<1> DEFINE q == ReleaseLocal(p, local, failed)
<1>1. CASE p.changing # local
  BY <1>1 DEF ReleaseLocal, Released
<1>2. CASE p.changing = local
  <2> DEFINE aborts == IF failed /\ p.epochs.local = local THEN TakenBack(p) ELSE p.aborts
  <2>1. aborts \in SUBSET Nat
    BY ProxyFields, TakenBackType
  <2>2. q = [p EXCEPT !.changing = 0, !.epochs = NoEpoch, !.aborts = aborts]
    BY <1>2 DEF ReleaseLocal
  <2>3. NoEpoch \in EpochsType
    BY NewTypes
  <2>4. 0 \in Nat
    OBVIOUS
  <2> HIDE DEF aborts
  <2>5. q \in ProxyType
    BY <2>1, <2>2, <2>3, <2>4 DEF ProxyType
  <2>6. /\ q.alive = p.alive /\ q.local = p.local /\ q.changing = 0 /\ q.epochs = NoEpoch
        /\ q.begin = p.begin /\ q.capture = p.capture /\ q.publish = p.publish
        /\ q.told = p.told /\ q.clear = p.clear /\ q.clearing = p.clearing
        /\ q.refresh = p.refresh /\ q.changed = p.changed /\ q.snap = p.snap
        /\ q.reads = p.reads
    BY <2>2 DEF ProxyType
  <2> QED
    BY <2>5, <2>6 DEF Released
<1> QED
  BY <1>1, <1>2

LEMMA SelectedFields ==
    ASSUME NEW p \in ProxyType, NEW copy \in Copies, NEW q, q = Selected(p, copy)
    PROVE  /\ q \in ProxyType
           /\ q.alive = p.alive /\ q.local = copy.n
           /\ q.changing \in {0, copy.n} /\ q.epochs = NoEpoch
           /\ q.begin \in {NoCopy, copy} /\ (q.begin = NoCopy <=> copy.kind = "clear")
           /\ q.capture \in {NoCopy, copy} /\ (q.capture = copy => Readable(copy.kind))
           /\ q.publish = NoCopy
           /\ q.told = p.told /\ q.clearing = p.clearing
           /\ q.refresh = p.refresh /\ q.changed = p.changed /\ q.snap = p.snap
           /\ q.reads = p.reads
<1> DEFINE changing == IF copy.kind = "empty" THEN 0 ELSE copy.n
           begin == IF copy.kind = "clear" THEN NoCopy ELSE copy
           capture == IF Readable(copy.kind) THEN copy ELSE NoCopy
           clear == copy.kind = "clear"
           aborts == TakenBack(p)
<1>1. copy.n \in Nat /\ copy # NoCopy /\ copy \in CopyOrNone /\ NoCopy \in CopyOrNone
  BY CopyFields DEF Selections, CopyOrNone
<1>2. /\ changing \in {0, copy.n}
      /\ begin \in {NoCopy, copy} /\ (begin = NoCopy <=> copy.kind = "clear")
      /\ capture \in {NoCopy, copy} /\ (capture = copy => Readable(copy.kind))
      /\ aborts \subseteq Nat
      /\ clear \in BOOLEAN
  BY <1>1, TakenBackType
<1>3. q = [p EXCEPT !.local = copy.n, !.changing = changing, !.epochs = NoEpoch,
                    !.aborts = aborts, !.begin = begin, !.capture = capture,
                    !.publish = NoCopy, !.clear = clear]
  BY DEF Selected
<1>4. NoEpoch \in EpochsType
  BY NewTypes
<1>5. changing \in Nat /\ begin \in CopyOrNone /\ capture \in CopyOrNone
  BY <1>1, <1>2
<1> HIDE DEF changing, begin, capture, clear, aborts
<1>6. q \in ProxyType
  <2> DEFINE r == [p EXCEPT !.local = copy.n, !.changing = changing, !.epochs = NoEpoch,
                            !.aborts = aborts]
  <2>1. copy.n \in Nat /\ aborts \in SUBSET Nat /\ clear \in BOOLEAN /\ NoCopy \in CopyOrNone
    BY <1>1, <1>2
  <2>2. r \in ProxyType
    BY <2>1, <1>4, <1>5 DEF ProxyType
  <2>3. q = [r EXCEPT !.begin = begin, !.capture = capture, !.publish = NoCopy, !.clear = clear]
    BY <1>3
  <2> HIDE DEF r
  <2> QED
    BY <2>1, <2>2, <2>3, <1>5 DEF ProxyType
<1>7. /\ q.alive = p.alive /\ q.local = copy.n
      /\ q.changing = changing /\ q.epochs = NoEpoch
      /\ q.begin = begin /\ q.capture = capture /\ q.publish = NoCopy
  BY <1>3 DEF ProxyType
<1>8. /\ q.told = p.told /\ q.clearing = p.clearing
      /\ q.refresh = p.refresh /\ q.changed = p.changed /\ q.snap = p.snap
      /\ q.reads = p.reads
  BY <1>3 DEF ProxyType
<1> QED
  BY <1>2, <1>6, <1>7, <1>8

\* The watchers told: a proxy whose instance's offer is another knows, and
\* nothing else of it is.
Told(f, g, old, new) ==
    /\ g \in [Launches -> ProxyType]
    /\ \A l \in Launches :
          /\ g[l].alive = f[l].alive /\ g[l].local = f[l].local /\ g[l].reads = f[l].reads
          /\ \A m, running, c, ann :
                ProxyOK(l, f[l], m, running, c, ann) => ProxyOK(l, g[l], m, running, c, ann)
          /\ \/ g[l] = f[l]
             \/ f[l].alive /\ g[l] = [f[l] EXCEPT !.changed = TRUE]
          /\ f[l].alive /\ new.offers[InstanceOf[l]] # old.offers[InstanceOf[l]]
                => g[l].changed

LEMMA NoticedFields ==
    ASSUME NEW f \in [Launches -> ProxyType], NEW b
    PROVE  Told(f, Noticed(f, b), broker, b)
<1> DEFINE g == Noticed(f, b)
<1> SUFFICES ASSUME NEW l \in Launches
             PROVE  /\ g[l] \in ProxyType
                    /\ g[l].alive = f[l].alive /\ g[l].local = f[l].local /\ g[l].reads = f[l].reads
                    /\ \A m, running, c, ann :
                          ProxyOK(l, f[l], m, running, c, ann) => ProxyOK(l, g[l], m, running, c, ann)
                    /\ \/ g[l] = f[l]
                       \/ f[l].alive /\ g[l] = [f[l] EXCEPT !.changed = TRUE]
                    /\ f[l].alive /\ b.offers[InstanceOf[l]] # broker.offers[InstanceOf[l]]
                          => g[l].changed
  BY DEF Noticed, Told
<1> DEFINE p == f[l]
           q == [p EXCEPT !.changed = TRUE]
<1>0. p \in ProxyType
  OBVIOUS
<1>1. CASE p.alive /\ b.offers[InstanceOf[l]] # broker.offers[InstanceOf[l]]
  <2>1. g[l] = q
    BY <1>1 DEF Noticed
  <2> HIDE DEF p
  <2>2. /\ q \in ProxyType
        /\ q.alive = p.alive /\ q.local = p.local
        /\ q.changing = p.changing /\ q.epochs = p.epochs
        /\ q.begin = p.begin /\ q.capture = p.capture /\ q.publish = p.publish
        /\ q.told = p.told /\ q.clear = p.clear /\ q.snap = p.snap
        /\ q.reads = p.reads
        /\ q.changed
    BY <1>0 DEF ProxyType
  <2> HIDE DEF q
  <2>3. ASSUME NEW m, NEW running, NEW c, NEW ann, ProxyOK(l, p, m, running, c, ann)
        PROVE  ProxyOK(l, q, m, running, c, ann)
    <3>1. p.snap <= c.next /\ p.told.revision <= c.next
      BY <2>3 DEF ProxyOK
    <3> QED
      BY <1>1, <2>2, <2>3, <3>1, Alike
  <2>4. \A m, running, c, ann :
           ProxyOK(l, f[l], m, running, c, ann) => ProxyOK(l, g[l], m, running, c, ann)
    BY <2>1, <2>3 DEF p
  <2>5. g[l] = [f[l] EXCEPT !.changed = TRUE]
    BY <2>1 DEF p, q
  <2>6. /\ g[l] \in ProxyType /\ g[l].changed
        /\ g[l].alive = f[l].alive /\ g[l].local = f[l].local /\ g[l].reads = f[l].reads
    BY <2>1, <2>2 DEF p
  <2> QED
    BY <1>1, <2>4, <2>5, <2>6 DEF p
<1>2. CASE ~ (p.alive /\ b.offers[InstanceOf[l]] # broker.offers[InstanceOf[l]])
  BY <1>2 DEF Noticed
<1> QED
  BY <1>1, <1>2

LEMMA NoticedSame ==
    ASSUME NEW f \in [Launches -> ProxyType], NEW b,
           \A l \in Launches :
              f[l].alive => b.offers[InstanceOf[l]] = broker.offers[InstanceOf[l]]
    PROVE  Noticed(f, b) = f
BY DEF Noticed

---------------------------------------------------------------------------
(* Steps of one proxy, of the broker, and of a paste. *)

\* A step of the broker with at most one proxy's, the watchers told, and of
\* the pastes' helpers at most what they know.
LEMMA PxStep ==
    ASSUME IInv, Ordered', Moves,
           UNCHANGED <<up, home, made, announced, pend, asked>>, faults' \in Nat,
           NEW l \in Launches, NEW q \in ProxyType,
           px' = Noticed([px EXCEPT ![l] = q], broker'),
           ProxyOK(l, q, made, up, broker', announced),
           q.alive = px[l].alive, q.local = px[l].local, q.reads = px[l].reads,
           Fresh(broker', l, q) \/ q = px[l],
           DOMAIN helper' = Tickets,
           \A t \in Tickets :
              \/ helper'[t] = helper[t]
              \/ HelperOK(helper'[t]) /\ HelperKnows(broker', helper'[t])
    PROVE  IInv'
<1> DEFINE f == [px EXCEPT ![l] = q]
<1>f. /\ f \in [Launches -> ProxyType]
      /\ f[l] = q /\ \A m \in Launches \ {l} : f[m] = px[m]
  BY DEF IInv, Shape
<1>p. px' = Noticed(f, broker')
  OBVIOUS
<1> HIDE DEF f
<1>g. /\ px' \in [Launches -> ProxyType]
      /\ \A m \in Launches :
            /\ px'[m].alive = f[m].alive
            /\ px'[m].local = f[m].local /\ px'[m].reads = f[m].reads
            /\ \A n, running, c, ann :
                  ProxyOK(m, f[m], n, running, c, ann) => ProxyOK(m, px'[m], n, running, c, ann)
            /\ \/ px'[m] = f[m]
               \/ f[m].alive /\ px'[m] = [f[m] EXCEPT !.changed = TRUE]
            /\ f[m].alive /\ broker'.offers[InstanceOf[m]] # broker.offers[InstanceOf[m]]
                 => px'[m].changed
  <2>1. Told(f, Noticed(f, broker'), broker, broker')
    BY <1>f, NoticedFields
  <2>2. Told(f, px', broker, broker')
    BY <1>p, <2>1
  <2> QED
    BY ONLY <2>2 DEF Told
<1>h. \A m \in Launches : /\ px'[m].alive = f[m].alive /\ px'[m].local = f[m].local
                          /\ px'[m].reads = f[m].reads
  BY ONLY <1>g
<1>i. \A m \in Launches :
         f[m].alive /\ broker'.offers[InstanceOf[m]] # broker.offers[InstanceOf[m]]
            => px'[m].changed
  BY ONLY <1>g
<1>s. Shape /\ Ordered /\ Proxies /\ Answers /\ Current /\ Held
  BY DEF IInv
<1>n. made \in Nat /\ asked \in Nat
  BY <1>s DEF Shape
<1>1. Shape'
  <2>1. broker' \in BrokerType
    BY DEF Moves
  <2>2. \A t \in Tickets : HelperOK(helper'[t])
    BY <1>s DEF Shape
  <2> QED
    BY <2>1, <2>2, <1>g, <1>s DEF Shape
<1>2. Proxies'
  <2>1. ASSUME NEW m \in Launches
        PROVE  ProxyOK(m, px'[m], made', up', broker', announced')
    <3>1. CASE m = l
      BY <3>1, <1>f, <1>g
    <3>2. CASE m # l
      <4>1. px[m] \in ProxyType /\ ProxyOK(m, px[m], made, up, broker, announced)
        BY <1>s DEF Shape, Proxies
      <4>2. px[m].alive => InstanceOf[m] \in up
        BY <4>1 DEF ProxyOK
      <4>3. ProxyOK(m, px[m], made', up', broker', announced')
        BY <4>1, <4>2, <1>s, <1>n, ProxyStays
      <4> QED
        BY <3>2, <4>3, <1>f, <1>g
    <3> QED
      BY <3>1, <3>2
  <2>2. \A m \in Launches : px'[m].local = px[m].local
    BY <1>f, <1>h
  <2>3. \A m, n \in Launches : px'[m].local = px'[n].local => m = n \/ px'[m].local = 0
    BY <2>2, <1>s DEF Proxies
  <2> QED
    BY <2>1, <2>3 DEF Proxies
<1>3. Answers'
  <2>1. \A m \in Launches : px'[m].reads = px[m].reads
    BY <1>f, <1>h
  <2>2. \A m \in Launches : pend'[m] = pend[m]
    OBVIOUS
  <2>3. asked' \in Nat /\ asked' >= asked
    BY <1>n
  <2> QED
    BY <2>1, <2>2, <2>3, <1>s, AnswersKept
<1>4. Current'
  <2> SUFFICES ASSUME NEW m \in Launches
               PROVE  Fresh(broker', m, px'[m])
    BY DEF Current
  <2>1. CASE px'[m] = f[m] /\ m = l /\ Fresh(broker', l, q)
    BY <2>1, <1>f
  <2>2. CASE px'[m] = f[m] /\ f[m] = px[m]
    <3>1. Fresh(broker, m, px[m])
      BY <1>s DEF Current
    <3> QED
      BY <2>2, <3>1, <1>i DEF Fresh
  <2>3. CASE f[m].alive /\ px'[m] = [f[m] EXCEPT !.changed = TRUE]
    <3>1. px'[m].changed
      BY <2>3, <1>f DEF ProxyType
    <3> QED
      BY <3>1 DEF Fresh
  <2> QED
    BY <2>1, <2>2, <2>3, <1>f, <1>g
<1>5. Held'
  BY <1>f, <1>h, <1>s DEF Held
<1> QED
  BY <1>1, <1>2, <1>3, <1>4, <1>5 DEF IInv

\* The same where no offer changes, and with it no watcher is told.
LEMMA QuietStep ==
    ASSUME IInv, Ordered', Moves,
           UNCHANGED <<up, home, made, announced, pend, helper, asked>>, faults' \in Nat,
           broker'.offers = broker.offers,
           NEW l \in Launches, NEW q \in ProxyType,
           px' = [px EXCEPT ![l] = q],
           ProxyOK(l, q, made, up, broker', announced),
           q.alive = px[l].alive, q.local = px[l].local, q.reads = px[l].reads,
           Fresh(broker', l, q)
    PROVE  IInv'
<1>1. [px EXCEPT ![l] = q] \in [Launches -> ProxyType]
  BY DEF IInv, Shape
<1>2. px' = Noticed([px EXCEPT ![l] = q], broker')
  BY <1>1, NoticedSame
<1>3. DOMAIN helper' = Tickets /\ \A t \in Tickets : helper'[t] = helper[t]
  BY DEF IInv, Shape
<1> QED
  BY <1>2, <1>3, PxStep

\* A step of a paste, where the broker and the proxies stay.
LEMMA PasteStep ==
    ASSUME IInv, UNCHANGED <<broker, up, home, px, made, announced>>, faults' \in Nat,
           asked' \in 0 .. MaxPastes, asked' >= asked,
           pend' \in [Launches -> PendType], Held',
           \A l \in Launches :
              \/ pend'[l] = pend[l]
              \/ Matches(broker, InstanceOf[l], pend'[l]) /\ pend'[l].ticket <= asked',
           DOMAIN helper' = Tickets,
           \A t \in Tickets :
              \/ helper'[t] = helper[t]
              \/ HelperOK(helper'[t]) /\ HelperKnows(broker, helper'[t])
    PROVE  IInv'
<1>s. Shape /\ Ordered /\ Proxies /\ Answers /\ Current /\ Held
  BY DEF IInv
<1>n. made \in Nat /\ asked \in Nat /\ asked' \in Nat
  BY <1>s, PasteAssumption DEF Shape
<1>1. Shape'
  <2>2. \A t \in Tickets : HelperOK(helper'[t])
    BY <1>s DEF Shape
  <2> QED
    BY <2>2, <1>s DEF Shape
<1>2. Ordered' /\ Moves
  <2>1. UNCHANGED <<broker, announced>> /\ made' >= made /\ up' \subseteq up /\ made' \in Nat
    BY <1>n
  <2> QED
    BY <2>1, <1>s, BrokerStays
<1>3. Proxies' /\ Current'
  BY <1>s DEF Proxies, Current
<1>4. Answers'
  BY <1>2, <1>s, <1>n, AnswersKept
<1> QED
  BY <1>1, <1>2, <1>3, <1>4 DEF IInv

LEMMA NothingTypes ==
    /\ NoPaste \in PendType /\ NoPaste.revision = 0 /\ NoPaste.copy = NoCopy /\ NoPaste.ticket = 0
    /\ Nothing \in ResultType /\ Nothing.revision = 0 /\ Nothing.copy = NoCopy
    /\ NoOffer \in OfferType /\ NoOffer.revision = 0 /\ NoOffer.copy = NoCopy
BY CopyFields DEF NoPaste, Nothing, NoOffer, PendType, ResultType, OfferType

LEMMA InitIInv == Init => IInv
<1> SUFFICES ASSUME Init PROVE IInv
  OBVIOUS
<1> USE DEF Init
<1>b. /\ broker.next = 0 /\ broker.live = Instances
      /\ broker.offers = [i \in Instances |-> NoOffer]
      /\ broker.captures = [i \in Instances |-> 0]
      /\ broker.last = NoLast /\ broker.seen = [i \in Instances |-> 0] /\ broker.late = 0
  BY DEF NewBroker
<1>l. /\ NoLast \in LastType /\ NoLast.epoch = 0 /\ NoLast.ready = 0
  BY DEF NoLast, LastType
<1>0. broker \in BrokerType
  BY <1>l, NothingTypes DEF NewBroker, BrokerType
<1>1. Shape
  <2>1. \A t \in Tickets : HelperOK(helper[t])
    BY DEF HelperOK
  <2>2. announced \in [Selections -> Nat] /\ made \in 0 .. MaxSelections /\ asked \in 0 .. MaxPastes
    BY PasteAssumption
  <2>3. px \in [Launches -> ProxyType] /\ pend \in [Launches -> PendType]
    BY NewTypes, NothingTypes
  <2> QED
    BY <1>0, <2>1, <2>2, <2>3 DEF Shape
<1>2. Ordered
  <2>1. \A i \in Instances : /\ broker.offers[i].revision = 0 /\ Offered(i) = NoCopy
                             /\ broker.captures[i] = 0 /\ broker.seen[i] = 0
    BY <1>b, NothingTypes DEF Offered
  <2>2. Epoch = 0 /\ broker.last.ready = 0
    BY <1>b, <1>l DEF Epoch
  <2>3. Bounds
    BY <2>1, <2>2, <1>b DEF Bounds
  <2> QED
    BY <2>1, <2>2, <2>3 DEF Ordered, Offers, Source, Standing
<1>3. Proxies
  <2>1. ASSUME NEW l \in Launches
        PROVE  ProxyOK(l, px[l], made, up, broker, announced)
    <3>1. px[l] = NewProxy /\ InstanceOf[l] \in up /\ made = 0 /\ broker.next = 0
      BY PasteAssumption, <1>b
    <3> QED
      BY <3>1, NewTypes DEF ProxyOK, ProxyCopy, Reads
  <2> QED
    BY <2>1, NewTypes DEF Proxies
<1>4. Answers
  <2>1. ASSUME NEW l \in Launches
        PROVE  /\ Matches(broker, InstanceOf[l], pend[l])
               /\ ReadsKnow(broker, l, px[l])
               /\ pend[l].ticket <= asked
    <3>1. InstanceOf[l] \in Instances /\ broker.next \in Nat /\ pend[l] = NoPaste
      BY PasteAssumption, <1>b
    <3>2. Matches(broker, InstanceOf[l], pend[l])
      BY <3>1, <1>2, NothingTypes, NothingMatches
    <3>3. Len(px[l].reads) = 0
      BY NewTypes
    <3> QED
      BY <3>1, <3>2, <3>3, NothingTypes DEF ReadsKnow
  <2>2. \A t \in Tickets : HelperKnows(broker, helper[t])
    BY DEF HelperKnows
  <2> QED
    BY <2>1, <2>2 DEF Answers
<1>5. Current
  BY <1>b, PasteAssumption, NothingTypes, NewTypes DEF Current, Fresh
<1>6. Held
  BY NewTypes DEF Held
<1> QED
  BY <1>1, <1>2, <1>3, <1>4, <1>5, <1>6 DEF IInv

---------------------------------------------------------------------------
(* The steps of the proxies. *)

LEMMA ProxyHere ==
    ASSUME IInv, NEW l \in Launches, NEW p, p = px[l]
    PROVE  /\ p \in ProxyType /\ InstanceOf[l] \in Instances
           /\ ProxyOK(l, p, made, up, broker, announced)
           /\ Fresh(broker, l, p)
           /\ p.alive => InstanceOf[l] \in up /\ InstanceOf[l] \in broker.live
           /\ ~p.alive => /\ p.begin = NoCopy /\ p.capture = NoCopy /\ p.publish = NoCopy
                          /\ p.aborts = {} /\ p.told = NoTold /\ ~p.clear /\ p.clearing = 0
                          /\ ~p.refresh /\ ~p.changed /\ p.reads = <<>>
<1>1. p \in ProxyType /\ InstanceOf[l] \in Instances
  BY PasteAssumption DEF IInv, Shape
<1>2. ProxyOK(l, p, made, up, broker, announced) /\ Fresh(broker, l, p)
  BY DEF IInv, Proxies, Current
<1>3. up \subseteq broker.live
  BY DEF IInv, Ordered, Bounds
<1>4. (~p.alive => p = Ended) /\ (p.alive => InstanceOf[l] \in up)
  BY <1>2 DEF ProxyOK
<1>5. ~p.alive => /\ p.begin = NoCopy /\ p.capture = NoCopy /\ p.publish = NoCopy
                  /\ p.aborts = {} /\ p.told = NoTold /\ p.clear = FALSE /\ p.clearing = 0
                  /\ p.refresh = FALSE /\ p.changed = FALSE /\ p.reads = <<>>
  BY <1>4, NewTypes
<1> QED
  BY <1>1, <1>2, <1>3, <1>4, <1>5

\* A step of one proxy on its own.
LEMMA OwnStep ==
    ASSUME IInv, UNCHANGED <<broker, up, home, made, announced, pend, helper, asked, faults>>,
           NEW l \in Launches, NEW q \in ProxyType,
           px' = [px EXCEPT ![l] = q],
           ProxyOK(l, q, made, up, broker, announced),
           q.alive = px[l].alive, q.local = px[l].local, q.reads = px[l].reads,
           Fresh(broker, l, q)
    PROVE  IInv'
<1>1. made' \in Nat /\ made' >= made /\ up' \subseteq up /\ faults' \in Nat
  BY PasteAssumption DEF IInv, Shape
<1>2. Ordered' /\ Moves
  BY <1>1, BrokerStays DEF IInv
<1> QED
  BY <1>1, <1>2, QuietStep

LEMMA CapturedStep == ASSUME IInv, NEW l \in Launches, Captured(l) PROVE IInv'
<1> DEFINE p == px[l]
<1>p. /\ p \in ProxyType
      /\ ProxyOK(l, p, made, up, broker, announced)
      /\ Fresh(broker, l, p)
      /\ p.alive /\ p.capture # NoCopy
  BY ProxyHere DEF Captured
<1>x. px \in [Launches -> ProxyType]
  BY DEF IInv, Shape
<1>u. UNCHANGED <<broker, up, home, made, announced, pend, helper, asked, faults>>
  BY DEF Captured, pasteVars, copyVars
<1>n. NoCopy \in CopyOrNone /\ p.snap <= broker.next /\ p.told.revision <= broker.next
  BY <1>p DEF ProxyOK, CopyOrNone
<1>1. CASE px' = [px EXCEPT ![l].publish = px[l].capture, ![l].capture = NoCopy]
  <2> DEFINE q == [p EXCEPT !.publish = p.capture, !.capture = NoCopy]
  <2>1. px' = [px EXCEPT ![l] = q]
    BY <1>1, <1>p, <1>x
  <2> HIDE DEF p
  <2>2. /\ q \in ProxyType
        /\ q.alive = p.alive /\ q.local = p.local
        /\ q.changing = p.changing /\ q.epochs = p.epochs
        /\ q.begin = p.begin /\ q.capture = NoCopy /\ q.publish = p.capture
        /\ q.told = p.told /\ q.clear = p.clear /\ q.clearing = p.clearing
        /\ q.refresh = p.refresh /\ q.changed = p.changed /\ q.snap = p.snap
        /\ q.reads = p.reads
    BY <1>p, <1>n DEF ProxyType
  <2> HIDE DEF q
  <2>3. ProxyOK(l, q, made, up, broker, announced)
    BY <1>p, <1>n, <2>2, Alike
  <2>4. Fresh(broker, l, q)
    BY <1>p, <2>2 DEF Fresh, Free
  <2>5. q.alive = px[l].alive /\ q.local = px[l].local /\ q.reads = px[l].reads
    BY <2>2 DEF p
  <2> QED
    BY <1>u, <2>1, <2>2, <2>3, <2>4, <2>5, OwnStep
<1>2. CASE px' = [px EXCEPT ![l] = ReleaseLocal([@ EXCEPT !.capture = NoCopy], @.capture.n, TRUE)]
  <2> DEFINE r == [p EXCEPT !.capture = NoCopy]
             q == ReleaseLocal(r, p.capture.n, TRUE)
  <2>1. px' = [px EXCEPT ![l] = q]
    BY <1>2, <1>x
  <2> HIDE DEF p
  <2>2. /\ r \in ProxyType
        /\ r.alive = p.alive /\ r.local = p.local
        /\ r.changing = p.changing /\ r.epochs = p.epochs
        /\ r.begin = p.begin /\ r.capture = NoCopy /\ r.publish = p.publish
        /\ r.told = p.told /\ r.clear = p.clear /\ r.clearing = p.clearing
        /\ r.refresh = p.refresh /\ r.changed = p.changed /\ r.snap = p.snap
        /\ r.reads = p.reads
    BY <1>p, <1>n DEF ProxyType
  <2> HIDE DEF r
  <2>3. /\ q \in ProxyType
        /\ q.alive = r.alive /\ q.local = r.local
        /\ \/ q.changing = r.changing /\ q.epochs = r.epochs
           \/ q.changing = 0 /\ q.epochs = NoEpoch
        /\ q.begin = r.begin /\ q.capture = r.capture /\ q.publish = r.publish
        /\ q.told = r.told /\ q.clear = r.clear /\ q.clearing = r.clearing
        /\ q.refresh = r.refresh /\ q.changed = r.changed /\ q.snap = r.snap
        /\ q.reads = r.reads
    <3>1. Released(r, ReleaseLocal(r, p.capture.n, TRUE))
      BY <2>2, ReleaseFields, Zenon
    <3> QED
      BY <3>1 DEF Released
  <2> HIDE DEF q
  <2>4. ProxyOK(l, q, made, up, broker, announced)
    BY <1>p, <1>n, <2>2, <2>3, Alike
  <2>5. Fresh(broker, l, q)
    BY <1>p, <2>2, <2>3 DEF Fresh, Free
  <2>6. q.alive = px[l].alive /\ q.local = px[l].local /\ q.reads = px[l].reads
    BY <2>2, <2>3 DEF p
  <2> QED
    BY <1>u, <2>1, <2>3, <2>4, <2>5, <2>6, OwnStep
<1> QED
  BY <1>1, <1>2 DEF Captured

LEMMA AnsweredStep == ASSUME IInv, NEW l \in Launches, Answered(l) PROVE IInv'
<1> DEFINE p == px[l]
           snap == IF p.told.ok THEN p.told.revision ELSE p.snap
           r == [p EXCEPT !.told = NoTold, !.refresh = TRUE, !.snap = snap]
           q == ReleaseLocal(r, p.told.local, ~p.told.ok)
<1>p. /\ p \in ProxyType
      /\ ProxyOK(l, p, made, up, broker, announced)
      /\ p.alive
  BY ProxyHere DEF Answered
<1>x. px \in [Launches -> ProxyType]
  BY DEF IInv, Shape
<1>u. UNCHANGED <<broker, up, home, made, announced, pend, helper, asked, faults>>
  BY DEF Answered, pasteVars, copyVars
<1>1. px' = [px EXCEPT ![l] = q]
  BY <1>x DEF Answered
<1>n. /\ p.told.ok \in BOOLEAN /\ p.told.revision \in Nat /\ p.snap \in Nat
      /\ p.snap <= broker.next /\ p.told.revision <= broker.next
  BY <1>p, ProxyFields DEF ProxyOK
<1>s. snap \in Nat /\ snap <= broker.next /\ NoTold \in ToldType
  BY <1>n, NewTypes
<1>t. NoTold.revision <= broker.next
  <2>1. broker.next \in Nat
    BY BrokerFields DEF IInv, Shape
  <2> QED
    BY <2>1, NewTypes
<1> HIDE DEF snap
<1>2. /\ r \in ProxyType
      /\ r.alive = p.alive /\ r.local = p.local
      /\ r.changing = p.changing /\ r.epochs = p.epochs
      /\ r.begin = p.begin /\ r.capture = p.capture /\ r.publish = p.publish
      /\ r.told = NoTold /\ r.clear = p.clear
      /\ r.refresh /\ r.snap = snap
      /\ r.reads = p.reads
  <2> HIDE DEF p
  <2> QED BY <1>p, <1>s DEF ProxyType
<1> HIDE DEF r
<1>3. /\ q \in ProxyType
      /\ q.alive = r.alive /\ q.local = r.local
      /\ \/ q.changing = r.changing /\ q.epochs = r.epochs
         \/ q.changing = 0 /\ q.epochs = NoEpoch
      /\ q.begin = r.begin /\ q.capture = r.capture /\ q.publish = r.publish
      /\ q.told = r.told /\ q.clear = r.clear
      /\ q.refresh = r.refresh /\ q.snap = r.snap
      /\ q.reads = r.reads
  <2>1. Released(r, ReleaseLocal(r, p.told.local, ~p.told.ok))
    BY <1>2, ReleaseFields, Zenon
  <2> QED
    BY <2>1 DEF Released
<1> HIDE DEF q
<1>4. ProxyOK(l, q, made, up, broker, announced)
  <2> HIDE DEF p
  <2> QED BY <1>p, <1>s, <1>t, <1>2, <1>3, Alike
<1>5. Fresh(broker, l, q)
  BY <1>2, <1>3 DEF Fresh
<1>6. q.alive = px[l].alive /\ q.local = px[l].local /\ q.reads = px[l].reads
  BY <1>2, <1>3
<1> QED
  BY <1>u, <1>1, <1>3, <1>4, <1>5, <1>6, OwnStep

LEMMA ClearOfferStep == ASSUME IInv, NEW l \in Launches, ClearOffer(l) PROVE IInv'
<1> DEFINE p == px[l]
           q == [p EXCEPT !.clear = FALSE, !.clearing = p.local]
<1>p. /\ p \in ProxyType
      /\ ProxyOK(l, p, made, up, broker, announced)
      /\ p.alive /\ p.clear
  BY ProxyHere DEF ClearOffer
<1>x. px \in [Launches -> ProxyType]
  BY DEF IInv, Shape
<1>u. UNCHANGED <<broker, up, home, made, announced, pend, helper, asked, faults>>
  BY DEF ClearOffer, pasteVars, copyVars
<1>1. px' = [px EXCEPT ![l] = q]
  BY <1>x DEF ClearOffer
<1>n. p.local \in Nat /\ p.local # 0 /\ p.snap <= broker.next /\ p.told.revision <= broker.next
  BY <1>p, ProxyFields DEF ProxyOK
<1> HIDE DEF p
<1>2. /\ q \in ProxyType
      /\ q.alive = p.alive /\ q.local = p.local
      /\ q.changing = p.changing /\ q.epochs = p.epochs
      /\ q.begin = p.begin /\ q.capture = p.capture /\ q.publish = p.publish
      /\ q.told = p.told /\ q.clear = FALSE /\ q.clearing = p.local /\ q.snap = p.snap
      /\ q.reads = p.reads
  BY <1>p, <1>n DEF ProxyType
<1> HIDE DEF q
<1>4. ProxyOK(l, q, made, up, broker, announced)
  BY <1>p, <1>n, <1>2, Alike
<1>5. Fresh(broker, l, q)
  BY <1>n, <1>2 DEF Fresh, Free
<1>6. q.alive = px[l].alive /\ q.local = px[l].local /\ q.reads = px[l].reads
  BY <1>2 DEF p
<1> QED
  BY <1>u, <1>1, <1>2, <1>4, <1>5, <1>6, OwnStep

LEMMA NoticeStep == ASSUME IInv, NEW l \in Launches, Notice(l) PROVE IInv'
<1> DEFINE p == px[l]
           q == [p EXCEPT !.changed = FALSE, !.refresh = TRUE]
<1>p. /\ p \in ProxyType
      /\ ProxyOK(l, p, made, up, broker, announced)
      /\ p.alive
  BY ProxyHere DEF Notice
<1>x. px \in [Launches -> ProxyType]
  BY DEF IInv, Shape
<1>u. UNCHANGED <<broker, up, home, made, announced, pend, helper, asked, faults>>
  BY DEF Notice, pasteVars, copyVars
<1>1. px' = [px EXCEPT ![l] = q]
  BY <1>x DEF Notice
<1>n. p.snap <= broker.next /\ p.told.revision <= broker.next
  BY <1>p DEF ProxyOK
<1> HIDE DEF p
<1>2. /\ q \in ProxyType
      /\ q.alive = p.alive /\ q.local = p.local
      /\ q.changing = p.changing /\ q.epochs = p.epochs
      /\ q.begin = p.begin /\ q.capture = p.capture /\ q.publish = p.publish
      /\ q.told = p.told /\ q.clear = p.clear /\ q.refresh /\ q.snap = p.snap
      /\ q.reads = p.reads
  BY <1>p DEF ProxyType
<1> HIDE DEF q
<1>4. ProxyOK(l, q, made, up, broker, announced)
  BY <1>p, <1>n, <1>2, Alike
<1>5. Fresh(broker, l, q)
  BY <1>2 DEF Fresh
<1>6. q.alive = px[l].alive /\ q.local = px[l].local /\ q.reads = px[l].reads
  BY <1>2 DEF p
<1> QED
  BY <1>u, <1>1, <1>2, <1>4, <1>5, <1>6, OwnStep

LEMMA LookStep == ASSUME IInv, NEW l \in Launches, Look(l) PROVE IInv'
<1> DEFINE p == px[l]
           snap == broker.offers[InstanceOf[l]].revision
           q == [p EXCEPT !.refresh = FALSE, !.snap = snap]
<1>p. /\ p \in ProxyType /\ InstanceOf[l] \in Instances
      /\ ProxyOK(l, p, made, up, broker, announced)
      /\ p.alive
  BY ProxyHere DEF Look, MayLook
<1>x. px \in [Launches -> ProxyType]
  BY DEF IInv, Shape
<1>u. UNCHANGED <<broker, up, home, made, announced, pend, helper, asked, faults>>
  BY DEF Look, pasteVars, copyVars
<1>1. px' = [px EXCEPT ![l] = q]
  BY <1>x DEF Look
<1>n. p.told.revision <= broker.next
  BY <1>p DEF ProxyOK
<1>s. snap \in Nat /\ snap <= broker.next
  BY <1>p, BrokerFields DEF IInv, Shape, Ordered, Bounds
<1> HIDE DEF p, snap
<1>2. /\ q \in ProxyType
      /\ q.alive = p.alive /\ q.local = p.local
      /\ q.changing = p.changing /\ q.epochs = p.epochs
      /\ q.begin = p.begin /\ q.capture = p.capture /\ q.publish = p.publish
      /\ q.told = p.told /\ q.clear = p.clear /\ q.snap = snap
      /\ q.reads = p.reads
  BY <1>p, <1>s DEF ProxyType
<1> HIDE DEF q
<1>4. ProxyOK(l, q, made, up, broker, announced)
  BY <1>p, <1>n, <1>s, <1>2, Alike
<1>5. Fresh(broker, l, q)
  BY <1>2 DEF Fresh, snap
<1>6. q.alive = px[l].alive /\ q.local = px[l].local /\ q.reads = px[l].reads
  BY <1>2 DEF p
<1> QED
  BY <1>u, <1>1, <1>2, <1>4, <1>5, <1>6, OwnStep

LEMMA TakeBackStep == ASSUME IInv, NEW l \in Launches, TakeBack(l) PROVE IInv'
<1> DEFINE p == px[l]
           i == InstanceOf[l]
<1>e. PICK epoch \in p.aborts :
         /\ broker' = AbortCapture(broker, i, epoch)
         /\ px' = [px EXCEPT ![l].aborts = @ \ {epoch}]
  BY DEF TakeBack
<1> DEFINE q == [p EXCEPT !.aborts = p.aborts \ {epoch}]
<1>p. /\ p \in ProxyType /\ i \in Instances
      /\ ProxyOK(l, p, made, up, broker, announced)
      /\ Fresh(broker, l, p)
      /\ p.alive
  BY <1>e, ProxyHere
<1>x. px \in [Launches -> ProxyType] /\ broker \in BrokerType /\ Shape /\ Ordered
  BY DEF IInv, Shape
<1>u. UNCHANGED <<up, home, made, announced, pend, helper, asked, faults>>
  BY DEF TakeBack, pasteVars, copyVars
<1>1. px' = [px EXCEPT ![l] = q]
  BY <1>e, <1>x
<1>n. /\ p.snap <= broker.next /\ p.told.revision <= broker.next
      /\ p.aborts \in SUBSET Nat /\ epoch \in Nat
  BY <1>p, <1>e, ProxyFields DEF ProxyOK
<1>b. /\ broker' \in BrokerType
      /\ broker'.next = broker.next /\ broker'.live = broker.live
      /\ broker'.offers = broker.offers /\ broker'.seen = broker.seen
      /\ broker'.last.epoch = broker.last.epoch /\ broker'.last.source = broker.last.source
      /\ broker'.last.ready = broker.last.ready
      /\ broker'.captures[i] \in {0, broker.captures[i]}
      /\ \A j \in Instances \ {i} : broker'.captures[j] = broker.captures[j]
  BY <1>e, <1>p, <1>n, <1>x, AbortFields
<1>2. Ordered' /\ Moves
  <2>1. \A j \in Instances : broker'.captures[j] \in {0, broker.captures[j]}
    BY <1>b
  <2>2. up \subseteq broker'.live
    BY <1>x, <1>b DEF Ordered, Bounds
  <2> QED
    BY <1>x, <1>u, <1>b, <2>1, <2>2, LessKeeps
<1> HIDE DEF p
<1>3. /\ q \in ProxyType
      /\ q.alive = p.alive /\ q.local = p.local
      /\ q.changing = p.changing /\ q.epochs = p.epochs
      /\ q.begin = p.begin /\ q.capture = p.capture /\ q.publish = p.publish
      /\ q.told = p.told /\ q.clear = p.clear /\ q.clearing = p.clearing
      /\ q.refresh = p.refresh /\ q.changed = p.changed /\ q.snap = p.snap
      /\ q.reads = p.reads
  BY <1>p, <1>n DEF ProxyType
<1> HIDE DEF q
<1>4. ProxyOK(l, q, made, up, broker, announced)
  BY <1>p, <1>n, <1>3, Alike
<1>5. ProxyOK(l, q, made, up, broker', announced)
  <2>1. made' = made /\ up' = up /\ announced' = announced /\ made \in Nat
    BY <1>u, <1>x DEF Shape
  <2>2. q.alive => InstanceOf[l] \in up'
    BY <1>4, <2>1 DEF ProxyOK
  <2>3. ProxyOK(l, q, made', up', broker', announced')
    BY <1>x, <1>2, <1>3, <1>4, <2>1, <2>2, ProxyStays
  <2> QED
    BY <2>1, <2>3
<1>6. Fresh(broker', l, q)
  BY <1>p, <1>b, <1>3 DEF Fresh, Free
<1>7. q.alive = px[l].alive /\ q.local = px[l].local /\ q.reads = px[l].reads
  BY <1>3 DEF p
<1>8. UNCHANGED <<up, home, made, announced, pend, helper, asked>> /\ faults' \in Nat
      /\ broker'.offers = broker.offers
  BY <1>u, <1>b, <1>x DEF Shape
<1> QED
  BY <1>1, <1>2, <1>3, <1>5, <1>6, <1>7, <1>8, QuietStep

\* What becomes of a copy told: the instance's offer, in place of one announced
\* before it, or nothing.
Tellings(l) ==
    LET i == InstanceOf[l]
        copy == px[l].publish
    IN \/ broker'.offers = broker.offers
       \/ /\ broker'.offers = [broker.offers EXCEPT
                                 ![i] = [revision |-> broker.next + 1, copy |-> copy]]
          /\ copy \in Copies /\ copy.by = l
          /\ announced[copy.n] # 0
          /\ broker.captures[i] = announced[copy.n]

LEMMA PublishBroker ==
    ASSUME IInv, NEW l \in Launches, NEW fits \in BOOLEAN, Publish(l, fits)
    PROVE  /\ Ordered' /\ Moves /\ Tellings(l)
           /\ FinishCapture(broker, InstanceOf[l], px[l].epochs.epoch, px[l].publish, fits).ok
                \in BOOLEAN
           /\ FinishCapture(broker, InstanceOf[l], px[l].epochs.epoch, px[l].publish, fits).revision
                \in 0 .. broker'.next
<1> DEFINE p == px[l]
           i == InstanceOf[l]
           copy == p.publish
           e == p.epochs.epoch
           d == FinishCapture(broker, i, e, copy, fits)
<1>p. /\ p \in ProxyType /\ i \in Instances
      /\ ProxyOK(l, p, made, up, broker, announced)
      /\ copy # NoCopy /\ p.epochs.local = copy.n
      /\ p.alive /\ i \in broker.live
  BY ProxyHere DEF Publish, MayTell, MayPublish
<1>x. broker \in BrokerType /\ Shape /\ Ordered /\ announced \in [Selections -> Nat]
  BY DEF IInv, Shape
<1>u. UNCHANGED <<up, made, announced>> /\ broker' = d.broker
  BY DEF Publish, pasteVars, copyVars
<1>c. /\ copy \in Copies /\ copy.n \in Selections /\ copy.n # 0 /\ copy.n \in Nat
      /\ copy.n = p.local /\ copy.by = l
  BY <1>p, CopyFields, ProxyFields DEF ProxyOK, ProxyCopy, Selections
<1>e. e \in Nat /\ e = announced[copy.n]
  <2>1. p.epochs # NoEpoch
    BY <1>p, <1>c DEF NoEpoch
  <2> QED
    BY <2>1, <1>p, <1>c, ProxyFields DEF ProxyOK
<1>r. /\ Readable(copy.kind)
      /\ e # 0 /\ copy.kind # "restored" => e <= Epoch
  BY <1>p, <1>c, <1>e DEF ProxyOK, Reads, Epoch
<1>f. /\ broker.next \in Nat /\ broker.captures[i] \in Nat /\ broker.late \in Nat
      /\ Epoch \in Nat /\ broker.seen[i] \in Nat
  BY <1>p, <1>x DEF BrokerType, LastType, Epoch
<1> HIDE DEF d
<1>d. Rejects(broker, d) \/ GivesUp(broker, i, d) \/ TakesIn(broker, i, e, copy, d)
  <2>1. d = FinishCapture(broker, i, e, copy, fits)
    BY DEF d
  <2> HIDE DEF p, i, copy, e
  <2> QED
    BY <2>1, <1>p, <1>x, <1>c, <1>e, FinishFields, Zenon
<1> HIDE DEF p, i, copy, e
<1>1. CASE Rejects(broker, d)
  <2>0. broker' = broker /\ d = [broker |-> broker', ok |-> FALSE, revision |-> 0]
    BY <1>1, <1>u DEF Rejects
  <2>1. UNCHANGED <<broker, announced>> /\ made' >= made /\ up' \subseteq up /\ made' \in Nat
    BY <2>0, <1>u, <1>x, PasteAssumption DEF Shape
  <2>2. Ordered' /\ Moves
    BY <2>1, <1>x, BrokerStays
  <2>3. d.ok \in BOOLEAN /\ d.revision \in 0 .. broker'.next
    BY <2>0, <1>f
  <2> QED
    BY <2>0, <2>2, <2>3 DEF Tellings, d, p, i, copy, e
<1>2. CASE GivesUp(broker, i, d)
  <2>0. /\ d = [broker |-> broker', ok |-> FALSE, revision |-> 0]
        /\ broker' \in BrokerType
        /\ broker'.next = broker.next /\ broker'.live = broker.live
        /\ broker'.offers = broker.offers /\ broker'.seen = broker.seen
        /\ broker'.last.epoch = broker.last.epoch /\ broker'.last.source = broker.last.source
        /\ broker'.last.ready = broker.last.ready
        /\ broker'.captures[i] = 0
        /\ \A j \in Instances \ {i} : broker'.captures[j] = broker.captures[j]
    BY <1>2, <1>u DEF GivesUp
  <2>1. \A j \in Instances : broker'.captures[j] \in {0, broker.captures[j]}
    BY <2>0
  <2>2. up \subseteq broker'.live
    BY <1>x, <2>0 DEF Ordered, Bounds
  <2>3. Ordered' /\ Moves
    BY <1>x, <1>u, <2>0, <2>1, <2>2, LessKeeps
  <2>4. d.ok \in BOOLEAN /\ d.revision \in 0 .. broker'.next
    BY <2>0, <1>f
  <2> QED
    BY <2>0, <2>3, <2>4 DEF Tellings, d, p, i, copy, e
<1>3. CASE TakesIn(broker, i, e, copy, d)
  <2>t. /\ d = [broker |-> broker', ok |-> TRUE, revision |-> broker.next + 1]
        /\ broker.captures[i] = e /\ e > broker.late
        /\ broker' \in BrokerType
        /\ broker'.next = broker.next + 1 /\ broker'.live = broker.live
        /\ broker'.offers = [broker.offers EXCEPT
                               ![i] = [revision |-> broker.next + 1, copy |-> copy]]
        /\ broker'.captures[i] = 0
        /\ \A j \in Instances \ {i} :
              broker'.captures[j] = broker.captures[j] /\ broker'.seen[j] = broker.seen[j]
        /\ copy.kind = "restored" => broker'.seen[i] = broker.last.epoch
        /\ copy.kind # "restored" => broker'.seen[i] = broker.seen[i]
        /\ broker'.last.epoch = broker.last.epoch /\ broker'.last.source = broker.last.source
        /\ broker.last.source = i /\ broker.last.epoch = e
             => broker'.last.ready = broker.next + 1
        /\ ~ (broker.last.source = i /\ broker.last.epoch = e)
             => broker'.last.ready = broker.last.ready
    BY <1>3, <1>u DEF TakesIn
  <2>0. e # 0 /\ announced[copy.n] # 0
    BY <2>t, <1>e, <1>f
  <2>a. InstanceOf[copy.by] = i
    BY <1>c DEF i
  <2>1. broker'.seen[i] \in {broker.seen[i], broker.last.epoch}
    BY <2>t
  <2>2. \/ broker'.last.ready = broker.last.ready
        \/ /\ broker.last.source = i /\ broker'.last.ready = broker.next + 1
           /\ announced[copy.n] = Epoch /\ InstanceOf[copy.by] = i
    BY <2>t, <1>e, <2>a DEF Epoch
  <2>3. Epoch # 0 /\ announced[copy.n] >= Epoch =>
              /\ broker'.seen[i] = Epoch
              /\ i # broker.last.source /\ announced[copy.n] = Epoch => broker.last.ready # 0
    <3> SUFFICES ASSUME Epoch # 0, e >= Epoch
                 PROVE  /\ broker'.seen[i] = Epoch
                        /\ i # broker.last.source /\ e = Epoch => broker.last.ready # 0
      BY <1>e
    <3>1. e = Epoch => i = broker.last.source /\ broker.seen[i] = Epoch
      BY <1>p, <1>x, <2>t DEF Ordered, Source
    <3>2. CASE copy.kind = "restored"
      BY <3>1, <3>2, <2>t DEF Epoch
    <3>3. CASE copy.kind # "restored"
      <4>1. e = Epoch
        BY <3>3, <1>r, <1>e, <1>f, <2>0
      <4> QED
        BY <3>1, <3>3, <4>1, <2>t
    <3> QED
      BY <3>2, <3>3
  <2>4. Epoch # 0 /\ broker'.seen[i] = Epoch =>
              announced[copy.n] >= Epoch \/ copy.kind = "restored"
    <3> SUFFICES ASSUME Epoch # 0, broker'.seen[i] = Epoch, copy.kind # "restored"
                 PROVE  e >= Epoch
      BY <1>e
    <3>1. broker.seen[i] = Epoch
      BY <2>t
    <3>2. broker.captures[i] = 0 \/ broker.captures[i] >= Epoch
      BY <3>1, <1>p, <1>x DEF Ordered, Standing
    <3> QED
      BY <3>2, <2>t, <2>0
  <2>5. Ordered' /\ Moves
    BY <1>x, <1>u, <1>p, <1>c, <2>t, <2>0, <2>1, <2>2, <2>3, <2>4, SetKeeps
  <2>6. d.ok \in BOOLEAN /\ d.revision \in 0 .. broker'.next
    BY <2>t, <1>f
  <2>7. broker.captures[i] = announced[copy.n]
    BY <2>t, <1>e
  <2> QED
    BY <2>t, <1>c, <2>0, <2>5, <2>6, <2>7 DEF Tellings, d, p, i, copy, e
<1> QED
  BY <1>d, <1>1, <1>2, <1>3

LEMMA PublishStep ==
    ASSUME IInv, NEW l \in Launches, NEW fits \in BOOLEAN, Publish(l, fits) PROVE IInv'
<1> DEFINE p == px[l]
           d == FinishCapture(broker, InstanceOf[l], p.epochs.epoch, p.publish, fits)
           told == [local |-> p.publish.n, ok |-> d.ok, revision |-> d.revision]
           q == [p EXCEPT !.publish = NoCopy, !.told = told]
<1>p. /\ p \in ProxyType
      /\ ProxyOK(l, p, made, up, broker, announced)
      /\ p.alive /\ p.publish # NoCopy
  BY ProxyHere DEF Publish, MayTell, MayPublish
<1>x. px \in [Launches -> ProxyType] /\ Shape
  BY DEF IInv, Shape
<1>u. UNCHANGED <<up, home, made, announced, pend, helper, asked>> /\ faults' \in Nat
  BY <1>x DEF Publish, pasteVars, copyVars, Fault, Shape
<1>1. px' = Noticed([px EXCEPT ![l] = q], broker')
  BY <1>x DEF Publish
<1>b. Ordered' /\ Moves /\ d.ok \in BOOLEAN /\ d.revision \in 0 .. broker'.next
  BY PublishBroker
<1>n. p.publish.n \in Nat /\ p.publish.n # 0
  BY <1>p, ProxyFields, CopyFields DEF Selections
<1>s. broker'.next \in Nat /\ broker.next \in Nat
  BY <1>b, <1>x, BrokerFields DEF Moves, Shape
<1> HIDE DEF d
<1>t. told \in ToldType /\ told.local # 0 /\ told.revision <= broker'.next
  BY <1>b, <1>n, <1>s DEF ToldType
<1> HIDE DEF told, p
<1>2. /\ q \in ProxyType
      /\ q.alive = p.alive /\ q.local = p.local
      /\ q.changing = p.changing /\ q.epochs = p.epochs
      /\ q.begin = p.begin /\ q.capture = p.capture /\ q.publish = NoCopy
      /\ q.told = told /\ q.clear = p.clear /\ q.snap = p.snap
      /\ q.reads = p.reads
  <2>1. NoCopy \in CopyOrNone
    BY CopyFields
  <2> QED
    BY <1>p, <1>t, <2>1 DEF ProxyType
<1> HIDE DEF q
<1>3. ProxyOK(l, q, made, up, broker', announced)
  <2>1. made' = made /\ up' = up /\ announced' = announced /\ made \in Nat
    BY <1>u, <1>x DEF Shape
  <2>2. p.alive => InstanceOf[l] \in up'
    BY <1>p, <2>1 DEF ProxyOK
  <2>3. ProxyOK(l, p, made', up', broker', announced')
    BY <1>b, <1>p, <1>x, <2>1, <2>2, ProxyStays
  <2>4. p.snap <= broker'.next
    BY <2>3 DEF ProxyOK
  <2> QED
    BY <1>p, <1>t, <1>2, <2>1, <2>3, <2>4, Alike
<1>4. Fresh(broker', l, q)
  BY <1>t, <1>2 DEF Fresh, Free, NoTold
<1>5. q.alive = px[l].alive /\ q.local = px[l].local /\ q.reads = px[l].reads
  BY <1>2 DEF p
<1>6. DOMAIN helper' = Tickets /\ \A t \in Tickets : helper'[t] = helper[t]
  BY <1>u, <1>x DEF Shape
<1> QED
  BY <1>1, <1>2, <1>3, <1>4, <1>5, <1>6, <1>b, <1>u, PxStep

\* A step in which each proxy moves to one in order, or stays as it is with
\* its instance's offer; and a paste held back is dropped at most.
LEMMA AnyStep ==
    ASSUME IInv, Ordered', Moves,
           UNCHANGED <<home, helper, asked>>, up' \subseteq up, faults' \in Nat,
           made' \in 0 .. MaxSelections, made' >= made,
           announced' \in [Selections -> Nat],
           px' \in [Launches -> ProxyType],
           \A l \in Launches :
              \/ /\ px'[l] = px[l]
                 /\ px[l].alive =>
                       /\ InstanceOf[l] \in up'
                       /\ broker'.offers[InstanceOf[l]] = broker.offers[InstanceOf[l]]
                 /\ px[l].local \in Selections =>
                       announced'[px[l].local] = announced[px[l].local]
              \/ /\ ProxyOK(l, px'[l], made', up', broker', announced')
                 /\ Fresh(broker', l, px'[l]),
           \A l, m \in Launches : px'[l].local = px'[m].local => l = m \/ px'[l].local = 0,
           \A l \in Launches : px'[l].reads = px[l].reads \/ ReadsKnow(broker', l, px'[l]),
           pend' \in [Launches -> PendType],
           \A l \in Launches : pend'[l] = pend[l] \/ pend'[l] = NoPaste,
           Held'
    PROVE  IInv'
<1>s. Shape /\ Ordered /\ Proxies /\ Answers /\ Current
  BY DEF IInv
<1>n. made \in Nat /\ made' \in Nat /\ asked \in Nat /\ broker' \in BrokerType
  BY <1>s, PasteAssumption DEF Shape, Moves
<1>1. Shape'
  BY <1>s, <1>n DEF Shape
<1>2. ASSUME NEW l \in Launches
      PROVE  ProxyOK(l, px'[l], made', up', broker', announced') /\ Fresh(broker', l, px'[l])
  <2>1. CASE /\ px'[l] = px[l]
             /\ px[l].alive =>
                   /\ InstanceOf[l] \in up'
                   /\ broker'.offers[InstanceOf[l]] = broker.offers[InstanceOf[l]]
             /\ px[l].local \in Selections =>
                   announced'[px[l].local] = announced[px[l].local]
    <3>1. /\ px[l] \in ProxyType /\ ProxyOK(l, px[l], made, up, broker, announced)
          /\ Fresh(broker, l, px[l])
      BY <1>s DEF Shape, Proxies, Current
    <3>2. ProxyOK(l, px[l], made', up', broker', announced')
      BY <2>1, <3>1, <1>s, <1>n, ProxyStays
    <3>3. Fresh(broker', l, px[l])
      BY <2>1, <3>1 DEF Fresh
    <3> QED
      BY <2>1, <3>2, <3>3
  <2> QED
    BY <2>1
<1>3. Proxies' /\ Current'
  BY <1>2 DEF Proxies, Current
<1>4. ASSUME NEW l \in Launches
      PROVE  \/ pend'[l] = pend[l]
             \/ Matches(broker', InstanceOf[l], pend'[l]) /\ pend'[l].ticket <= asked'
  <2>1. CASE pend'[l] = NoPaste
    <3>1. InstanceOf[l] \in Instances /\ broker'.next \in Nat
      BY <1>n, PasteAssumption, BrokerFields
    <3>2. broker'.offers[InstanceOf[l]].revision = 0 => broker'.offers[InstanceOf[l]].copy = NoCopy
      BY <3>1 DEF Ordered, Bounds, Offered
    <3>3. Matches(broker', InstanceOf[l], NoPaste)
      BY <3>1, <3>2, NothingTypes DEF Matches
    <3> QED
      BY <2>1, <3>3, <1>n, NothingTypes
  <2> QED
    BY <2>1
<1>5. Answers'
  <2>1. asked' \in Nat /\ asked' >= asked
    BY <1>n
  <2>2. \A t \in Tickets : helper'[t] = helper[t]
    OBVIOUS
  <2> QED
    BY <1>4, <1>s, <2>1, <2>2, AnswersKept
<1> QED
  BY <1>1, <1>3, <1>5 DEF IInv

LEMMA StaysHere == ASSUME IInv, UNCHANGED <<broker, announced>>, made' \in Nat, made' >= made, up' \subseteq up
                   PROVE  Ordered' /\ Moves
BY BrokerStays DEF IInv

LEMMA SelectStep == ASSUME IInv, NEW l \in Launches, NEW kind \in Kinds, Select(l, kind) PROVE IInv'
<1> DEFINE p == px[l]
           copy == [n |-> made + 1, by |-> l, kind |-> kind]
           q == Selected(p, copy)
<1>p. /\ p \in ProxyType
      /\ ProxyOK(l, p, made, up, broker, announced)
      /\ Fresh(broker, l, p)
      /\ p.alive
  BY ProxyHere DEF Select
<1>x. /\ px \in [Launches -> ProxyType] /\ pend \in [Launches -> PendType] /\ Shape /\ Ordered
      /\ made \in Nat /\ announced \in [Selections -> Nat] /\ MaxSelections \in Nat
  BY PasteAssumption DEF IInv, Shape
<1>u. /\ UNCHANGED <<broker, up, home, pend, helper, asked, faults, announced>>
      /\ made' = made + 1 /\ made < MaxSelections
  BY DEF Select, pasteVars
<1>m. made' \in 0 .. MaxSelections /\ made' \in Nat /\ made' >= made /\ faults' \in Nat
  BY <1>u, <1>x DEF Shape
<1>c. /\ copy \in Copies /\ copy # NoCopy /\ copy.n = made + 1 /\ copy.by = l
      /\ copy.n \in Nat /\ copy.n # 0 /\ copy.n \in Selections
  <2>1. made + 1 \in Selections
    BY <1>u, <1>x DEF Selections
  <2>2. copy \in Copies
    BY <2>1 DEF Copies
  <2> QED
    BY <2>1, <2>2, <1>x, CopyFields
<1>a. announced[copy.n] = 0
  BY <1>c, <1>x DEF Ordered, Bounds
<1>1. px' = [px EXCEPT ![l] = q]
  BY <1>x DEF Select
<1>2. Ordered' /\ Moves
  BY <1>u, <1>m, StaysHere
<1> HIDE DEF copy, p
<1>q. /\ q \in ProxyType
      /\ q.alive = p.alive /\ q.local = copy.n
      /\ q.changing \in {0, copy.n} /\ q.epochs = NoEpoch
      /\ q.begin \in {NoCopy, copy} /\ (q.begin = NoCopy <=> copy.kind = "clear")
      /\ q.capture \in {NoCopy, copy} /\ (q.capture = copy => Readable(copy.kind))
      /\ q.publish = NoCopy
      /\ q.told = p.told /\ q.clearing = p.clearing
      /\ q.refresh = p.refresh /\ q.changed = p.changed /\ q.snap = p.snap
      /\ q.reads = p.reads
  BY <1>p, <1>c, SelectedFields
<1> HIDE DEF q
<1>3. ProxyOK(l, q, made', up', broker', announced')
  <2>1. q.capture # NoCopy => q.begin # NoCopy /\ q.capture = q.begin
    BY <1>q DEF Readable
  <2>2. Reads(q, q.capture, broker', announced') /\ Reads(q, q.publish, broker', announced')
    BY <1>q, <2>1 DEF Reads
  <2>3. ProxyCopy(l, q, q.begin) /\ ProxyCopy(l, q, q.capture) /\ ProxyCopy(l, q, q.publish)
    BY <1>q, <1>c DEF ProxyCopy
  <2>4. q.snap <= broker'.next /\ q.told.revision <= broker'.next
    BY <1>p, <1>q, <1>u DEF ProxyOK
  <2>5. InstanceOf[l] \in up'
    BY <1>p, <1>u DEF ProxyOK
  <2>6. q.local <= made' /\ q.local # 0
    BY <1>q, <1>c, <1>u, <1>x
  <2>7. announced'[q.local] = 0
    BY <1>q, <1>a, <1>u
  <2> QED
    BY <1>p, <1>q, <2>2, <2>3, <2>4, <2>5, <2>6, <2>7 DEF ProxyOK
<1>4. Fresh(broker', l, q)
  BY <1>p, <1>q, <1>u DEF Fresh, Free
<1>5. /\ px' \in [Launches -> ProxyType] /\ px'[l] = q
      /\ \A m \in Launches \ {l} : px'[m] = px[m]
  BY <1>1, <1>q, <1>x
<1>6. \A m \in Launches : /\ px[m].alive => InstanceOf[m] \in up'
                          /\ px[m].local <= made /\ px[m].local \in Nat
  BY <1>u, <1>x, ProxyFields DEF IInv, Proxies, ProxyOK
<1>7. \A m, n \in Launches : px'[m].local = px'[n].local => m = n \/ px'[m].local = 0
  <2>1. \A m \in Launches \ {l} : px'[m].local # q.local
    BY <1>5, <1>6, <1>q, <1>c, <1>x
  <2>2. \A m, n \in Launches : px[m].local = px[n].local => m = n \/ px[m].local = 0
    BY DEF IInv, Proxies
  <2> QED
    BY <2>1, <2>2, <1>5
<1>8. \A m \in Launches : px'[m].reads = px[m].reads
  BY <1>5, <1>q DEF p
<1>h. Held'
  BY <1>5, <1>q, <1>u DEF Held, IInv, p
<1>9. \A m \in Launches :
              \/ /\ px'[m] = px[m]
                 /\ px[m].alive =>
                       /\ InstanceOf[m] \in up'
                       /\ broker'.offers[InstanceOf[m]] = broker.offers[InstanceOf[m]]
                 /\ px[m].local \in Selections =>
                       announced'[px[m].local] = announced[px[m].local]
              \/ /\ ProxyOK(m, px'[m], made', up', broker', announced')
                 /\ Fresh(broker', m, px'[m])
  BY <1>3, <1>4, <1>5, <1>6, <1>u
<1> QED
  BY <1>2, <1>5, <1>7, <1>8, <1>9, <1>m, <1>u, <1>x, <1>h, AnyStep

LEMMA AnnounceBroker ==
    ASSUME IInv, NEW l \in Launches, Announce(l)
    PROVE  /\ Ordered' /\ Moves
           /\ broker'.offers = broker.offers
           /\ broker'.next = broker.next + 1
           /\ UserCopy(px[l].begin.kind) => Epoch' = broker.next + 1
           /\ announced' = [announced EXCEPT ![px[l].begin.n] = broker.next + 1]
           /\ px' = [px EXCEPT ![l] = Begun(@, px[l].begin, broker.next + 1)]
<1> DEFINE p == px[l]
           i == InstanceOf[l]
           copy == p.begin
           user == UserCopy(copy.kind)
<1>p. /\ p \in ProxyType /\ i \in Instances
      /\ ProxyOK(l, p, made, up, broker, announced)
      /\ copy # NoCopy
      /\ p.alive /\ i \in broker.live
  BY ProxyHere DEF Announce
<1>x. broker \in BrokerType /\ Shape /\ Ordered /\ announced \in [Selections -> Nat]
  BY DEF IInv, Shape
<1>c. copy.n \in Selections /\ copy.n = p.local /\ announced[copy.n] = 0 /\ copy.n <= made
  BY <1>p, CopyFields, ProxyFields DEF ProxyOK, ProxyCopy
<1>t. user \in BOOLEAN
  BY DEF UserCopy
<1>b. broker' = BeginCapture(broker, i, user)
  BY DEF Announce
<1>u. UNCHANGED <<up, made>>
  BY DEF Announce
<1>e. /\ broker'.next = broker.next + 1
      /\ broker'.offers = broker.offers
      /\ user => broker'.last.epoch = broker.next + 1
  <2>1. Begins(broker, i, user, BeginCapture(broker, i, user))
    <3> HIDE DEF user
    <3> QED BY <1>p, <1>x, <1>t, BeginFields, Zenon
  <2> QED
    BY <1>b, <2>1 DEF Begins
<1>a. /\ announced' = [announced EXCEPT ![copy.n] = broker.next + 1]
      /\ px' = [px EXCEPT ![l] = Begun(@, copy, broker.next + 1)]
  BY <1>b, <1>e DEF Announce
<1>1. Ordered' /\ Moves
  <2> HIDE DEF user, copy
  <2> QED BY <1>p, <1>x, <1>c, <1>t, <1>b, <1>u, <1>a, BeginKeeps
<1> QED
  BY <1>e, <1>a, <1>1 DEF Epoch

LEMMA AnnounceStep == ASSUME IInv, NEW l \in Launches, Announce(l) PROVE IInv'
<1> DEFINE p == px[l]
           copy == p.begin
           e == broker.next + 1
           q == Begun(p, copy, e)
<1>p. /\ p \in ProxyType
      /\ ProxyOK(l, p, made, up, broker, announced)
      /\ Fresh(broker, l, p)
      /\ copy # NoCopy
      /\ p.alive
  BY ProxyHere DEF Announce
<1>x. /\ px \in [Launches -> ProxyType] /\ pend \in [Launches -> PendType] /\ Shape /\ Ordered
      /\ made \in Nat /\ announced \in [Selections -> Nat] /\ broker.next \in Nat
  BY PasteAssumption, BrokerFields DEF IInv, Shape
<1>u. /\ UNCHANGED <<up, home, pend, helper, asked, faults, made>>
  BY DEF Announce, pasteVars
<1>b. /\ Ordered' /\ Moves
      /\ broker'.offers = broker.offers
      /\ broker'.next = e
      /\ UserCopy(copy.kind) => Epoch' = e
      /\ announced' = [announced EXCEPT ![copy.n] = e]
      /\ px' = [px EXCEPT ![l] = Begun(@, copy, e)]
  BY AnnounceBroker
<1>c. /\ copy \in Copies /\ copy.n \in Selections /\ copy.n = p.local /\ copy.by = l
      /\ copy.n \in Nat /\ copy.n # 0
      /\ p.epochs = NoEpoch
  BY <1>p, CopyFields, ProxyFields DEF ProxyOK, ProxyCopy, Selections
<1>1. px' = [px EXCEPT ![l] = q]
  BY <1>b, <1>x
<1> HIDE DEF e
<1>e. e \in Nat /\ e = broker.next + 1
  BY <1>x DEF e
<1>a. announced' \in [Selections -> Nat] /\ announced'[copy.n] = e
      /\ \A n \in Selections \ {copy.n} : announced'[n] = announced[n]
  BY <1>b, <1>c, <1>e, <1>x
<1> HIDE DEF copy, p
<1>q. /\ q \in ProxyType
      /\ q.alive = p.alive /\ q.local = p.local /\ q.changing = p.changing
      /\ \/ q.epochs = NoEpoch
         \/ q.epochs = [local |-> copy.n, epoch |-> e]
      /\ q.begin = NoCopy /\ q.capture = p.capture /\ q.publish = p.publish
      /\ q.told = p.told /\ q.clear = p.clear /\ q.clearing = p.clearing
      /\ q.refresh = p.refresh /\ q.changed = p.changed /\ q.snap = p.snap
      /\ q.reads = p.reads
  <2>1. NoCopy \in CopyOrNone
    BY CopyFields
  <2>2. CASE p.changing = copy.n
    <3> DEFINE epochs == [local |-> copy.n, epoch |-> e]
    <3>1. epochs \in EpochsType
      BY <1>c, <1>e DEF EpochsType
    <3>2. q = [p EXCEPT !.begin = NoCopy, !.epochs = epochs]
      BY <2>2 DEF Begun
    <3> HIDE DEF epochs
    <3>3. q \in ProxyType /\ q.epochs = epochs
      BY <1>p, <2>1, <3>1, <3>2 DEF ProxyType
    <3>4. /\ q.alive = p.alive /\ q.local = p.local /\ q.changing = p.changing
          /\ q.begin = NoCopy /\ q.capture = p.capture /\ q.publish = p.publish
          /\ q.told = p.told /\ q.clear = p.clear /\ q.clearing = p.clearing
          /\ q.refresh = p.refresh /\ q.changed = p.changed /\ q.snap = p.snap
          /\ q.reads = p.reads
      BY <1>p, <3>2 DEF ProxyType
    <3> QED
      BY <3>3, <3>4 DEF epochs
  <2>3. CASE p.changing # copy.n
    <3> DEFINE aborts == p.aborts \cup {e}
    <3>1. aborts \in SUBSET Nat
      BY <1>p, <1>e, ProxyFields
    <3>2. q = [p EXCEPT !.begin = NoCopy, !.aborts = aborts]
      BY <2>3 DEF Begun
    <3> HIDE DEF aborts
    <3>3. q \in ProxyType /\ q.epochs = p.epochs
      BY <1>p, <2>1, <3>1, <3>2 DEF ProxyType
    <3>4. /\ q.alive = p.alive /\ q.local = p.local /\ q.changing = p.changing
          /\ q.begin = NoCopy /\ q.capture = p.capture /\ q.publish = p.publish
          /\ q.told = p.told /\ q.clear = p.clear /\ q.clearing = p.clearing
          /\ q.refresh = p.refresh /\ q.changed = p.changed /\ q.snap = p.snap
          /\ q.reads = p.reads
      BY <1>p, <3>2 DEF ProxyType
    <3> QED
      BY <3>3, <3>4, <1>c
  <2> QED
    BY <2>2, <2>3
<1> HIDE DEF q
<1>3. ProxyOK(l, q, made', up', broker', announced')
  <2>1. ASSUME NEW c \in {p.capture, p.publish}
        PROVE  Reads(q, c, broker', announced') /\ ProxyCopy(l, q, c)
    <3> SUFFICES ASSUME c # NoCopy
                 PROVE  Reads(q, c, broker', announced') /\ ProxyCopy(l, q, c)
      BY DEF Reads, ProxyCopy
    <3>1. Readable(c.kind) /\ c = copy
      BY <1>p DEF ProxyOK, Reads, copy
    <3>2. c.kind # "restored" => UserCopy(copy.kind)
      BY <3>1 DEF Readable, UserCopy
    <3>3. c.kind # "restored" => announced'[c.n] <= broker'.last.epoch
      BY <3>1, <3>2, <1>a, <1>b, <1>e DEF Epoch
    <3> QED
      BY <3>1, <3>3, <1>c, <1>q DEF Reads, ProxyCopy
  <2>2. Reads(q, q.capture, broker', announced') /\ Reads(q, q.publish, broker', announced')
        /\ ProxyCopy(l, q, q.capture) /\ ProxyCopy(l, q, q.publish) /\ ProxyCopy(l, q, q.begin)
    BY <2>1, <1>q DEF ProxyCopy
  <2>3. /\ p.local <= made /\ p.changing \in {0, p.local} /\ InstanceOf[l] \in up
        /\ p.clear => p.local # 0
        /\ p.snap <= broker.next /\ p.told.revision <= broker.next
    BY <1>p DEF ProxyOK
  <2>4. q.snap <= broker'.next /\ q.told.revision <= broker'.next
    BY <2>3, <1>p, <1>b, <1>e, <1>q, <1>x, ProxyFields
  <2>5. q.epochs # NoEpoch =>
           q.local # 0 /\ q.epochs.local = q.local /\ q.epochs.epoch = announced'[q.local]
    BY <1>q, <1>a, <1>c
  <2> QED
    BY <1>p, <1>q, <1>u, <2>2, <2>3, <2>4, <2>5 DEF ProxyOK
<1>4. Fresh(broker', l, q)
  BY <1>p, <1>q, <1>b DEF Fresh, Free
<1>5. /\ px' \in [Launches -> ProxyType] /\ px'[l] = q
      /\ \A m \in Launches \ {l} : px'[m] = px[m]
  BY <1>1, <1>q, <1>x
<1>6. \A m \in Launches : px[m].alive => InstanceOf[m] \in up'
  BY <1>u DEF IInv, Proxies, ProxyOK
<1>d. \A m, n \in Launches : px[m].local = px[n].local => m = n \/ px[m].local = 0
  BY DEF IInv, Proxies
<1>7. \A m, n \in Launches : px'[m].local = px'[n].local => m = n \/ px'[m].local = 0
  <2>1. \A m \in Launches : px'[m].local = px[m].local
    BY <1>5, <1>q DEF p
  <2> QED
    BY <2>1, <1>d
<1>8. \A m \in Launches : px'[m].reads = px[m].reads
  BY <1>5, <1>q DEF p
<1>h. Held'
  BY <1>5, <1>q, <1>u DEF Held, IInv, p
<1>o. \A m \in Launches \ {l} : px[m].local # copy.n
  BY <1>c, <1>d DEF p
<1>9. \A m \in Launches :
              \/ /\ px'[m] = px[m]
                 /\ px[m].alive =>
                       /\ InstanceOf[m] \in up'
                       /\ broker'.offers[InstanceOf[m]] = broker.offers[InstanceOf[m]]
                 /\ px[m].local \in Selections =>
                       announced'[px[m].local] = announced[px[m].local]
              \/ /\ ProxyOK(m, px'[m], made', up', broker', announced')
                 /\ Fresh(broker', m, px'[m])
  BY <1>3, <1>4, <1>5, <1>6, <1>a, <1>b, <1>o
<1>m. made' \in 0 .. MaxSelections /\ made' >= made /\ faults' \in Nat /\ up' \subseteq up
      /\ pend' \in [Launches -> PendType] /\ \A m \in Launches : pend'[m] = pend[m]
  BY <1>u, <1>x DEF Shape
<1> QED
  BY <1>b, <1>a, <1>5, <1>7, <1>8, <1>9, <1>m, <1>u, <1>h, AnyStep

LEMMA ClearedBroker ==
    ASSUME IInv, NEW i \in broker.live, broker' = ClearSelection(broker, i),
           UNCHANGED <<up, made, announced>>
    PROVE  /\ Ordered' /\ Moves
           /\ broker'.offers = [broker.offers EXCEPT ![i] = NoOffer]
<1>x. broker \in BrokerType /\ Shape /\ Ordered /\ i \in Instances
  BY DEF IInv, Shape, BrokerType
<1>b. /\ broker' \in BrokerType
      /\ broker'.next = broker.next /\ broker'.live = broker.live /\ broker'.seen = broker.seen
      /\ broker'.offers = [broker.offers EXCEPT ![i] = NoOffer]
      /\ broker'.last.epoch = broker.last.epoch /\ broker'.last.source = broker.last.source
      /\ broker'.last.ready = broker.last.ready
      /\ broker'.captures[i] = 0
      /\ \A j \in Instances \ {i} : broker'.captures[j] = broker.captures[j]
  BY <1>x, ClearFields
<1>1. \A j \in Instances : /\ broker'.captures[j] \in {0, broker.captures[j]}
                           /\ broker'.offers[j] \in {NoOffer, broker.offers[j]}
  BY <1>x, <1>b DEF BrokerType
<1>2. up \subseteq broker'.live
  BY <1>x, <1>b DEF Ordered, Bounds
<1> QED
  BY <1>x, <1>b, <1>1, <1>2, LessKeeps

LEMMA ClearedStep == ASSUME IInv, NEW l \in Launches, Cleared(l) PROVE IInv'
<1> DEFINE p == px[l]
           i == InstanceOf[l]
           r == [p EXCEPT !.clearing = 0, !.snap = 0]
           q == ReleaseLocal(r, p.clearing, FALSE)
<1>p. /\ p \in ProxyType /\ i \in Instances
      /\ ProxyOK(l, p, made, up, broker, announced)
      /\ p.alive /\ i \in broker.live
  BY ProxyHere DEF Cleared
<1>x. px \in [Launches -> ProxyType] /\ Shape /\ broker \in BrokerType
  BY DEF IInv, Shape
<1>u. UNCHANGED <<up, home, made, announced, pend, helper, asked>> /\ faults' \in Nat
  BY <1>x DEF Cleared, pasteVars, copyVars, Shape
<1>a. broker' = ClearSelection(broker, i) /\ px' = Noticed([px EXCEPT ![l] = q], broker')
  BY <1>x DEF Cleared
<1>b. /\ Ordered' /\ Moves
      /\ broker'.offers = [broker.offers EXCEPT ![i] = NoOffer]
  BY <1>a, <1>p, <1>u, ClearedBroker
<1>n. broker'.next \in Nat /\ 0 \in Nat
  BY <1>b, BrokerFields DEF Moves
<1> HIDE DEF p
<1>2. /\ r \in ProxyType
      /\ r.alive = p.alive /\ r.local = p.local
      /\ r.changing = p.changing /\ r.epochs = p.epochs
      /\ r.begin = p.begin /\ r.capture = p.capture /\ r.publish = p.publish
      /\ r.told = p.told /\ r.clear = p.clear /\ r.snap = 0
      /\ r.reads = p.reads
  BY <1>p, <1>n DEF ProxyType
<1> HIDE DEF r
<1>3. Released(r, q)
  BY <1>2, ReleaseFields, Zenon
<1> HIDE DEF q
<1>4. /\ q \in ProxyType
      /\ q.alive = r.alive /\ q.local = r.local
      /\ \/ q.changing = r.changing /\ q.epochs = r.epochs
         \/ q.changing = 0 /\ q.epochs = NoEpoch
      /\ q.begin = r.begin /\ q.capture = r.capture /\ q.publish = r.publish
      /\ q.told = r.told /\ q.clear = r.clear /\ q.snap = r.snap
      /\ q.reads = r.reads
  BY <1>3 DEF Released
<1>5. ProxyOK(l, q, made, up, broker', announced)
  <2>1. made' = made /\ up' = up /\ announced' = announced /\ made \in Nat
    BY <1>u, <1>x DEF Shape
  <2>2. p.alive => InstanceOf[l] \in up'
    BY <1>p, <2>1 DEF ProxyOK
  <2>3. ProxyOK(l, p, made', up', broker', announced')
    BY <1>b, <1>p, <1>x, <2>1, <2>2, ProxyStays
  <2>4. p.told.revision <= broker'.next /\ 0 <= broker'.next
    BY <2>3, <1>n DEF ProxyOK
  <2> QED
    BY <1>p, <1>2, <1>4, <2>1, <2>3, <2>4, Alike
<1>6. Fresh(broker', l, q)
  <2>1. broker'.offers[i].revision = 0
    BY <1>b, <1>p, <1>x, NothingTypes DEF BrokerType
  <2> QED
    BY <1>2, <1>4, <2>1 DEF Fresh
<1>7. q.alive = px[l].alive /\ q.local = px[l].local /\ q.reads = px[l].reads
  BY <1>2, <1>4 DEF p
<1>8. DOMAIN helper' = Tickets /\ \A t \in Tickets : helper'[t] = helper[t]
  BY <1>u, <1>x DEF Shape
<1> QED
  BY <1>a, <1>b, <1>4, <1>5, <1>6, <1>7, <1>8, <1>u, PxStep

LEMMA ReadStep == ASSUME IInv, NEW l \in Launches, ReadSelection(l) PROVE IInv'
<1> DEFINE p == px[l]
           reads == Tail(p.reads)
           q == [p EXCEPT !.reads = reads]
<1>p. /\ p \in ProxyType
      /\ ProxyOK(l, p, made, up, broker, announced)
      /\ Fresh(broker, l, p)
      /\ p.alive /\ p.reads # <<>>
  BY ProxyHere DEF ReadSelection, MayRead
<1>x. /\ px \in [Launches -> ProxyType] /\ pend \in [Launches -> PendType] /\ Shape /\ Ordered
      /\ made \in Nat /\ announced \in [Selections -> Nat]
  BY PasteAssumption DEF IInv, Shape
<1>u. UNCHANGED <<broker, up, home, made, announced, pend, helper, asked, faults>>
  BY DEF ReadSelection, pasteVars, copyVars
<1>1. px' = [px EXCEPT ![l] = q]
  BY <1>x DEF ReadSelection
<1>r. /\ reads \in Seq(OfferType) /\ Len(reads) = Len(p.reads) - 1
      /\ \A k \in 1 .. Len(reads) : reads[k] = p.reads[k + 1]
  BY <1>p, ProxyFields
<1>k. ReadsKnow(broker, l, p)
  BY DEF IInv, Answers
<1>n. p.snap <= broker.next /\ p.told.revision <= broker.next /\ Len(p.reads) \in Nat
  BY <1>p, ProxyFields DEF ProxyOK
<1> HIDE DEF p, reads
<1>2. /\ q \in ProxyType
      /\ q.alive = p.alive /\ q.local = p.local
      /\ q.changing = p.changing /\ q.epochs = p.epochs
      /\ q.begin = p.begin /\ q.capture = p.capture /\ q.publish = p.publish
      /\ q.told = p.told /\ q.clear = p.clear /\ q.clearing = p.clearing
      /\ q.refresh = p.refresh /\ q.changed = p.changed /\ q.snap = p.snap
      /\ q.reads = reads
  BY <1>p, <1>r DEF ProxyType
<1> HIDE DEF q
<1>3. ProxyOK(l, q, made, up, broker, announced)
  BY <1>p, <1>n, <1>2, Alike
<1>4. Fresh(broker, l, q)
  BY <1>p, <1>2 DEF Fresh, Free
<1>5. ReadsKnow(broker, l, q)
  <2> SUFFICES ASSUME NEW k \in 1 .. Len(reads)
               PROVE  Matches(broker, InstanceOf[l], reads[k])
    BY <1>2 DEF ReadsKnow
  <2>1. k + 1 \in 1 .. Len(p.reads) /\ reads[k] = p.reads[k + 1]
    BY <1>r, <1>n
  <2> QED
    BY <2>1, <1>k DEF ReadsKnow
<1>6. /\ px' \in [Launches -> ProxyType] /\ px'[l] = q
      /\ \A m \in Launches \ {l} : px'[m] = px[m]
  BY <1>1, <1>2, <1>x
<1>7. \A m \in Launches : px[m].alive => InstanceOf[m] \in up
  BY DEF IInv, Proxies, ProxyOK
<1>8. \A m, n \in Launches : px'[m].local = px'[n].local => m = n \/ px'[m].local = 0
  <2>1. \A m \in Launches : px'[m].local = px[m].local
    BY <1>6, <1>2 DEF p
  <2> QED
    BY <2>1 DEF IInv, Proxies
<1>9. \A m \in Launches :
              /\ \/ /\ px'[m] = px[m]
                    /\ px[m].alive =>
                          /\ InstanceOf[m] \in up'
                          /\ broker'.offers[InstanceOf[m]] = broker.offers[InstanceOf[m]]
                    /\ px[m].local \in Selections =>
                          announced'[px[m].local] = announced[px[m].local]
                 \/ /\ ProxyOK(m, px'[m], made', up', broker', announced')
                    /\ Fresh(broker', m, px'[m])
              /\ px'[m].reads = px[m].reads \/ ReadsKnow(broker', m, px'[m])
  BY <1>3, <1>4, <1>5, <1>6, <1>7, <1>u
<1>m. /\ made' \in 0 .. MaxSelections /\ made' >= made /\ made' \in Nat /\ faults' \in Nat
      /\ up' \subseteq up /\ announced' \in [Selections -> Nat]
      /\ pend' \in [Launches -> PendType] /\ \A m \in Launches : pend'[m] = pend[m]
  BY <1>u, <1>x DEF Shape
<1>10. Ordered' /\ Moves
  BY <1>u, <1>m, StaysHere
<1>h. Held'
  BY <1>6, <1>2, <1>u DEF Held, IInv, p
<1> QED
  BY <1>6, <1>8, <1>9, <1>10, <1>m, <1>u, <1>h, AnyStep

\* Launches end, one of them or an instance's.
LEMMA EndStep ==
    ASSUME IInv, NEW L \in SUBSET Launches, up' \subseteq up,
           px' = [l \in Launches |-> IF l \in L THEN Ended ELSE px[l]],
           pend' = [l \in Launches |-> IF l \in L THEN NoPaste ELSE pend[l]],
           \A l \in Launches \ L : px[l].alive => InstanceOf[l] \in up',
           UNCHANGED <<broker, home, made, announced, helper, asked>>, faults' \in Nat
    PROVE  IInv'
<1>x. /\ px \in [Launches -> ProxyType] /\ pend \in [Launches -> PendType] /\ Shape
      /\ made \in Nat /\ announced \in [Selections -> Nat] /\ broker \in BrokerType
  BY PasteAssumption DEF IInv, Shape
<1>1. px' \in [Launches -> ProxyType] /\ pend' \in [Launches -> PendType]
  BY <1>x, NewTypes, NothingTypes
<1>2. \A l \in Launches : px'[l] = IF l \in L THEN Ended ELSE px[l]
  OBVIOUS
<1>3. \A m, n \in Launches : px'[m].local = px'[n].local => m = n \/ px'[m].local = 0
  <2>1. \A m, n \in Launches : px[m].local = px[n].local => m = n \/ px[m].local = 0
    BY DEF IInv, Proxies
  <2> QED
    BY <2>1, <1>2, NewTypes
<1>4. ASSUME NEW l \in Launches
      PROVE  /\ \/ /\ px'[l] = px[l]
                   /\ px[l].alive =>
                         /\ InstanceOf[l] \in up'
                         /\ broker'.offers[InstanceOf[l]] = broker.offers[InstanceOf[l]]
                   /\ px[l].local \in Selections =>
                         announced'[px[l].local] = announced[px[l].local]
                \/ /\ ProxyOK(l, px'[l], made', up', broker', announced')
                   /\ Fresh(broker', l, px'[l])
             /\ px'[l].reads = px[l].reads \/ ReadsKnow(broker', l, px'[l])
             /\ pend'[l] = pend[l] \/ pend'[l] = NoPaste
  <2>1. CASE l \in L
    <3>1. px'[l] = Ended /\ pend'[l] = NoPaste
      BY <2>1
    <3>2. ProxyOK(l, Ended, made', up', broker', announced') /\ Fresh(broker', l, Ended)
      BY <1>x, EndedOK
    <3>3. ReadsKnow(broker', l, Ended)
      <4>1. Len(Ended.reads) = 0
        BY NewTypes
      <4> QED
        BY <4>1 DEF ReadsKnow
    <3> QED
      BY <3>1, <3>2, <3>3
  <2>2. CASE l \notin L
    BY <2>2
  <2> QED
    BY <2>1, <2>2
<1>m. made' \in 0 .. MaxSelections /\ made' >= made /\ made' \in Nat
      /\ announced' \in [Selections -> Nat]
  BY <1>x DEF Shape
<1>5. Ordered' /\ Moves
  BY <1>m, StaysHere
<1>h. Held'
  BY DEF Held, IInv
<1> QED
  BY <1>1, <1>3, <1>4, <1>5, <1>m, <1>h, AnyStep

LEMMA LaunchEndsStep == ASSUME IInv, NEW l \in Launches, LaunchEnds(l) PROVE IInv'
<1>x. px \in [Launches -> ProxyType] /\ pend \in [Launches -> PendType] /\ faults \in Nat
  BY DEF IInv, Shape
<1>1. px' = [m \in Launches |-> IF m \in {l} THEN Ended ELSE px[m]]
  BY <1>x DEF LaunchEnds
<1>2. pend' = [m \in Launches |-> IF m \in {l} THEN NoPaste ELSE pend[m]]
  BY <1>x DEF LaunchEnds
<1>3. UNCHANGED <<broker, up, home, made, announced, helper, asked>> /\ faults' \in Nat
  BY <1>x DEF LaunchEnds, copyVars, Fault
<1>4. \A m \in Launches \ {l} : px[m].alive => InstanceOf[m] \in up'
  BY <1>3 DEF IInv, Proxies, ProxyOK
<1> QED
  BY <1>1, <1>2, <1>3, <1>4, EndStep

LEMMA InstanceEndsStep == ASSUME IInv, NEW i \in Instances, InstanceEnds(i) PROVE IInv'
<1> DEFINE L == {l \in Launches : InstanceOf[l] = i}
<1>1. px' = [m \in Launches |-> IF m \in L THEN Ended ELSE px[m]]
  BY DEF InstanceEnds
<1>2. pend' = [m \in Launches |-> IF m \in L THEN NoPaste ELSE pend[m]]
  BY DEF InstanceEnds
<1>3. UNCHANGED <<broker, home, made, announced, helper, asked>> /\ faults' \in Nat
      /\ up' = up \ {i}
  BY DEF InstanceEnds, Fault, IInv, Shape
<1>4. \A m \in Launches \ L : px[m].alive => InstanceOf[m] \in up'
  BY <1>3 DEF IInv, Proxies, ProxyOK
<1>5. L \in SUBSET Launches /\ up' \subseteq up
  BY <1>3
<1> HIDE DEF L
<1> QED
  BY <1>1, <1>2, <1>3, <1>4, <1>5, EndStep

LEMMA SweepBroker ==
    ASSUME IInv, NEW i \in Instances, Sweep(i)
    PROVE  /\ Ordered' /\ Moves
           /\ broker'.offers = [broker.offers EXCEPT ![i] = NoOffer]
           /\ i \notin up
<1>x. broker \in BrokerType /\ Shape /\ Ordered
  BY DEF IInv, Shape
<1>u. /\ UNCHANGED <<up, made, announced>> /\ broker' = RemoveInstance(broker, i) /\ i \notin up
  BY DEF Sweep, copyVars
<1>b. /\ broker' \in BrokerType
      /\ broker'.next = broker.next /\ broker'.live = broker.live \ {i}
      /\ broker'.offers = [broker.offers EXCEPT ![i] = NoOffer]
      /\ broker'.captures = [broker.captures EXCEPT ![i] = 0]
      /\ broker'.seen = [broker.seen EXCEPT ![i] = 0]
      /\ broker'.last.epoch = broker.last.epoch /\ broker'.last.source = broker.last.source
      /\ broker'.last.ready = broker.last.ready
  BY <1>u, <1>x, RemoveFields
<1>1. /\ broker'.captures[i] = 0 /\ broker'.offers[i] = NoOffer /\ broker'.seen[i] = 0
      /\ i \notin broker'.live
      /\ \A j \in Instances \ {i} :
            /\ broker'.captures[j] = broker.captures[j]
            /\ broker'.offers[j] = broker.offers[j]
            /\ broker'.seen[j] = broker.seen[j]
            /\ j \in broker.live => j \in broker'.live
  BY <1>x, <1>b DEF BrokerType
<1>2. up \subseteq broker'.live /\ broker'.live \subseteq broker.live
  BY <1>x, <1>u, <1>b DEF Ordered, Bounds
<1>3. \A j \in Instances :
              /\ broker'.captures[j] \in {0, broker.captures[j]}
              /\ broker'.offers[j] \in {NoOffer, broker.offers[j]}
              /\ broker'.seen[j] \in {0, broker.seen[j]}
              /\ broker'.seen[j] # broker.seen[j] =>
                    j \notin broker'.live /\ broker'.offers[j] = NoOffer /\ broker'.captures[j] = 0
              /\ j \in broker.live /\ j \notin broker'.live =>
                    broker'.offers[j] = NoOffer /\ broker'.captures[j] = 0
  BY <1>1
<1> QED
  BY <1>x, <1>u, <1>b, <1>2, <1>3, LessKeeps

\* The broker's own steps, which no proxy that runs sees.
LEMMA BrokerStep ==
    ASSUME IInv, Ordered', Moves, UNCHANGED <<px, up, home, made, announced, pend, helper, asked>>,
           faults' \in Nat,
           \A i \in up : broker'.offers[i] = broker.offers[i]
    PROVE  IInv'
<1>x. /\ px \in [Launches -> ProxyType] /\ pend \in [Launches -> PendType] /\ Shape
      /\ made \in Nat /\ announced \in [Selections -> Nat]
  BY PasteAssumption DEF IInv, Shape
<1>1. \A m \in Launches :
                 /\ px'[m] = px[m]
                 /\ px[m].alive =>
                       /\ InstanceOf[m] \in up'
                       /\ broker'.offers[InstanceOf[m]] = broker.offers[InstanceOf[m]]
                 /\ px[m].local \in Selections =>
                       announced'[px[m].local] = announced[px[m].local]
  BY DEF IInv, Proxies, ProxyOK
<1>2. \A m, n \in Launches : px'[m].local = px'[n].local => m = n \/ px'[m].local = 0
  BY DEF IInv, Proxies
<1>3. made' \in 0 .. MaxSelections /\ made' >= made
  BY <1>x DEF Shape
<1>h. Held'
  BY DEF Held, IInv
<1> QED
  BY <1>1, <1>2, <1>3, <1>x, <1>h, AnyStep

LEMMA SweepStep == ASSUME IInv, NEW i \in Instances, Sweep(i) PROVE IInv'
<1>1. /\ UNCHANGED <<px, up, home, made, announced, pend, helper, asked>>
      /\ faults' \in Nat
  BY DEF Sweep, copyVars, pasteVars, IInv, Shape
<1>2. \A j \in up : broker'.offers[j] = broker.offers[j]
  BY SweepBroker DEF IInv, Shape, BrokerType
<1> QED
  BY <1>1, <1>2, SweepBroker, BrokerStep

LEMMA TimeOutBroker ==
    ASSUME IInv, TimeOut
    PROVE  Ordered' /\ Moves /\ broker'.offers = broker.offers
<1>x. broker \in BrokerType /\ Shape /\ Ordered
  BY DEF IInv, Shape
<1> DEFINE late == CHOOSE e \in Waited : \A d \in Waited : e <= d
<1>1. Waited \subseteq Nat
  BY <1>x DEF Waited, BrokerType, LastType
<1>2. late \in Nat
  <2>1. PICK e \in Waited : \A d \in Waited : e <= d
    BY <1>1, Least DEF TimeOut
  <2> QED
    BY <1>1, <2>1
<1>3. broker' = [broker EXCEPT !.late = late] /\ UNCHANGED <<up, made, announced>>
  BY DEF TimeOut, copyVars
<1> HIDE DEF late
<1>4. /\ broker' \in BrokerType
      /\ broker'.next = broker.next /\ broker'.live = broker.live /\ broker'.seen = broker.seen
      /\ broker'.offers = broker.offers /\ broker'.captures = broker.captures
      /\ broker'.last = broker.last
  BY <1>x, <1>2, <1>3 DEF BrokerType
<1>5. up \subseteq broker'.live
  BY <1>x, <1>4 DEF Ordered, Bounds
<1> QED
  BY <1>x, <1>3, <1>4, <1>5, LessKeeps

LEMMA TimeOutStep == ASSUME IInv, TimeOut PROVE IInv'
<1>1. /\ UNCHANGED <<px, up, home, made, announced, pend, helper, asked>>
      /\ faults' \in Nat
  BY DEF TimeOut, copyVars, pasteVars, Fault, IInv, Shape
<1>2. Ordered' /\ Moves /\ broker'.offers = broker.offers
  BY TimeOutBroker
<1> QED
  BY <1>1, <1>2, BrokerStep


---------------------------------------------------------------------------
(* The steps of the pastes. *)

\* At most one paste's helper moves, to one in order.
Helped(b) ==
    /\ DOMAIN helper' = Tickets
    /\ \A u \in Tickets :
          \/ helper'[u] = helper[u]
          \/ HelperOK(helper'[u]) /\ HelperKnows(b, helper'[u])

LEMMA HelperSet ==
    ASSUME IInv, NEW t \in Tickets, NEW h, NEW b, HelperOK(h), HelperKnows(b, h),
           helper' = [helper EXCEPT ![t] = h]
    PROVE  Helped(b)
<1>1. DOMAIN helper = Tickets
  BY DEF IInv, Shape
<1>2. DOMAIN helper' = Tickets /\ helper'[t] = h /\ \A u \in Tickets \ {t} : helper'[u] = helper[u]
  BY <1>1
<1> QED
  BY <1>2 DEF Helped

LEMMA TellingHelper ==
    ASSUME NEW l \in Launches, NEW r \in ResultType, NEW b, Matches(b, InstanceOf[l], r),
           NEW h, h = [phase |-> "tell", launch |-> l, result |-> r]
    PROVE  HelperOK(h) /\ HelperKnows(b, h)
BY DEF HelperOK, HelperKnows

\* One that knows nothing that could become false.
LEMMA QuietHelper ==
    ASSUME NEW b, NEW h, HelperOK(h), h.phase \in {"none", "dropped", "prepare", "told", "reaped"}
    PROVE  HelperKnows(b, h)
BY DEF HelperKnows

LEMMA HelperHere ==
    ASSUME IInv, NEW t \in Tickets, NEW h, h = helper[t]
    PROVE  /\ HelperOK(h) /\ HelperKnows(broker, h)
           /\ h.phase \in {"prepare", "question", "secret", "tell", "told"}
                => h.launch \in Launches /\ Target(t) \in Instances
           /\ h.phase \in {"question", "secret"}
                => h.shown \in ShownType /\ Showable(broker, h.shown)
<1>1. HelperOK(h) /\ HelperKnows(broker, h)
  BY DEF IInv, Shape, Answers
<1>2. h.phase \in {"question", "secret"}
        => h.launch \in Launches /\ h.shown \in ShownType /\ Showable(broker, h.shown)
  BY <1>1 DEF HelperOK, HelperKnows, QuestionType
<1>3. h.phase \in {"prepare", "question", "secret", "tell", "told"} => h.launch \in Launches
  BY <1>1, <1>2 DEF HelperOK
<1> QED
  BY <1>1, <1>2, <1>3, PasteAssumption DEF Target

\* What the controller answers: what the target's own selection is, or what of
\* another instance that runs is the latest copy.
LEMMA AnswerFacts ==
    ASSUME IInv, NEW t \in Tickets, Target(t) \in Instances, NEW expected \in Nat,
           NEW d, d = Answer(t, expected)
    PROVE  /\ d.kind = "current" =>
                /\ d.target = broker.offers[Target(t)].revision
                /\ d.copy = Offered(Target(t))
           /\ d.kind = "transfer" =>
                /\ d \in ShownType /\ Showable(broker, d)
                /\ d.source \in up /\ d.source = broker.last.source /\ Target(t) \in up
<1> DEFINE e == PreparePaste(broker, Target(t), expected)
           s == broker.last.source
<1>x. broker \in BrokerType /\ Ordered
  BY DEF IInv, Shape
<1>1. \/ d = e /\ (e.kind = "transfer" => e.source \in up) /\ Target(t) \in up
      \/ d.kind = "stale"
  BY DEF Answer, NoDecision
<1>2. /\ e.kind = "current" =>
           e.target = broker.offers[Target(t)].revision /\ e.copy = broker.offers[Target(t)].copy
      /\ e.kind = "transfer" =>
           /\ e = [kind |-> "transfer", epoch |-> broker.last.epoch, source |-> s,
                   revision |-> broker.last.ready, target |-> broker.offers[Target(t)].revision,
                   copy |-> broker.offers[s].copy]
           /\ broker.last.epoch # 0 /\ broker.last.ready # 0
  BY <1>x, PrepareFacts
<1> HIDE DEF e
<1>3. ASSUME d = e, e.kind = "transfer"
      PROVE  d \in ShownType /\ Showable(broker, d) /\ d.source = s
  <2>1. /\ d = [kind |-> "transfer", epoch |-> broker.last.epoch, source |-> s,
                revision |-> broker.last.ready, target |-> broker.offers[Target(t)].revision,
                copy |-> broker.offers[s].copy]
        /\ broker.last.epoch # 0 /\ broker.last.ready # 0
    BY <1>2, <1>3
  <2>2. s \in Instances
    BY <1>x, <2>1 DEF Ordered, Source, Epoch
  <2>3. /\ broker.last.epoch \in Nat /\ broker.last.ready \in Nat
        /\ broker.offers[Target(t)].revision \in Nat
        /\ broker.offers[s].copy \in CopyOrNone
    BY <1>x, <2>2, BrokerFields
  <2>4. d \in ShownType
    BY <2>1, <2>2, <2>3 DEF ShownType
  <2>5. broker.last.epoch <= broker.next /\ broker.last.ready <= broker.next
    BY <1>x DEF Ordered, Bounds, Epoch
  <2>6. /\ d.epoch = broker.last.epoch /\ d.revision = broker.last.ready
        /\ d.copy = broker.offers[s].copy /\ d.source = s
    BY <2>1
  <2>7. Showable(broker, d)
    BY <2>1, <2>5, <2>6 DEF Showable
  <2> QED
    BY <2>4, <2>6, <2>7
<1> QED
  BY <1>1, <1>2, <1>3 DEF Offered

\* What an import does: the latest copy, as it was shown, in place of the
\* target's selection that it was shown for, which is older.
Imported(t, shown) ==
    LET i == Target(t)
    IN /\ broker'.offers = [broker.offers EXCEPT
                              ![i] = [revision |-> broker.next + 1, copy |-> shown.copy]]
       /\ shown.copy \in Copies
       /\ shown.target = broker.offers[i].revision
       /\ announced[shown.copy.n] = Epoch
       /\ InstanceOf[shown.copy.by] = broker.last.source
       /\ Offered(i) # NoCopy => Ann(i) < Epoch

LEMMA CommitBroker ==
    ASSUME IInv, NEW t \in Tickets, Target(t) \in up,
           NEW shown \in ShownType, Showable(broker, shown),
           NEW secret, NEW fits \in BOOLEAN, NEW d,
           d = CommitPaste(broker, Target(t), shown, secret, fits),
           broker' = d.broker, UNCHANGED <<up, made, announced>>
    PROVE  /\ Ordered' /\ Moves
           /\ \/ broker' = broker /\ ~d.ok
              \/ /\ Imported(t, shown)
                 /\ broker'.next = broker.next + 1
                 /\ d.ok /\ d.revision = broker.next + 1
<1> DEFINE i == Target(t)
           s == broker.last.source
           copy == SourceOffer(broker).copy
<1>x. /\ broker \in BrokerType /\ Shape /\ Ordered /\ announced \in [Selections -> Nat]
      /\ i \in broker.live /\ i \in Instances
  BY DEF IInv, Shape, Ordered, Bounds
<1>s. Epoch # 0 => s \in Instances
  BY <1>x DEF Ordered, Source
<1>r. Epoch # 0 /\ broker.last.ready # 0 /\ SourceOffer(broker).revision = broker.last.ready
        => copy \in Copies /\ announced[copy.n] = Epoch /\ InstanceOf[copy.by] = s
  <2> SUFFICES ASSUME Epoch # 0, broker.last.ready # 0,
                      SourceOffer(broker).revision = broker.last.ready
               PROVE  copy \in Copies /\ announced[copy.n] = Epoch /\ InstanceOf[copy.by] = s
    OBVIOUS
  <2>1. copy \in CopyOrNone
    BY <1>s, <1>x, BrokerFields DEF SourceOffer
  <2>2. copy # NoCopy /\ announced[copy.n] = Epoch /\ InstanceOf[copy.by] = s
    BY <1>x DEF Ordered, Source, SourceOffer, Offered, Ann
  <2> QED
    BY <2>1, <2>2, CopyFields
<1> HIDE DEF copy, i
<1>d. Rejects(broker, d) \/ Imports(broker, i, shown, d)
  <2>1. broker.last.epoch # 0 /\ broker.last.ready # 0
           /\ SourceOffer(broker).revision = broker.last.ready
        => SourceOffer(broker).copy \in Copies
    BY <1>r DEF copy, Epoch
  <2>2. d = CommitPaste(broker, i, shown, secret, fits)
    BY DEF i
  <2> QED
    BY <2>1, <2>2, <1>x, CommitFields
<1>1. CASE Rejects(broker, d)
  <2>1. broker' = broker /\ ~d.ok
    BY <1>1 DEF Rejects
  <2>2. made' \in Nat /\ made' >= made /\ up' \subseteq up
    BY <1>x, PasteAssumption DEF Shape
  <2>3. Ordered' /\ Moves
    BY <1>x, <2>1, <2>2, BrokerStays
  <2> QED
    BY <2>1, <2>3
<1>2. CASE Imports(broker, i, shown, d)
  <2>1. /\ d = [broker |-> broker', ok |-> TRUE, revision |-> broker.next + 1]
        /\ copy \in Copies
        /\ shown.epoch = broker.last.epoch /\ shown.revision = broker.last.ready
        /\ shown.target = broker.offers[i].revision
        /\ broker.last.epoch # 0 /\ broker.last.ready # 0
        /\ s # i
        /\ broker.seen[i] < broker.last.epoch
        /\ broker.offers[s].revision = broker.last.ready
        /\ broker' \in BrokerType
        /\ broker'.next = broker.next + 1 /\ broker'.live = broker.live
        /\ broker'.offers = [broker.offers EXCEPT ![i] = [revision |-> broker.next + 1,
                                                          copy |-> copy]]
        /\ broker'.captures[i] = 0
        /\ \A j \in Instances \ {i} :
              broker'.captures[j] = broker.captures[j] /\ broker'.seen[j] = broker.seen[j]
        /\ broker'.seen[i] = broker.last.epoch
        /\ broker'.last.epoch = broker.last.epoch /\ broker'.last.source = broker.last.source
        /\ broker'.last.ready = broker.last.ready
    BY <1>2 DEF Imports, copy
  <2>2. announced[copy.n] = Epoch /\ InstanceOf[copy.by] = s /\ Epoch # 0
    BY <2>1, <1>r DEF SourceOffer, Epoch
  <2>3. shown.copy = copy
    BY <2>1 DEF Showable, copy, SourceOffer
  <2>4. Offered(i) # NoCopy => Ann(i) < Epoch
    <3> SUFFICES ASSUME Offered(i) # NoCopy PROVE Ann(i) < Epoch
      OBVIOUS
    <3>1. Offered(i).n \in Selections
      BY <1>x, BrokerFields, CopyFields DEF Offered
    <3>2. Ann(i) \in Nat /\ Epoch \in Nat /\ broker.seen[i] \in Nat
      BY <3>1, <1>x, BrokerFields DEF Ann, Epoch
    <3>3. Ann(i) >= Epoch => broker.seen[i] = Epoch
      BY <1>x, <2>2 DEF Ordered, Offers
    <3> QED
      BY <3>2, <3>3, <2>1 DEF Epoch
  <2>a. /\ announced[copy.n] # 0
        /\ Epoch # 0 /\ announced[copy.n] >= Epoch =>
              /\ broker'.seen[i] = Epoch
              /\ i # broker.last.source /\ announced[copy.n] = Epoch => broker.last.ready # 0
        /\ Epoch # 0 /\ broker'.seen[i] = Epoch =>
              announced[copy.n] >= Epoch \/ copy.kind = "restored"
    <3>1. Epoch \in Nat
      BY <1>x, BrokerFields DEF Epoch
    <3> QED
      BY <3>1, <2>1, <2>2 DEF Epoch
  <2>5. Ordered' /\ Moves
    BY <1>x, <2>1, <2>a, SetKeeps
  <2>6. Imported(t, shown)
    BY <2>1, <2>2, <2>3, <2>4 DEF Imported, i
  <2>7. d.ok /\ d.revision = broker.next + 1
    BY <2>1
  <2> QED
    BY <2>1, <2>5, <2>6, <2>7
<1> QED
  BY <1>d, <1>1, <1>2

LEMMA CommitStep ==
    ASSUME IInv, NEW t \in Tickets, helper[t].launch \in Launches, Target(t) \in up,
           NEW shown \in ShownType, Showable(broker, shown),
           NEW secret, NEW fits \in BOOLEAN, NEW restored \in BOOLEAN,
           Commit(t, shown, secret, fits, restored),
           UNCHANGED <<pend, asked, up, home, made, announced>>
    PROVE  IInv'
<1> DEFINE l == helper[t].launch
           d == CommitPaste(broker, Target(t), shown, secret, fits)
           r == IF d.ok /\ restored THEN Pasted(d.revision, shown.copy) ELSE Nothing
           h == [phase |-> "tell", launch |-> l, result |-> r]
<1>u. /\ broker' = d.broker /\ faults' \in Nat
      /\ px' = Noticed(px, broker')
      /\ helper' = [helper EXCEPT ![t] = h]
  <2>1. helper' = [helper EXCEPT ![t] = h]
    BY DEF Commit, Tells
  <2>2. faults' \in Nat
    BY DEF Commit, Fault, IInv, Shape
  <2> QED
    BY <2>1, <2>2 DEF Commit
<1>x. /\ px \in [Launches -> ProxyType] /\ Target(t) \in Instances /\ Shape
      /\ Target(t) = InstanceOf[l]
  BY DEF IInv, Shape, Target
<1>b. /\ Ordered' /\ Moves
      /\ \/ ~d.ok
         \/ /\ Imported(t, shown)
            /\ broker'.next = broker.next + 1
            /\ d.ok /\ d.revision = broker.next + 1
  BY <1>u, CommitBroker
<1> HIDE DEF d
<1>n. broker'.next \in Nat /\ broker.next \in Nat /\ broker.offers \in [Instances -> OfferType]
  BY <1>b, <1>x, BrokerFields DEF Moves, Shape, BrokerType
<1>1. r \in ResultType /\ Matches(broker', InstanceOf[l], r)
  <2>1. CASE d.ok /\ restored
    <3>1. /\ shown.copy \in Copies
          /\ broker'.offers = [broker.offers EXCEPT
                ![Target(t)] = [revision |-> broker.next + 1, copy |-> shown.copy]]
          /\ broker'.next = broker.next + 1 /\ d.revision = broker.next + 1
      BY <1>b, <2>1 DEF Imported
    <3>2. r = [ok |-> TRUE, revision |-> broker.next + 1, copy |-> shown.copy]
      BY <2>1, <3>1 DEF Pasted
    <3> HIDE DEF r
    <3>a. broker.next + 1 \in Nat /\ shown.copy \in CopyOrNone
      BY <1>n, <3>1 DEF CopyOrNone
    <3>3. r \in ResultType
      BY <3>a, <3>2 DEF ResultType
    <3>4. broker'.offers[InstanceOf[l]] = [revision |-> broker.next + 1, copy |-> shown.copy]
      BY <1>x, <1>n, <3>1
    <3>5. r.revision = broker.next + 1 /\ r.copy = shown.copy
      BY <3>2
    <3> QED
      BY <1>n, <3>1, <3>3, <3>4, <3>5 DEF Matches
  <2>2. CASE ~ (d.ok /\ restored)
    <3>1. r = Nothing
      BY <2>2
    <3>2. broker'.offers[InstanceOf[l]].revision = 0 => broker'.offers[InstanceOf[l]].copy = NoCopy
      BY <1>x, <1>b DEF Ordered, Bounds, Offered
    <3> QED
      BY <1>n, <3>1, <3>2, NothingTypes DEF Matches
  <2> QED
    BY <2>1, <2>2
<1> HIDE DEF r
<1>2. Helped(broker')
  <2>1. HelperOK(h) /\ HelperKnows(broker', h)
    BY <1>1, TellingHelper
  <2> QED
    BY <2>1, <1>u, HelperSet
<1>3. /\ px[l] \in ProxyType
      /\ ProxyOK(l, px[l], made, up, broker', announced)
  <2>1. px[l] \in ProxyType /\ ProxyOK(l, px[l], made, up, broker, announced)
    BY <1>x DEF IInv, Proxies
  <2>2. made' = made /\ up' = up /\ announced' = announced /\ made \in Nat
    BY <1>x DEF Shape
  <2>3. px[l].alive => InstanceOf[l] \in up'
    BY <2>1, <2>2 DEF ProxyOK
  <2>4. ProxyOK(l, px[l], made', up', broker', announced')
    BY <2>1, <2>2, <2>3, <1>b, <1>x, ProxyStays
  <2> QED
    BY <2>1, <2>2, <2>4
<1>4. px' = Noticed([px EXCEPT ![l] = px[l]], broker')
  <2>1. [px EXCEPT ![l] = px[l]] = px
    BY <1>x
  <2> QED
    BY <2>1, <1>u
<1>5. DOMAIN helper' = Tickets /\ \A u \in Tickets :
              \/ helper'[u] = helper[u]
              \/ HelperOK(helper'[u]) /\ HelperKnows(broker', helper'[u])
  BY <1>2 DEF Helped
<1> QED
  BY <1>3, <1>4, <1>5, <1>b, <1>u, PxStep

\* A step of one paste's helper alone, the launches' pastes as they are.
LEMMA HelperStep ==
    ASSUME IInv, NEW t \in Tickets, NEW h, HelperOK(h), HelperKnows(broker, h),
           helper' = [helper EXCEPT ![t] = h],
           UNCHANGED <<broker, up, home, px, made, announced, pend, asked, faults>>
    PROVE  IInv'
<1>1. Helped(broker)
  BY HelperSet
<1>2. /\ faults' \in Nat /\ asked' \in 0 .. MaxPastes /\ asked' >= asked
      /\ pend' \in [Launches -> PendType]
  BY PasteAssumption DEF IInv, Shape
<1>3. Held' /\ \A l \in Launches : pend'[l] = pend[l]
  BY DEF IInv, Held
<1> QED
  BY <1>1, <1>2, <1>3, PasteStep DEF Helped

\* That the paste did not go through.
LEMMA NothingStep ==
    ASSUME IInv, NEW t \in Tickets, helper[t].phase \in {"prepare", "question", "secret"},
           Tells(t, Nothing),
           UNCHANGED <<broker, up, home, px, made, announced, pend, asked, faults>>
    PROVE  IInv'
<1> DEFINE l == helper[t].launch
           h == [phase |-> "tell", launch |-> l, result |-> Nothing]
<1>1. l \in Launches /\ InstanceOf[l] \in Instances
  BY HelperHere, PasteAssumption
<1>2. Matches(broker, InstanceOf[l], Nothing)
  BY <1>1, NothingTypes, NothingMatches, BrokerFields DEF IInv, Shape
<1>3. HelperOK(h) /\ HelperKnows(broker, h)
  BY <1>1, <1>2, NothingTypes, TellingHelper
<1>4. helper' = [helper EXCEPT ![t] = h]
  BY DEF Tells
<1> QED
  BY <1>3, <1>4, HelperStep

LEMMA GiveUpStep == ASSUME IInv, NEW t \in Tickets, GiveUp(t) PROVE IInv'
BY NothingStep DEF GiveUp, Phase, copyVars

LEMMA RefuseStep == ASSUME IInv, NEW t \in Tickets, Refuse(t) PROVE IInv'
BY NothingStep DEF Refuse, Phase, copyVars

LEMMA ReapStep == ASSUME IInv, NEW t \in Tickets, Reap(t) PROVE IInv'
<1> DEFINE h == [phase |-> "reaped"]
<1>1. HelperOK(h) /\ HelperKnows(broker, h)
  BY DEF HelperOK, HelperKnows
<1> QED
  BY <1>1, HelperStep DEF Reap, copyVars

LEMMA AskSecretStep == ASSUME IInv, NEW t \in Tickets, AskSecret(t) PROVE IInv'
<1> DEFINE g == helper[t]
           h == [g EXCEPT !.phase = "secret"]
<1>1. /\ g.phase = "question" /\ helper' = [helper EXCEPT ![t].phase = "secret"]
      /\ UNCHANGED <<broker, up, home, px, made, announced, pend, asked, faults>>
  BY DEF AskSecret, Phase, copyVars
<1>2. HelperOK(g) /\ Showable(broker, g.shown)
  BY <1>1, HelperHere
<1>3. g \in QuestionType
  BY <1>1, <1>2 DEF HelperOK
<1>4. helper' = [helper EXCEPT ![t] = h]
  BY <1>1 DEF IInv, Shape
<1> HIDE DEF g
<1>5. h \in QuestionType /\ h.phase = "secret" /\ h.shown = g.shown
  BY <1>3 DEF QuestionType
<1> HIDE DEF h
<1>6. HelperOK(h) /\ HelperKnows(broker, h)
  BY <1>2, <1>5 DEF HelperOK, HelperKnows
<1> QED
  BY <1>1, <1>4, <1>6, HelperStep

LEMMA PrepareStep == ASSUME IInv, NEW t \in Tickets, Prepare(t) PROVE IInv'
<1> DEFINE l == helper[t].launch
           d == Answer(t, helper[t].expected)
<1>x. /\ helper[t].phase = "prepare" /\ l \in Launches /\ Target(t) \in Instances
      /\ helper[t].expected \in Nat /\ Target(t) = InstanceOf[l]
  BY HelperHere DEF Prepare, Phase, HelperOK, Target
<1>u. UNCHANGED <<pend, asked, up, home, made, announced>>
  BY DEF Prepare, copyVars
<1>d. /\ d.kind = "current" =>
           d.target = broker.offers[Target(t)].revision /\ d.copy = Offered(Target(t))
      /\ d.kind = "transfer" =>
           /\ d \in ShownType /\ Showable(broker, d)
           /\ d.source \in up /\ d.source = broker.last.source /\ Target(t) \in up
  BY <1>x, AnswerFacts
<1>1. CASE d.kind = "stale" /\ Tells(t, Nothing) /\ UNCHANGED <<broker, px, faults>>
  BY <1>1, <1>x, <1>u, NothingStep
<1>2. CASE d.kind = "current" /\ Tells(t, Pasted(d.target, d.copy)) /\ UNCHANGED <<broker, px, faults>>
  <2> DEFINE r == Pasted(d.target, d.copy)
             h == [phase |-> "tell", launch |-> l, result |-> r]
  <2>0. broker \in BrokerType /\ Ordered
    BY DEF IInv, Shape
  <2>1. /\ d.target \in Nat /\ d.copy \in CopyOrNone
        /\ d.target = broker.offers[InstanceOf[l]].revision
        /\ d.copy = broker.offers[InstanceOf[l]].copy
        /\ d.target <= broker.next /\ (d.target = 0 => d.copy = NoCopy)
    BY <1>2, <1>d, <1>x, <2>0, BrokerFields DEF Ordered, Bounds, Offered
  <2> HIDE DEF d
  <2>2. r \in ResultType /\ r.revision = d.target /\ r.copy = d.copy
    BY <2>1 DEF Pasted, ResultType
  <2>3. Matches(broker, InstanceOf[l], r)
    BY <2>1, <2>2 DEF Matches
  <2> HIDE DEF r
  <2>4. HelperOK(h) /\ HelperKnows(broker, h)
    BY <1>x, <2>2, <2>3, TellingHelper
  <2>5. helper' = [helper EXCEPT ![t] = h]
    BY <1>2 DEF Tells, r
  <2> QED
    BY <1>2, <1>u, <2>4, <2>5, HelperStep
<1>3. CASE d.kind = "transfer" /\ \E fits \in BOOLEAN : Commit(t, d, TRUE, fits, TRUE)
  <2>1. PICK fits \in BOOLEAN : Commit(t, d, TRUE, fits, TRUE)
    BY <1>3
  <2> HIDE DEF d
  <2> QED
    BY <1>3, <1>d, <1>u, <1>x, <2>1, CommitStep
<1>4. CASE /\ d.kind = "transfer"
           /\ helper' = [helper EXCEPT ![t] =
                             [phase |-> "question", launch |-> @.launch, shown |-> d]]
           /\ UNCHANGED <<broker, px, faults>>
  <2> DEFINE h == [phase |-> "question", launch |-> l, shown |-> d]
  <2>1. helper' = [helper EXCEPT ![t] = h]
    BY <1>4
  <2> HIDE DEF d
  <2>2. h \in QuestionType /\ h.phase = "question" /\ h.shown = d
    BY <1>4, <1>d, <1>x DEF QuestionType
  <2> HIDE DEF h
  <2>3. HelperOK(h) /\ HelperKnows(broker, h)
    BY <1>4, <1>d, <2>2 DEF HelperOK, HelperKnows
  <2> QED
    BY <1>4, <1>u, <2>1, <2>3, HelperStep
<1> QED
  BY <1>1, <1>2, <1>3, <1>4 DEF Prepare

LEMMA ConfirmStep == ASSUME IInv, NEW t \in Tickets, Confirm(t) PROVE IInv'
<1> DEFINE shown == helper[t].shown
<1>x. /\ helper[t].phase \in {"question", "secret"}
      /\ helper[t].launch \in Launches /\ Target(t) \in Instances
      /\ shown \in ShownType /\ Showable(broker, shown)
  BY HelperHere DEF Confirm, Agreed, Phase
<1>u. UNCHANGED <<pend, asked, up, home, made, announced>>
  BY DEF Confirm, copyVars
<1>1. CASE /\ Answer(t, shown.target).kind = "transfer"
           /\ \E fits, restored \in BOOLEAN :
                 Commit(t, shown, shown.copy.kind = "secret", fits, restored)
  <2>1. PICK fits \in BOOLEAN, restored \in BOOLEAN :
           Commit(t, shown, shown.copy.kind = "secret", fits, restored)
    BY <1>1
  <2>2. Target(t) \in up
    BY <1>1 DEF Answer, NoDecision
  <2> HIDE DEF shown
  <2> QED
    BY <1>x, <1>u, <2>1, <2>2, CommitStep
<1>2. CASE Tells(t, Nothing) /\ UNCHANGED <<broker, px, faults>>
  BY <1>2, <1>x, <1>u, NothingStep
<1> QED
  BY <1>1, <1>2 DEF Confirm

\* A paste held back is dropped.
LEMMA DroppedStep ==
    ASSUME IInv, NEW l \in Launches, pend' = [pend EXCEPT ![l] = NoPaste],
           UNCHANGED <<broker, up, home, px, made, announced, helper, asked>>, faults' \in Nat
    PROVE  IInv'
<1>x. /\ pend \in [Launches -> PendType] /\ asked \in 0 .. MaxPastes /\ asked \in Nat
      /\ broker.next \in Nat /\ DOMAIN helper = Tickets /\ InstanceOf[l] \in Instances
  <2>1. Shape
    BY DEF IInv
  <2>2. broker.next \in Nat
    BY <2>1, BrokerFields DEF Shape
  <2> QED
    BY <2>1, <2>2, PasteAssumption DEF Shape
<1>1. pend' \in [Launches -> PendType]
  BY <1>x, NothingTypes
<1>2. Matches(broker, InstanceOf[l], NoPaste) /\ NoPaste.ticket <= asked
  BY <1>x, NothingTypes, NothingMatches DEF IInv
<1>3. \A m \in Launches :
              \/ pend'[m] = pend[m]
              \/ Matches(broker, InstanceOf[m], pend'[m]) /\ pend'[m].ticket <= asked'
  BY <1>x, <1>2
<1>4. asked' \in 0 .. MaxPastes /\ asked' >= asked
  BY <1>x
<1>5. DOMAIN helper' = Tickets /\ \A t \in Tickets : helper'[t] = helper[t]
  BY <1>x
<1>6. Held'
  BY <1>x DEF IInv, Held
<1> QED
  BY <1>1, <1>3, <1>4, <1>5, <1>6, PasteStep

LEMMA CancelPasteStep == ASSUME IInv, NEW l \in Launches, CancelPaste(l) PROVE IInv'
BY DroppedStep DEF CancelPaste, copyVars, IInv, Shape

LEMMA DropPasteStep == ASSUME IInv, NEW l \in Launches, DropPaste(l) PROVE IInv'
<1>1. faults' \in Nat
  BY DEF DropPaste, Fault, IInv, Shape
<1>2. /\ pend' = [pend EXCEPT ![l] = NoPaste]
      /\ UNCHANGED <<broker, up, home, px, made, announced, helper, asked>>
  BY DEF DropPaste, copyVars
<1> QED
  BY <1>1, <1>2, DroppedStep

LEMMA AskPasteStep == ASSUME IInv, NEW l \in Launches, AskPaste(l) PROVE IInv'
<1> DEFINE t == asked + 1
           expected == IF Settled(px[l]) THEN px[l].snap ELSE 0
           held == [NoPaste EXCEPT !.ticket = t]
           h == IF \E u \in Tickets : Running(u) /\ helper[u].launch = l
                THEN [phase |-> "dropped"]
                ELSE [phase |-> "prepare", launch |-> l, expected |-> expected]
<1>u. UNCHANGED <<broker, up, home, px, made, announced, faults>>
  BY DEF AskPaste, copyVars
<1>x. /\ pend \in [Launches -> PendType] /\ asked \in 0 .. MaxPastes /\ asked \in Nat
      /\ MaxPastes \in Nat /\ faults \in Nat /\ broker.next \in Nat
      /\ px[l] \in ProxyType /\ InstanceOf[l] \in Instances
  BY PasteAssumption, BrokerFields DEF IInv, Shape
<1>1. /\ t \in Tickets /\ asked' = t /\ pend[l] = NoPaste
      /\ pend' = [pend EXCEPT ![l] = held]
      /\ helper' = [helper EXCEPT ![t] = h]
  <2>1. t \in Tickets /\ asked' = t /\ pend[l] = NoPaste /\ helper' = [helper EXCEPT ![t] = h]
    BY DEF AskPaste
  <2>2. pend' = [pend EXCEPT ![l].ticket = t]
    BY DEF AskPaste
  <2> QED
    BY <2>1, <2>2, <1>x
<1>2. expected \in Nat
  BY <1>x, ProxyFields
<1>3. HelperOK(h) /\ HelperKnows(broker, h)
  <2> HIDE DEF expected
  <2>1. CASE h = [phase |-> "dropped"]
    BY <2>1 DEF HelperOK, HelperKnows
  <2>2. CASE h = [phase |-> "prepare", launch |-> l, expected |-> expected]
    <3> HIDE DEF h
    <3> QED
      BY <2>2, <1>2 DEF HelperOK, HelperKnows
  <2> QED
    BY <2>1, <2>2
<1> HIDE DEF h
<1>4. Helped(broker)
  BY <1>1, <1>3, HelperSet
<1>5. t \in Nat /\ t <= MaxPastes
  BY <1>1, <1>x DEF Tickets
<1>6. /\ held \in PendType /\ held.ticket = t /\ held.revision = 0 /\ held.copy = NoCopy
  BY <1>5, CopyFields DEF NoPaste, PendType
<1> HIDE DEF held
<1>7. Matches(broker, InstanceOf[l], held)
  BY <1>6, <1>x, NothingMatches DEF IInv
<1>8. \A m \in Launches :
              \/ pend'[m] = pend[m]
              \/ Matches(broker, InstanceOf[m], pend'[m]) /\ pend'[m].ticket <= asked'
  BY <1>1, <1>5, <1>6, <1>7, <1>x
<1>9. pend' \in [Launches -> PendType] /\ asked' \in 0 .. MaxPastes /\ asked' >= asked
  BY <1>1, <1>5, <1>6, <1>x
<1>10. Held'
  BY <1>1, <1>u, <1>x DEF IInv, Held, AskPaste
<1> QED
  BY <1>u, <1>x, <1>4, <1>8, <1>9, <1>10, PasteStep DEF Helped

LEMMA TellStep == ASSUME IInv, NEW t \in Tickets, Tell(t) PROVE IInv'
<1> DEFINE l == helper[t].launch
           r == helper[t].result
           given == [ticket |-> t, confirmed |-> TRUE, revision |-> r.revision, copy |-> r.copy]
           h == [phase |-> "told", launch |-> l]
<1>u. /\ UNCHANGED <<broker, up, home, px, made, announced, asked, faults>>
      /\ helper' = [helper EXCEPT ![t] = h]
  BY DEF Tell, copyVars
<1>x. /\ pend \in [Launches -> PendType] /\ asked \in 0 .. MaxPastes /\ asked \in Nat
      /\ faults \in Nat /\ broker.next \in Nat
  BY PasteAssumption, BrokerFields DEF IInv, Shape
<1>1. /\ l \in Launches /\ r \in ResultType /\ InstanceOf[l] \in Instances
      /\ Matches(broker, InstanceOf[l], r)
  BY HelperHere, PasteAssumption DEF Tell, Phase, HelperOK, HelperKnows
<1>2. Helped(broker)
  <2>1. HelperOK(h) /\ HelperKnows(broker, h)
    BY <1>1 DEF HelperOK, HelperKnows
  <2> QED
    BY <2>1, <1>u, HelperSet
<1>3. \/ pend' = pend
      \/ pend' = [pend EXCEPT ![l] = NoPaste]
      \/ pend' = [pend EXCEPT ![l] = given] /\ pend[l].ticket = t
  <2>1. r.ok \in BOOLEAN
    BY <1>1 DEF ResultType
  <2>2. CASE pend[l].ticket # t
    BY <2>2 DEF Tell
  <2>3. CASE pend[l].ticket = t /\ r.ok
    BY <2>3 DEF Tell
  <2>4. CASE pend[l].ticket = t /\ ~r.ok
    BY <2>4 DEF Tell
  <2> QED
    BY <2>1, <2>2, <2>3, <2>4
<1>4. CASE pend' = pend
  <2>1. pend' \in [Launches -> PendType] /\ asked' \in 0 .. MaxPastes /\ asked' >= asked
        /\ faults' \in Nat /\ \A m \in Launches : pend'[m] = pend[m]
    BY <1>4, <1>u, <1>x
  <2>2. Held'
    BY <1>4, <1>u DEF IInv, Held
  <2> QED
    BY <1>u, <1>2, <2>1, <2>2, PasteStep DEF Helped
<1>5. ASSUME NEW p \in PendType, Matches(broker, InstanceOf[l], p), p.ticket <= asked,
             px[l].alive \/ p = NoPaste,
             pend' = [pend EXCEPT ![l] = p]
      PROVE  IInv'
  <2>a. pend' \in [Launches -> PendType]
    BY <1>5, <1>x
  <2>1. asked' \in 0 .. MaxPastes /\ asked' >= asked /\ faults' \in Nat
    BY <1>u, <1>x
  <2>2. \A m \in Launches :
              \/ pend'[m] = pend[m]
              \/ Matches(broker, InstanceOf[m], pend'[m]) /\ pend'[m].ticket <= asked'
    BY <1>5, <1>u, <1>x, <1>1
  <2>3. Held'
    BY <1>5, <1>u, <1>x DEF IInv, Held
  <2> QED
    BY <1>u, <1>2, <2>a, <2>1, <2>2, <2>3, PasteStep DEF Helped
<1>6. CASE pend' = [pend EXCEPT ![l] = NoPaste]
  <2>1. Matches(broker, InstanceOf[l], NoPaste) /\ NoPaste.ticket <= asked /\ NoPaste \in PendType
    BY <1>x, <1>1, NothingTypes, NothingMatches DEF IInv
  <2> QED
    BY <1>5, <1>6, <2>1
<1>7. CASE pend' = [pend EXCEPT ![l] = given] /\ pend[l].ticket = t
  <2>1. r.revision \in Nat /\ r.copy \in CopyOrNone /\ t \in Nat
    BY <1>1 DEF ResultType, Tickets
  <2> HIDE DEF r
  <2>2. /\ given \in PendType /\ given.ticket = t /\ given.revision = r.revision
        /\ given.copy = r.copy
    BY <2>1 DEF PendType
  <2> HIDE DEF given
  <2>3. Matches(broker, InstanceOf[l], given)
    BY <1>1, <2>2 DEF Matches
  <2>4. given.ticket <= asked
    BY <1>1, <1>7, <2>2 DEF IInv, Answers
  <2>5. px[l].alive
    BY <1>1, <1>7, NothingTypes DEF IInv, Held, Tickets
  <2> QED
    BY <1>5, <1>7, <2>2, <2>3, <2>4, <2>5
<1> QED
  BY <1>3, <1>4, <1>6, <1>7

\* The chord played: what is to be read is what was answered.
LEMMA PressStep == ASSUME IInv, NEW l \in Launches, Press(l) PROVE IInv'
<1> DEFINE p == px[l]
           r == [revision |-> pend[l].revision, copy |-> pend[l].copy]
           reads == IF pend[l].revision = 0 THEN p.reads ELSE Append(p.reads, r)
           q == [p EXCEPT !.reads = reads]
<1>u. /\ UNCHANGED <<broker, up, home, made, announced, helper, asked, faults>>
      /\ pend' = [pend EXCEPT ![l] = NoPaste]
  BY DEF Press, copyVars
<1>x. /\ px \in [Launches -> ProxyType] /\ pend \in [Launches -> PendType]
      /\ made \in Nat /\ made \in 0 .. MaxSelections /\ faults \in Nat
      /\ announced \in [Selections -> Nat]
  BY PasteAssumption DEF IInv, Shape
<1>p. /\ p \in ProxyType
      /\ ProxyOK(l, p, made, up, broker, announced)
      /\ Fresh(broker, l, p)
  BY ProxyHere
<1>1. px' = [px EXCEPT ![l] = q]
  <2>1. px[l].snap = pend[l].revision /\ px' = [px EXCEPT ![l].reads = ReadsFor(l)]
    BY DEF Press
  <2>2. ReadsFor(l) = reads
    BY <2>1 DEF ReadsFor
  <2> QED
    BY <1>x, <2>1, <2>2
<1>2. r \in OfferType /\ Matches(broker, InstanceOf[l], r)
  <2>1. pend[l].revision \in Nat /\ pend[l].copy \in CopyOrNone
    BY <1>x DEF PendType
  <2>2. r \in OfferType
    BY <2>1 DEF OfferType
  <2>3. Matches(broker, InstanceOf[l], pend[l])
    BY DEF IInv, Answers
  <2> QED
    BY <2>2, <2>3 DEF Matches
<1>3. p.reads \in Seq(OfferType) /\ ReadsKnow(broker, l, p)
  BY <1>p, ProxyFields DEF IInv, Answers
<1> HIDE DEF r, p
<1>4. reads \in Seq(OfferType) /\ \A k \in 1 .. Len(reads) : Matches(broker, InstanceOf[l], reads[k])
  <2>1. CASE reads = p.reads
    BY <2>1, <1>3 DEF ReadsKnow
  <2>2. CASE reads = Append(p.reads, r)
    <3> HIDE DEF reads
    <3>1. /\ reads \in Seq(OfferType) /\ Len(reads) = Len(p.reads) + 1 /\ Len(p.reads) \in Nat
          /\ \A k \in 1 .. Len(p.reads) : reads[k] = p.reads[k]
          /\ reads[Len(p.reads) + 1] = r
      BY <2>2, <1>2, <1>3, AppendProperties
    <3>2. ASSUME NEW k \in 1 .. Len(reads) PROVE Matches(broker, InstanceOf[l], reads[k])
      <4>1. CASE k = Len(p.reads) + 1
        BY <4>1, <3>1, <1>2
      <4>2. CASE k # Len(p.reads) + 1
        <5>1. k \in 1 .. Len(p.reads)
          BY <4>2, <3>1
        <5> QED
          BY <5>1, <3>1, <1>3 DEF ReadsKnow
      <4> QED
        BY <4>1, <4>2
    <3> QED
      BY <3>1, <3>2
  <2> QED
    BY <2>1, <2>2
<1> HIDE DEF reads
<1>5. /\ q \in ProxyType
      /\ q.alive = p.alive /\ q.local = p.local
      /\ q.changing = p.changing /\ q.epochs = p.epochs
      /\ q.begin = p.begin /\ q.capture = p.capture /\ q.publish = p.publish
      /\ q.told = p.told /\ q.clear = p.clear /\ q.clearing = p.clearing
      /\ q.refresh = p.refresh /\ q.changed = p.changed /\ q.snap = p.snap
      /\ q.reads = reads
  BY <1>p, <1>4 DEF ProxyType
<1> HIDE DEF q
<1>6. p.alive
  BY NothingTypes DEF Press, IInv, Held, p, NoPaste
<1>7. /\ ProxyOK(l, q, made, up, broker, announced)
      /\ Fresh(broker, l, q)
      /\ ReadsKnow(broker, l, q)
  <2>1. p.snap <= broker.next /\ p.told.revision <= broker.next
    BY <1>p DEF ProxyOK
  <2>2. ProxyOK(l, q, made, up, broker, announced)
    BY <1>p, <1>5, <1>6, <2>1, Alike
  <2>3. Fresh(broker, l, q)
    BY <1>p, <1>5 DEF Fresh, Free
  <2>4. ReadsKnow(broker, l, q)
    BY <1>4, <1>5 DEF ReadsKnow
  <2> QED
    BY <2>2, <2>3, <2>4
<1>8. /\ px' \in [Launches -> ProxyType] /\ px'[l] = q
      /\ \A m \in Launches \ {l} : px'[m] = px[m]
  BY <1>1, <1>5, <1>x
<1>9. \A m \in Launches : px[m].alive => InstanceOf[m] \in up
  BY DEF IInv, Proxies, ProxyOK
<1>10. \A m, n \in Launches : px'[m].local = px'[n].local => m = n \/ px'[m].local = 0
  <2>1. \A m \in Launches : px'[m].local = px[m].local
    BY <1>8, <1>5 DEF p
  <2> QED
    BY <2>1 DEF IInv, Proxies
<1>11. \A m \in Launches :
              /\ \/ /\ px'[m] = px[m]
                    /\ px[m].alive =>
                          /\ InstanceOf[m] \in up'
                          /\ broker'.offers[InstanceOf[m]] = broker.offers[InstanceOf[m]]
                    /\ px[m].local \in Selections =>
                          announced'[px[m].local] = announced[px[m].local]
                 \/ /\ ProxyOK(m, px'[m], made', up', broker', announced')
                    /\ Fresh(broker', m, px'[m])
              /\ px'[m].reads = px[m].reads \/ ReadsKnow(broker', m, px'[m])
  BY <1>7, <1>8, <1>9, <1>u
<1>12. /\ pend' \in [Launches -> PendType]
       /\ \A m \in Launches : pend'[m] = pend[m] \/ pend'[m] = NoPaste
  BY <1>u, <1>x, NothingTypes
<1>13. Held'
  BY <1>5, <1>6, <1>8, <1>12, <1>u, <1>x DEF Held, IInv
<1>m. /\ made' \in 0 .. MaxSelections /\ made' >= made /\ made' \in Nat /\ faults' \in Nat
      /\ up' \subseteq up /\ announced' \in [Selections -> Nat]
  BY <1>u, <1>x
<1>14. Ordered' /\ Moves
  BY <1>u, <1>m, StaysHere
<1> QED
  BY <1>8, <1>10, <1>11, <1>12, <1>13, <1>14, <1>m, <1>u, AnyStep

---------------------------------------------------------------------------
(* The theorems. *)

LEMMA NextIInv == IInv /\ [Next]_vars => IInv'
<1> SUFFICES ASSUME IInv, [Next]_vars PROVE IInv'
  OBVIOUS
<1>1. CASE UNCHANGED vars
  <2>1. /\ UNCHANGED <<broker, up, home, px, pend, helper, made, asked, announced>>
        /\ faults' = faults
    BY <1>1 DEF vars
  <2>2. Shape' /\ Proxies' /\ Answers' /\ Current' /\ Held'
    BY <2>1 DEF IInv, Shape, Proxies, Answers, Current, Held
  <2>3. Ordered'
    BY <2>1 DEF IInv, Ordered, Bounds, Offers, Source, Standing, Offered, Epoch, Ann
  <2> QED
    BY <2>2, <2>3 DEF IInv
<1>2. ASSUME NEW l \in Launches, NEW kind \in Kinds, Select(l, kind) PROVE IInv'
  BY <1>2, SelectStep
<1>3. ASSUME NEW l \in Launches, NEW fits \in BOOLEAN, Publish(l, fits) PROVE IInv'
  BY <1>3, PublishStep
<1>4. ASSUME NEW l \in Launches,
             \/ Announce(l) \/ TakeBack(l) \/ Captured(l) \/ Answered(l)
             \/ ClearOffer(l) \/ Cleared(l) \/ Notice(l) \/ Look(l) \/ ReadSelection(l)
             \/ LaunchEnds(l) \/ AskPaste(l) \/ Press(l) \/ CancelPaste(l) \/ DropPaste(l)
      PROVE  IInv'
  BY <1>4, AnnounceStep, TakeBackStep, CapturedStep, AnsweredStep, ClearOfferStep, ClearedStep,
     NoticeStep, LookStep, ReadStep, LaunchEndsStep, AskPasteStep, PressStep,
     CancelPasteStep, DropPasteStep
<1>5. ASSUME NEW i \in Instances, InstanceEnds(i) \/ Sweep(i) PROVE IInv'
  BY <1>5, InstanceEndsStep, SweepStep
<1>6. CASE TimeOut
  BY <1>6, TimeOutStep
<1>7. ASSUME NEW t \in Tickets,
             \/ Prepare(t) \/ GiveUp(t) \/ AskSecret(t) \/ Confirm(t)
             \/ Refuse(t) \/ Tell(t) \/ Reap(t)
      PROVE  IInv'
  BY <1>7, PrepareStep, GiveUpStep, AskSecretStep, ConfirmStep, RefuseStep, TellStep, ReapStep
<1> QED
  BY <1>1, <1>2, <1>3, <1>4, <1>5, <1>6, <1>7 DEF Next

\* The order of what the instances offer, what the proxies know of their own
\* selections and of the broker, and what the pastes under way have been
\* answered: it holds at first, and every step of the proxies, the broker and
\* the pastes keeps it.
THEOREM Invariant == Spec => []IInv
<1>1. Init => IInv
  BY InitIInv
<1>2. IInv /\ [Next]_vars => IInv'
  BY NextIInv
<1> QED
  BY <1>1, <1>2, PTL DEF Spec

LEMMA TypesFollow == IInv => TypeOK
<1> SUFFICES ASSUME IInv PROVE TypeOK
  OBVIOUS
<1>x. Shape /\ Bounds /\ Proxies /\ Answers /\ broker \in BrokerType
  BY DEF IInv, Ordered, Shape
<1>f. /\ broker.next \in Nat /\ broker.live \subseteq Instances
      /\ \A j \in Instances :
            /\ broker.offers[j].revision \in Nat /\ broker.offers[j].copy \in CopyOrNone
            /\ broker.captures[j] \in Nat /\ broker.seen[j] \in Nat
      /\ broker.last.epoch \in Nat
  BY <1>x, BrokerFields
<1>1. ASSUME NEW i \in Instances
      PROVE  /\ broker.offers[i].revision \in 0 .. broker.next
             /\ broker.offers[i].copy \in Copies \cup {NoCopy}
             /\ (broker.offers[i].revision = 0) <=> (broker.offers[i].copy = NoCopy)
             /\ broker.captures[i] \in 0 .. broker.next
             /\ broker.seen[i] \in 0 .. broker.last.epoch
  BY <1>x, <1>f DEF Bounds, Offered, Epoch, CopyOrNone
<1>2. ASSUME NEW l \in Launches
      PROVE  /\ px[l].changing \in {0, px[l].local}
             /\ px[l].snap \in 0 .. broker.next
             /\ px[l].alive => InstanceOf[l] \in up
             /\ pend[l].ticket \in 0 .. asked
  <2>1. px[l] \in ProxyType /\ pend[l].ticket \in Nat /\ asked \in Nat
    BY <1>x, PasteAssumption DEF Shape, PendType
  <2>2. ProxyOK(l, px[l], made, up, broker, announced) /\ pend[l].ticket <= asked
    BY <1>x DEF Proxies, Answers
  <2> QED
    BY <1>f, <2>1, <2>2, ProxyFields DEF ProxyOK
<1> QED
  BY <1>x, <1>f, <1>1, <1>2 DEF TypeOK, Shape, Bounds

\* Wherever the broker answers that the instance's own selection is the one to
\* paste, it stands there for the latest epoch, and what stands for it was
\* announced with it or after it, or restored after it (paste.rs,
\* prepare_paste).
LEMMA LatestFollows == IInv => PastesTheLatest
<1> SUFFICES ASSUME IInv, NEW i \in broker.live, IsCurrent(broker, i), Offered(i) # NoCopy
             PROVE  \/ Ann(i) >= Epoch
                    \/ Offered(i).kind = "restored" /\ broker.offers[i].revision > Epoch
  BY DEF PastesTheLatest, Offered, Ann, Epoch
<1>x. /\ broker \in BrokerType /\ Ordered /\ i \in Instances
      /\ announced \in [Selections -> Nat]
  BY DEF IInv, Shape, BrokerType
<1>n. broker.seen[i] \in Nat /\ Epoch \in Nat /\ Ann(i) \in Nat
  <2>1. Offered(i).n \in Selections
    BY <1>x, BrokerFields, CopyFields DEF Offered
  <2> QED
    BY <2>1, <1>x, BrokerFields DEF Epoch, Ann
<1>1. CASE Epoch = 0
  BY <1>1, <1>n
<1>2. CASE Epoch # 0 /\ broker.last.source # i /\ Has(broker, i)
  <2>1. broker.seen[i] = Epoch
    BY <1>2, <1>x, <1>n DEF Has, Epoch, Ordered, Bounds
  <2> QED
    BY <1>2, <1>x, <2>1 DEF Ordered, Standing
<1>3. CASE Epoch # 0 /\ ~Reading(broker) /\ broker.last.source = i
  <2>1. broker.seen[i] = Epoch
    BY <1>3, <1>x DEF Ordered, Source
  <2>2. broker.last.ready # 0
    BY <1>3 DEF Reading
  <2> QED
    BY <1>3, <1>x, <2>1, <2>2 DEF Ordered, Standing
<1> QED
  BY <1>1, <1>2, <1>3 DEF IsCurrent, Epoch

\* An instance that offers a copy of the latest epoch stands for it, and the
\* copy has been read: whatever becomes of where it was copied, the instance's
\* own selection is the one.
LEMMA ImportFollows == IInv => ImportStays
<1> SUFFICES ASSUME IInv, NEW i \in broker.live, Offered(i) # NoCopy, i # broker.last.source,
                    Ann(i) = Epoch
             PROVE  IsCurrent(broker, i)
  BY DEF ImportStays, Offered, Ann, Epoch
<1>x. broker \in BrokerType /\ Ordered /\ i \in Instances
  BY DEF IInv, Shape, BrokerType
<1>n. broker.seen[i] \in Nat /\ Epoch \in Nat
  BY <1>x, BrokerFields DEF Epoch
<1>1. CASE Epoch = 0
  BY <1>1 DEF IsCurrent, Epoch
<1>2. CASE Epoch # 0
  <2>1. broker.seen[i] = Epoch /\ broker.last.ready # 0
    BY <1>2, <1>x, <1>n DEF Ordered, Offers
  <2>2. Has(broker, i) /\ ~Reading(broker)
    BY <1>n, <2>1 DEF Has, Reading, Epoch
  <2> QED
    BY <2>2 DEF IsCurrent
<1> QED
  BY <1>1, <1>2

\* What is to be read was answered: where the instance's offer is still at that
\* revision, it is that copy.
LEMMA ReadsFollow ==
    ASSUME IInv, NEW l \in Launches, px[l].reads # <<>>
    PROVE  Got(l) \in {NoCopy, Head(px[l].reads).copy}
<1> DEFINE r == Head(px[l].reads)
<1>1. px[l].reads \in Seq(OfferType)
  BY ProxyFields DEF IInv, Shape
<1>2. 1 \in 1 .. Len(px[l].reads) /\ r = px[l].reads[1]
  BY <1>1
<1>3. Matches(broker, InstanceOf[l], r)
  BY <1>2 DEF IInv, Answers, ReadsKnow
<1> QED
  BY <1>3 DEF Matches, Got, ReadOffer

\* A copy taken into an instance of its own, or brought into another: then the
\* latest there is, of an instance that runs, and within one container or
\* confirmed.
Taken(i) ==
    /\ Offered(i)' \in Copies
    /\ InstanceOf[Offered(i)'.by] = i
    /\ broker.captures[i] # 0 /\ announced[Offered(i)'.n] = broker.captures[i]
Brought(t, i, shown) ==
    /\ Target(t) = i
    /\ Imported(t, shown)
    /\ broker.last.source \in up
    /\ \/ SameContainer(broker.last.source, i)
       \/ Agreed(t) /\ shown = helper[t].shown

LEMMA PrepareBrings ==
    ASSUME IInv, NEW t \in Tickets, Prepare(t), broker' # broker
    PROVE  \E shown \in ShownType : Brought(t, Target(t), shown)
<1> DEFINE d == Answer(t, helper[t].expected)
<1>x. helper[t].phase = "prepare" /\ Target(t) \in Instances /\ helper[t].expected \in Nat
  BY HelperHere DEF Prepare, Phase, HelperOK
<1>u. UNCHANGED <<up, made, announced>>
  BY DEF Prepare, copyVars
<1>1. /\ d.kind = "transfer" /\ SameContainer(d.source, Target(t))
      /\ \E fits \in BOOLEAN : Commit(t, d, TRUE, fits, TRUE)
  BY DEF Prepare
<1>2. /\ d \in ShownType /\ Showable(broker, d)
      /\ d.source \in up /\ d.source = broker.last.source /\ Target(t) \in up
  BY <1>x, <1>1, AnswerFacts
<1>3. PICK fits \in BOOLEAN : Commit(t, d, TRUE, fits, TRUE)
  BY <1>1
<1> HIDE DEF d
<1>4. broker' = CommitPaste(broker, Target(t), d, TRUE, fits).broker
  BY <1>3 DEF Commit
<1>5. Imported(t, d)
  BY <1>u, <1>2, <1>4, CommitBroker
<1> QED
  BY <1>1, <1>2, <1>5 DEF Brought

LEMMA ConfirmBrings ==
    ASSUME IInv, NEW t \in Tickets, Confirm(t), broker' # broker
    PROVE  \E shown \in ShownType : Brought(t, Target(t), shown)
<1> DEFINE shown == helper[t].shown
           d == Answer(t, shown.target)
<1>x. /\ helper[t].phase \in {"question", "secret"} /\ Target(t) \in Instances
      /\ shown \in ShownType /\ Showable(broker, shown) /\ shown.target \in Nat
  BY HelperHere DEF Confirm, Agreed, Phase, ShownType
<1>u. UNCHANGED <<up, made, announced>> /\ Agreed(t)
  BY DEF Confirm, copyVars
<1>1. /\ d.kind = "transfer"
      /\ \E fits, restored \in BOOLEAN :
            Commit(t, shown, shown.copy.kind = "secret", fits, restored)
  BY DEF Confirm
<1>2. d.source \in up /\ d.source = broker.last.source /\ Target(t) \in up
  BY <1>x, <1>1, AnswerFacts
<1>3. PICK fits \in BOOLEAN, restored \in BOOLEAN :
         Commit(t, shown, shown.copy.kind = "secret", fits, restored)
  BY <1>1
<1>4. broker' = CommitPaste(broker, Target(t), shown, shown.copy.kind = "secret", fits).broker
  BY <1>3 DEF Commit
<1>5. Imported(t, shown)
  <2> HIDE DEF shown
  <2> QED
    BY <1>x, <1>u, <1>2, <1>4, CommitBroker
<1> QED
  BY <1>x, <1>u, <1>2, <1>5 DEF Brought

LEMMA NewOffer ==
    ASSUME IInv, [Next]_vars, NEW i \in Instances, Offered(i)' # Offered(i), Offered(i)' # NoCopy
    PROVE  \/ Taken(i)
           \/ \E t \in Tickets, shown \in ShownType : Brought(t, i, shown)
<1>x. broker \in BrokerType /\ broker' # broker /\ broker'.offers # broker.offers
  BY DEF IInv, Shape, Offered
<1>1. ASSUME NEW l \in Launches, NEW fits \in BOOLEAN, Publish(l, fits)
      PROVE  Taken(i)
  <2> DEFINE copy == px[l].publish
  <2>1. /\ broker'.offers = [broker.offers EXCEPT
                        ![InstanceOf[l]] = [revision |-> broker.next + 1, copy |-> copy]]
        /\ copy \in Copies /\ copy.by = l
        /\ announced[copy.n] # 0
        /\ broker.captures[InstanceOf[l]] = announced[copy.n]
    BY <1>1, <1>x, PublishBroker DEF Tellings
  <2> HIDE DEF copy
  <2>2. broker.offers \in [Instances -> OfferType]
    BY <1>x DEF BrokerType
  <2>3. i = InstanceOf[l] /\ Offered(i)' = copy
    BY <2>1, <2>2 DEF Offered
  <2> QED
    BY <2>1, <2>3 DEF Taken
<1>2. ASSUME NEW t \in Tickets, Prepare(t) \/ Confirm(t)
      PROVE  \E shown \in ShownType : Brought(t, i, shown)
  <2>1. PICK shown \in ShownType : Brought(t, Target(t), shown)
    BY <1>2, <1>x, PrepareBrings, ConfirmBrings
  <2>2. broker'.offers = [broker.offers EXCEPT
            ![Target(t)] = [revision |-> broker.next + 1, copy |-> shown.copy]]
    BY <2>1 DEF Brought, Imported
  <2>3. i = Target(t)
    BY <1>x, <2>2 DEF Offered, BrokerType
  <2> QED
    BY <2>1, <2>3
<1>3. ASSUME NEW l \in Launches, Announce(l) \/ TakeBack(l) PROVE FALSE
  <2>1. CASE Announce(l)
    BY <1>x, <2>1, AnnounceBroker
  <2>2. CASE TakeBack(l)
    <3>1. PICK epoch \in px[l].aborts : broker' = AbortCapture(broker, InstanceOf[l], epoch)
      BY <2>2 DEF TakeBack
    <3> QED
      BY <1>x, <3>1 DEF AbortCapture, BrokerType
  <2> QED
    BY <1>3, <2>1, <2>2
<1>4. ASSUME NEW j \in Instances, broker'.offers = [broker.offers EXCEPT ![j] = NoOffer]
      PROVE  FALSE
  BY <1>4, <1>x DEF Offered, NoOffer, BrokerType
<1>5. ASSUME NEW l \in Launches, Cleared(l) PROVE FALSE
  <2>1. InstanceOf[l] \in Instances /\ broker' = ClearSelection(broker, InstanceOf[l])
    BY <1>5, PasteAssumption DEF Cleared
  <2>2. broker'.offers = [broker.offers EXCEPT ![InstanceOf[l]] = NoOffer]
    BY <1>x, <2>1, ClearFields
  <2> QED
    BY <1>4, <2>1, <2>2
<1>6. ASSUME NEW j \in Instances, Sweep(j) PROVE FALSE
  BY <1>4, <1>6, SweepBroker
<1>7. ~TimeOut
  BY <1>x, TimeOutBroker
<1>8. ASSUME UNCHANGED broker PROVE FALSE
  BY <1>8, <1>x
<1> QED
  BY <1>1, <1>2, <1>3, <1>5, <1>6, <1>7, <1>8
     DEF Next, vars, Select, Captured, Answered, ClearOffer, Notice, Look, ReadSelection, LaunchEnds,
         AskPaste, Press, CancelPaste, DropPaste, InstanceEnds, GiveUp, AskSecret, Refuse, Tell, Reap

\* The broker, the proxies of the launches that run and the pastes are in step
\* with each other, and the values in their types.
THEOREM TypeCorrect == Spec => []TypeOK
BY Invariant, TypesFollow, PTL

\* What is pasted with no question is the person's latest copy: where the
\* broker answers that an instance's own selection is the one (paste.rs,
\* prepare_paste), it was announced with the latest epoch or after it, or
\* restored from a history in its place.
THEOREM LatestPasted == Spec => []PastesTheLatest
BY Invariant, LatestFollows, PTL

\* The latest copy, once brought into another instance, stays good there with
\* no question, whatever becomes of where it was copied (prepare_paste).
THEOREM ImportsStay == Spec => []ImportStays
BY Invariant, ImportFollows, PTL

\* What a proxy offers its applications is what the broker holds, but while
\* something is on its way that will tell it (private_clipboard.rs tick,
\* controller.rs tick).
THEOREM SnapshotsCurrent == Spec => []SnapshotIsCurrent
<1>1. IInv => SnapshotIsCurrent
  BY DEF IInv, Current, Fresh, SnapshotIsCurrent
<1> QED
  BY <1>1, Invariant, PTL

\* What an application reads for a paste is the copy the paste was answered
\* with, or nothing (broker.rs read, smart_paste.rs tick).
THEOREM AnsweredRead == Spec => ReadsWhatWasAnswered
<1>1. IInv /\ [Next]_vars =>
        [\A l \in Launches :
           px'[l].alive /\ px[l].reads # <<>> /\ px'[l].reads = Tail(px[l].reads)
           => Got(l) \in {NoCopy, Head(px[l].reads).copy}]_vars
  BY ReadsFollow
<1> QED
  BY <1>1, Invariant, PTL DEF Spec, ReadsWhatWasAnswered

\* A copy goes into another container only by the person's last Enter, for
\* exactly what was shown, in place of the selection the target had then: the
\* latest there is, of an instance that still runs (focus/paste.rs run,
\* controller.rs J, paste.rs commit_paste).
THEOREM ConfirmedOnly == Spec => OnlyConfirmed
<1> DEFINE P ==
      \A i \in Instances :
          LET copy == broker'.offers[i].copy
              from == InstanceOf[copy.by]
          IN copy # broker.offers[i].copy /\ copy # NoCopy /\ ~SameContainer(from, i)
             => /\ from \in up
                /\ announced[copy.n] = broker.last.epoch
                /\ \E t \in Tickets :
                      /\ Agreed(t)
                      /\ Target(t) = i
                      /\ helper[t].shown.copy = copy
                      /\ helper[t].shown.target = broker.offers[i].revision
<1>1. ASSUME IInv, [Next]_vars PROVE P
  <2> DEFINE copy(i) == broker'.offers[i].copy
  <2> SUFFICES ASSUME NEW i \in Instances, copy(i) # Offered(i), copy(i) # NoCopy,
                      ~SameContainer(InstanceOf[copy(i).by], i)
               PROVE  /\ InstanceOf[copy(i).by] \in up
                      /\ announced[copy(i).n] = Epoch
                      /\ \E t \in Tickets :
                            /\ Agreed(t)
                            /\ Target(t) = i
                            /\ helper[t].shown.copy = copy(i)
                            /\ helper[t].shown.target = broker.offers[i].revision
    BY DEF Offered, Epoch
  <2>1. Offered(i)' = copy(i)
    BY DEF Offered
  <2>2. CASE Taken(i)
    BY <2>1, <2>2 DEF Taken, SameContainer
  <2>3. ASSUME NEW t \in Tickets, NEW shown \in ShownType, Brought(t, i, shown)
        PROVE  /\ InstanceOf[copy(i).by] \in up
               /\ announced[copy(i).n] = Epoch
               /\ Agreed(t) /\ Target(t) = i
               /\ helper[t].shown.copy = copy(i)
               /\ helper[t].shown.target = broker.offers[i].revision
    <3>1. broker.offers \in [Instances -> OfferType]
      BY <1>1 DEF IInv, Shape, BrokerType
    <3>2. /\ broker'.offers = [broker.offers EXCEPT
                ![i] = [revision |-> broker.next + 1, copy |-> shown.copy]]
          /\ shown.target = broker.offers[i].revision
          /\ announced[shown.copy.n] = Epoch
          /\ InstanceOf[shown.copy.by] = broker.last.source
          /\ broker.last.source \in up
          /\ Target(t) = i
          /\ \/ SameContainer(broker.last.source, i)
             \/ Agreed(t) /\ shown = helper[t].shown
      BY <2>3 DEF Brought, Imported
    <3>3. copy(i) = shown.copy
      BY <3>1, <3>2
    <3>4. Agreed(t) /\ shown = helper[t].shown
      BY <3>2, <3>3
    <3> QED
      BY <3>2, <3>3, <3>4
  <2> QED
    BY <1>1, <2>1, <2>2, <2>3, NewOffer
<1>2. IInv /\ [Next]_vars => [P]_vars
  BY <1>1
<1> QED
  BY <1>2, Invariant, PTL DEF Spec, OnlyConfirmed

\* An instance's offer gives way only to one announced after it (paste.rs
\* finish_capture, cancel_capture).
THEOREM OrderKept == Spec => NoReorder
<1> DEFINE P ==
      \A i \in Instances :
          LET old == broker.offers[i].copy
              new == broker'.offers[i].copy
          IN old # NoCopy /\ new # NoCopy /\ old # new
             => announced[new.n] > announced[old.n]
<1>1. ASSUME IInv, [Next]_vars PROVE P
  <2> DEFINE new(i) == broker'.offers[i].copy
  <2> SUFFICES ASSUME NEW i \in Instances, Offered(i) # NoCopy, new(i) # NoCopy,
                      Offered(i) # new(i)
               PROVE  announced[new(i).n] > Ann(i)
    BY DEF Offered, Ann
  <2>x. /\ broker \in BrokerType /\ Ordered
        /\ announced \in [Selections -> Nat]
    BY <1>1 DEF IInv, Shape
  <2>n. Ann(i) \in Nat /\ broker.captures[i] \in Nat /\ Epoch \in Nat
    <3>1. Offered(i).n \in Selections
      BY <2>x, BrokerFields, CopyFields DEF Offered
    <3> QED
      BY <3>1, <2>x, BrokerFields DEF Ann, Epoch
  <2>1. Offered(i)' = new(i)
    BY DEF Offered
  <2>2. CASE Taken(i)
    <3>1. broker.captures[i] # 0 /\ announced[new(i).n] = broker.captures[i]
      BY <2>1, <2>2 DEF Taken
    <3>2. Ann(i) < broker.captures[i]
      BY <3>1, <2>x DEF Ordered, Offers
    <3> QED
      BY <3>1, <3>2, <2>n
  <2>3. ASSUME NEW t \in Tickets, NEW shown \in ShownType, Brought(t, i, shown)
        PROVE  announced[new(i).n] > Ann(i)
    <3>1. broker.offers \in [Instances -> OfferType]
      BY <2>x DEF BrokerType
    <3>2. /\ broker'.offers = [broker.offers EXCEPT
                ![i] = [revision |-> broker.next + 1, copy |-> shown.copy]]
          /\ announced[shown.copy.n] = Epoch
          /\ Ann(i) < Epoch
      BY <2>3 DEF Brought, Imported
    <3>3. new(i) = shown.copy
      BY <3>1, <3>2
    <3> QED
      BY <3>2, <3>3, <2>n
  <2> QED
    BY <1>1, <2>1, <2>2, <2>3, NewOffer
<1>2. IInv /\ [Next]_vars => [P]_vars
  BY <1>1
<1> QED
  BY <1>2, Invariant, PTL DEF Spec, NoReorder
=============================================================================
