------------------------- MODULE StrictQueueProofs --------------------------
(***************************************************************************)
(* What the strict network lets out, and what it keeps, for every set of   *)
(* launches and programs, every rules and every size of its queues.        *)
(*                                                                         *)
(* A ticket names the packet, the launch and the scope that are its own,   *)
(* and is of now (Rightful); a packet is at one stage of its way, and each *)
(* verdict has one acknowledgement to come (OneStage), so that an empty    *)
(* acks means that no verdict is on its way; every acceptance, wherever it *)
(* is on that way, has the person's word or the rules' (Warrant).  No      *)
(* packet the kernel holds is forgotten (Reached and what follows), and,   *)
(* as long as nothing fails, no launch that lives is without a token that  *)
(* the controller recognises (WayInv), and only a size that is reached     *)
(* closes the network (OpenInv).  First the types: that the tokens armed   *)
(* are in memory, and on the list of the launches to forget at most once,  *)
(* holds through renewals because a token of the new epoch is on no list   *)
(* until the map is the new one (CacheOrder).                              *)
(***************************************************************************)
EXTENDS StrictQueue, SeqLemmas

---------------------------------------------------------------------------
(* The sequences the model cuts, and the questions it opens. *)

\* Those has its recursive equation.
LEMMA ThoseDef ==
   ASSUME NEW T, NEW S, NEW s \in Seq(S)
   PROVE \E f : /\ f[0] = <<>> 
                /\ \A n \in 1 .. Len(s) : f[n] = IF s[n] \in T THEN Append(f[n - 1], s[n]) ELSE f[n - 1]
                /\ f[Len(s)] = Those(s, T)
<1> DEFINE Step(f, n) == IF n = 0 THEN <<>> ELSE IF s[n] \in T THEN Append(f[n - 1], s[n]) ELSE f[n - 1]
           Good(f, n) == f = [i \in 0 .. n |-> Step(f, i)]
           P == {n \in Nat : \E f : Good(f, n)}
<1>1. 0 \in P
  <2> DEFINE f == [i \in 0 .. 0 |-> <<>>]
  <2>1. Good(f, 0)
    OBVIOUS
  <2> QED BY <2>1
<1>2. ASSUME NEW n \in Nat, n \in P PROVE n + 1 \in P
  <2>1. PICK f : Good(f, n)
    BY <1>2
  <2> DEFINE g == [i \in 0 .. n + 1 |-> IF i = n + 1 THEN Step(f, n + 1) ELSE f[i]]
  <2>2. \A i \in 0 .. n : g[i] = f[i]
    OBVIOUS
  <2>3. \A i \in 0 .. n : f[i] = Step(f, i)
    BY <2>1
  <2>4. ASSUME NEW i \in 0 .. n + 1 PROVE g[i] = Step(g, i)
    <3>1. CASE i = n + 1
      BY <3>1, <2>2
    <3>2. CASE i = 0
      BY <3>2, <2>3, <2>2
    <3>3. CASE i # 0 /\ i # n + 1
      <4>1. i \in 0 .. n /\ i - 1 \in 0 .. n
        BY <3>3
      <4> QED
        BY <4>1, <3>3, <2>2, <2>3
    <3> QED BY <3>1, <3>2, <3>3
  <2>5. Good(g, n + 1)
    BY <2>4
  <2> HIDE DEF Good, g
  <2>6. \E h : Good(h, n + 1)
    BY <2>5
  <2> QED BY <2>6
<1>3. Nat \subseteq P
  <2> HIDE DEF P
  <2> QED BY <1>1, <1>2, Inductive
<1> DEFINE g == CHOOSE f : Good(f, Len(s))
<1>4. Len(s) \in Nat
  OBVIOUS
<1>5. \E f : Good(f, Len(s))
  BY <1>3, <1>4
<1>6. Good(g, Len(s))
  <2> HIDE DEF Good
  <2> QED BY <1>5
<1>7. Those(s, T) = g[Len(s)]
  BY DEF Those
<1>8. \A i \in 0 .. Len(s) : g[i] = Step(g, i)
  <2> HIDE DEF g
  <2> QED BY <1>6
<1> HIDE DEF g
<1>9. g[0] = <<>>
  BY <1>8, <1>4
<1> QED BY <1>4, <1>7, <1>8, <1>9

\* Those are the elements that are in T, each as often as before.
LEMMA OfThose ==
   ASSUME NEW T, NEW S, NEW s \in Seq(S)
   PROVE /\ Those(s, T) \in Seq(S \cap T)
         /\ Range(Those(s, T)) = Range(s) \cap T
         /\ Once(s) => Once(Those(s, T))
<1>1. PICK f : /\ f[0] = <<>> 
               /\ \A n \in 1 .. Len(s) : f[n] = IF s[n] \in T THEN Append(f[n - 1], s[n]) ELSE f[n - 1]
               /\ f[Len(s)] = Those(s, T)
  BY ThoseDef
<1> DEFINE First(n) == {s[i] : i \in 1 .. n}
           Good(n) == /\ f[n] \in Seq(S \cap T)
                      /\ Range(f[n]) = First(n) \cap T
                      /\ Once(s) => Once(f[n])
           P == {n \in Nat : n <= Len(s) => Good(n)}
<1>l. Len(s) \in Nat /\ DOMAIN s = 1 .. Len(s)
  BY LenProperties
<1>2. 0 \in P
  <2>1. Range(<<>>) = {} /\ First(0) = {} /\ Once(<<>>)
    BY DEF Range, Once
  <2>2. <<>> \in Seq(S \cap T)
    BY EmptySeq
  <2> HIDE DEF First
  <2>3. Good(0)
    BY <1>1, <2>1, <2>2
  <2> HIDE DEF Good
  <2> QED BY <2>3
<1>3. ASSUME NEW n \in Nat, n \in P PROVE n + 1 \in P
  <2> SUFFICES ASSUME n + 1 <= Len(s) PROVE Good(n + 1)
    OBVIOUS
  <2>1. Good(n) /\ n + 1 \in 1 .. Len(s) /\ (n + 1) - 1 = n
    BY <1>3, <1>l
  <2>2. f[n + 1] = IF s[n + 1] \in T THEN Append(f[n], s[n + 1]) ELSE f[n]
    BY <2>1, <1>1
  <2>3. s[n + 1] \in S /\ First(n + 1) = First(n) \cup {s[n + 1]}
    BY <2>1, <1>l, ElementOfSeq
  <2>4. Once(s) => s[n + 1] \notin First(n)
    BY <2>1, <1>l DEF Once
  <2> HIDE DEF First
  <2>5. CASE s[n + 1] \in T
    <3>1. s[n + 1] \in S \cap T
      BY <2>3, <2>5
    <3> QED BY <3>1, <2>1, <2>2, <2>3, <2>4, <2>5, OfAppend
  <2>6. CASE s[n + 1] \notin T
    BY <2>6, <2>1, <2>2, <2>3
  <2> QED BY <2>5, <2>6
<1>4. Nat \subseteq P
  <2> HIDE DEF P
  <2> QED BY <1>2, <1>3, Inductive
<1>5. Good(Len(s))
  <2> HIDE DEF Good
  <2>1. Len(s) \in P
    BY <1>4, <1>l
  <2> QED BY <2>1, <1>l
<1>6. First(Len(s)) = Range(s)
  BY <1>l DEF Range
<1> QED BY <1>1, <1>5, <1>6

---------------------------------------------------------------------------
(* The launches in memory, and the questions. *)

\* Where there is room for a launch, or one that nothing waits for, at most
\* that one is forgotten, and it is taken off the list.
LEMMA Forgetting ==
    ASSUME order \in Seq(DOMAIN cache), Once(order), CacheRoom
    PROVE  /\ Kept \subseteq DOMAIN cache
           /\ DOMAIN cache \ Kept \subseteq Range(order)
           /\ KeptOrder \in Seq(Kept)
           /\ Range(KeptOrder) = Range(order) \cap Kept
           /\ Once(KeptOrder)
<1>e. Range(order) \subseteq DOMAIN cache
  BY OfRange
<1>1. CASE ~Full
  BY <1>1, <1>e DEF Kept, KeptOrder
<1>2. CASE Full
  <2>1. DOMAIN order = 1 .. Len(order) /\ Len(order) \in Nat
    BY LenProperties
  <2>2. Idle # {} /\ Idle \subseteq DOMAIN order /\ Idle \subseteq Nat
    BY <1>2, <2>1 DEF CacheRoom, Idle
  <2>3. \E i \in Idle : \A j \in Idle : i <= j
    BY <2>2, Least
  <2>4. Victim \in Idle
    BY <2>3 DEF Victim
  <2>5. Victim \in 1 .. Len(order)
    BY <2>1, <2>2, <2>4
  <2>6. /\ Kept = DOMAIN cache \ {order[Victim]}
        /\ KeptOrder = SubSeq(order, Victim + 1, Len(order)) \o SubSeq(order, 1, Victim - 1)
    BY <1>2 DEF Kept, KeptOrder
  <2> HIDE DEF Victim, KeptOrder, Kept
  <2>7. /\ KeptOrder \in Seq(DOMAIN cache \ {order[Victim]})
        /\ Range(KeptOrder) = Range(order) \ {order[Victim]} /\ Once(KeptOrder)
    BY <2>5, <2>6, OfWithoutOne
  <2>8. order[Victim] \in Range(order)
    BY <2>1, <2>5 DEF Range
  <2> QED
    BY <2>6, <2>7, <2>8, <1>e
<1> QED
  BY <1>1, <1>2

\* The questions opened are the first of the queue, as many as there are
\* threads for.
LEMMA Asking ==
    ASSUME NEW q \in Seq(Scopes), NEW o, NEW w,
           IsFiniteSet(o), IsFiniteSet(w), Ask(q, o, w)
    PROVE  \E first \in SUBSET Scopes :
              /\ IsFiniteSet(first)
              /\ queue' \in Seq(Scopes)
              /\ Range(q) = first \cup Range(queue')
              /\ Once(q) => Once(queue') /\ first \cap Range(queue') = {}
              /\ open' = o \cup first
              /\ workers' = w \cup {[round |-> round, scope |-> s] : s \in first}
<1> DEFINE n == Starting(q, o, w)
           first == Range(SubSeq(q, 1, n))
<1>1. Len(q) \in Nat /\ Cardinality(o) \in Nat /\ Cardinality(w) \in Nat
  BY FS_CardinalityType, LenProperties
<1>2. n \in 0 .. Len(q)
  <2> DEFINE busy == IF Cardinality(o) > Cardinality(w) THEN Cardinality(o) ELSE Cardinality(w)
  <2>1. busy \in Nat /\ MaxWorkers \in Nat
    BY <1>1, QueueAssumption
  <2>2. n = IF busy >= MaxWorkers THEN 0 ELSE AtMost(Len(q), MaxWorkers - busy)
    BY DEF Starting
  <2> HIDE DEF busy, n
  <2> QED
    BY <1>1, <2>1, <2>2 DEF AtMost
<1> HIDE DEF n
<1>3. /\ SubSeq(q, 1, n) \in Seq(Scopes) /\ SubSeq(q, n + 1, Len(q)) \in Seq(Scopes)
      /\ Range(q) = first \cup Range(SubSeq(q, n + 1, Len(q)))
      /\ Once(q) => /\ Once(SubSeq(q, n + 1, Len(q)))
                    /\ first \cap Range(SubSeq(q, n + 1, Len(q))) = {}
  BY <1>2, OfSplit
<1>4. first \subseteq Scopes /\ IsFiniteSet(first)
  BY <1>3, OfRange, FiniteRange
<1>5. /\ queue' = SubSeq(q, n + 1, Len(q))
      /\ open' = o \cup first
      /\ workers' = w \cup {[round |-> round, scope |-> s] : s \in first}
  BY DEF Ask, n
<1> QED
  BY <1>3, <1>4, <1>5

---------------------------------------------------------------------------
(* The parts of TypeOK, by who writes them. *)

Verbs == {"always", "now", "deny", "closed"}
Phases == {"poll", "barrier", "answers", "verdicts", "telling", "intake", "asking",
           "draining", "enlisting"}

WorldTypes ==
    /\ life \in [Launches -> {"new", "in", "gone"}]
    /\ policy \in Policies /\ rules \in Policies /\ snap \in Policies
    /\ ruled \subseteq Programs \X Nat
    /\ consent \subseteq [epoch : Nat, revision : Nat, token : Nat]

KernelTypes ==
    /\ kmap \subseteq DOMAIN arch
    /\ pk \in Seq([token : DOMAIN arch, st : {"held", "passed", "dropped"}, by : Scopes])
    /\ inbox \in Seq([kind : {"packet", "ack"}, packet : Packets, ok : BOOLEAN])
    /\ outbox \subseteq [packet : Packets, allow : BOOLEAN, scope : Scopes]
    /\ acks \subseteq Packets
    /\ arch \in Seq(Records)

CacheTypes ==
    /\ DOMAIN cache \subseteq DOMAIN arch /\ \A t \in DOMAIN cache : cache[t] \in Records
    /\ armed \subseteq DOMAIN cache
    /\ order \in Seq(DOMAIN cache)

AskTypes ==
    /\ open \subseteq Scopes /\ queue \in Seq(Scopes)
    /\ DOMAIN grants \subseteq Scopes /\ \A s \in DOMAIN grants : grants[s] \in BOOLEAN
    /\ workers \subseteq [round : Nat, scope : Scopes]
    /\ answers \subseteq [round : Nat, scope : Scopes, answer : Verbs]
    /\ IsFiniteSet(open) /\ IsFiniteSet(workers)

HeldTypes ==
    /\ pend \subseteq Tickets /\ pending \subseteq Tickets /\ waiting \subseteq Tickets
    /\ ready \in Seq(Tickets) /\ batch \in Seq(Tickets)
    /\ decided \subseteq Rulings /\ decisions \subseteq Rulings

PlainTypes ==
    /\ sess \in Nat /\ epoch \in Nat /\ revision \in Nat /\ next \in Nat
    /\ round \in Nat /\ left \in Nat /\ now \in Nat /\ file \in Nat
    /\ todo \in Seq(Records)
    /\ pc \in Phases
    /\ failed \in BOOLEAN /\ whole \in BOOLEAN
    /\ changes \in Nat /\ faults \in Nat

\* The packets of the tickets the session counts are the kernel's.
KnownPackets ==
    \A h \in pend \cup Range(ready) \cup Range(batch) \cup {d.held : d \in decisions} :
        h.packet \in Packets

\* Tokens are issued one after the other; those of a renewal under way are in
\* memory, and not among those that may be forgotten.
CacheOrder ==
    /\ Once(order)
    /\ next = Len(arch) + 1
    /\ \A t \in DOMAIN arch :
          /\ arch[t].epoch <= now
          /\ pc = "draining" => arch[t].epoch # now
          /\ pc = "enlisting" /\ arch[t].epoch = now => t \in DOMAIN cache /\ t \notin Range(order)

TypeInv == /\ WorldTypes /\ KernelTypes /\ CacheTypes /\ AskTypes /\ HeldTypes /\ PlainTypes
           /\ KnownPackets /\ CacheOrder

LEMMA TypeInvTypes == TypeInv => TypeOK
  BY DEF TypeInv, WorldTypes, KernelTypes, CacheTypes, AskTypes, HeldTypes, PlainTypes, TypeOK,
         Verbs, Phases

LEMMA InitTypes == Init => TypeInv
<1> SUFFICES ASSUME Init PROVE TypeInv
  OBVIOUS
<1> USE DEF Init
<1>1. WorldTypes
  BY QueueAssumption DEF WorldTypes, Policies, AllowedAt
<1>2. \A S : <<>> \in Seq(S)
  BY EmptySeq
<1>3. Packets = {} /\ DOMAIN arch = {} /\ Len(arch) = 0
  BY DEF Packets
<1>4. KernelTypes
  BY <1>2, <1>3 DEF KernelTypes
<1>5. CacheTypes
  BY <1>2 DEF CacheTypes
<1>6. AskTypes
  BY <1>2, FS_EmptySet DEF AskTypes
<1>7. HeldTypes /\ PlainTypes
  BY <1>2 DEF HeldTypes, PlainTypes, Phases
<1>8. KnownPackets /\ CacheOrder
  BY <1>3 DEF KnownPackets, CacheOrder, Once, Range
<1> QED
  BY <1>1, <1>4, <1>5, <1>6, <1>7, <1>8 DEF TypeInv

---------------------------------------------------------------------------
(* What a step does not touch keeps its types. *)

LEMMA SameWorld == WorldTypes /\ UNCHANGED <<life, policy, rules, snap, ruled, consent>> => WorldTypes'
  BY DEF WorldTypes
LEMMA SameKernel == KernelTypes /\ UNCHANGED <<kmap, pk, inbox, outbox, acks, arch>> => KernelTypes'
  BY DEF KernelTypes, Packets
LEMMA SameCache == CacheTypes /\ UNCHANGED <<cache, armed, order, arch>> => CacheTypes'
  BY DEF CacheTypes
LEMMA SameAsk == AskTypes /\ UNCHANGED <<open, queue, grants, workers, answers>> => AskTypes'
  BY DEF AskTypes
LEMMA SameHeld ==
    HeldTypes /\ UNCHANGED <<pend, pending, waiting, ready, batch, decided, decisions>> => HeldTypes'
  BY DEF HeldTypes
LEMMA SamePackets ==
    KnownPackets /\ UNCHANGED <<pend, ready, batch, decisions>> /\ Packets \subseteq Packets' => KnownPackets'
  BY DEF KnownPackets
LEMMA SameOrder ==
    CacheOrder /\ UNCHANGED <<order, next, arch, now, cache>>
               /\ (pc' = pc \/ pc' \notin {"draining", "enlisting"})
    => CacheOrder'
  BY DEF CacheOrder

---------------------------------------------------------------------------
(* The queue closed, and what sends a verdict or hears a message. *)

PacketTypes == [token : DOMAIN arch, st : {"held", "passed", "dropped"}, by : Scopes]

\* A token's scope is one.
LEMMA ScopeType ==
    ASSUME PlainTypes, NEW t \in Nat
    PROVE  Scope(t) \in Scopes
  BY DEF PlainTypes, Scope, Scopes

\* The packets the closing drops are the same packets.
LEMMA CloseKernel ==
    ASSUME KernelTypes, Close, UNCHANGED <<kmap, arch>>
    PROVE  KernelTypes' /\ Packets' = Packets
<1>1. /\ DOMAIN pk = 1 .. Len(pk) /\ Len(pk) \in Nat
      /\ \A p \in DOMAIN pk : pk[p] \in PacketTypes
  BY LenProperties, ElementOfSeq DEF KernelTypes, PacketTypes
<1>2. pk' = [p \in 1 .. Len(pk) |-> IF pk[p].st = "held" THEN [pk[p] EXCEPT !.st = "dropped"] ELSE pk[p]]
  BY <1>1 DEF Close, Packets
<1>3. pk' \in [1 .. Len(pk) -> PacketTypes]
  BY <1>1, <1>2 DEF PacketTypes
<1>4. pk' \in Seq(PacketTypes)
  BY <1>1, <1>3, SeqDef
<1>5. Packets' = Packets
  BY <1>1, <1>2 DEF Packets
<1>6. <<>> \in Seq([kind : {"packet", "ack"}, packet : Packets', ok : BOOLEAN])
  BY EmptySeq
<1>7. inbox' = <<>> /\ outbox' = {} /\ acks' = {}
  BY DEF Close
<1> QED
  BY <1>4, <1>5, <1>6, <1>7 DEF KernelTypes, PacketTypes

LEMMA FailTypes ==
    ASSUME TypeInv, Fail, life' \in [Launches -> {"new", "in", "gone"}],
           whole' \in BOOLEAN, changes' \in Nat, faults' \in Nat
    PROVE  TypeInv'
<1> USE DEF TypeInv
<1>1. WorldTypes'
  BY DEF Fail, WorldTypes
<1>2. KernelTypes' /\ Packets' = Packets
  BY CloseKernel DEF Fail
<1>3. CacheTypes'
  BY SameCache DEF Fail, cacheVars
<1>4. AskTypes'
  BY EmptySeq, FS_EmptySet DEF Fail, CancelAll, CancelQuestions, AskTypes
<1>5. HeldTypes'
  BY EmptySeq DEF Fail, Close, CancelAll, CancelQuestions, HeldTypes
<1>6. PlainTypes'
  BY EmptySeq DEF Fail, CancelAll, CancelQuestions, PlainTypes, Phases, cacheVars
<1>7. KnownPackets'
  BY DEF Fail, Close, KnownPackets, Range
<1>8. CacheOrder'
  BY SameOrder DEF Fail, cacheVars
<1> QED
  BY <1>1, <1>2, <1>3, <1>4, <1>5, <1>6, <1>7, <1>8

\* A failure counts one more.
LEMMA FaultCounts ==
    ASSUME PlainTypes, NEW kind, Fault(kind) \/ NoFault
    PROVE  faults' \in Nat
  BY DEF PlainTypes, Fault, NoFault

\* A verdict for packets of the kernel's.
LEMMA SendKernel ==
    ASSUME KernelTypes, NEW vs, vs \subseteq [packet : Packets, allow : BOOLEAN, scope : Scopes],
           Send(vs), UNCHANGED <<kmap, pk, inbox, arch>>
    PROVE  KernelTypes'
  BY DEF KernelTypes, Send, Packets

LEMMA DropTypes ==
    ASSUME NEW p \in Packets
    PROVE  DropOf(p) \in [packet : Packets, allow : BOOLEAN, scope : Scopes]
  BY DEF DropOf, NoScope, Scopes

\* A launch brought back to memory, as one that is on the list.
LEMMA RestoredCache ==
    ASSUME CacheTypes, Once(order), CacheRoom,
           NEW t \in DOMAIN arch, t \notin DOMAIN cache, NEW m \in Records, UNCHANGED arch,
           cache' = CacheWith(t, m),
           armed' = (armed \cap Kept) \cup {t},
           order' = Append(KeptOrder, t)
    PROVE  CacheTypes' /\ Once(order')
<1>1. /\ Kept \subseteq DOMAIN cache /\ KeptOrder \in Seq(Kept) /\ Once(KeptOrder)
      /\ Range(KeptOrder) \subseteq Kept
  BY Forgetting DEF CacheTypes
<1>2. DOMAIN cache' = Kept \cup {t}
  BY DEF CacheWith
<1>3. KeptOrder \in Seq(Kept \cup {t}) /\ t \notin Range(KeptOrder)
  BY <1>1, OfRange
<1>4. order' \in Seq(Kept \cup {t}) /\ Once(order')
  BY <1>1, <1>3, OfAppend
<1>5. \A u \in DOMAIN cache' : cache'[u] \in Records
  BY <1>1, <1>2 DEF CacheWith, CacheTypes
<1> QED
  BY <1>1, <1>2, <1>4, <1>5 DEF CacheTypes

LEMMA HearPacketTypes ==
    ASSUME TypeInv, HearPacket, inbox # <<>>,
           UNCHANGED <<arch, sess, epoch, revision, batch, decisions>>
    PROVE  /\ KernelTypes' /\ CacheTypes' /\ KnownPackets'
           /\ pend' \subseteq Tickets /\ ready' \in Seq(Tickets)
           /\ Once(order')
<1> USE DEF TypeInv
<1> DEFINE m == Head(inbox)
           t == pk[m.packet].token
           back == Restorable(t)
           c == IF back THEN CacheWith(t, arch[t]) ELSE cache
           a == IF back THEN (armed \cap Kept) \cup {t} ELSE armed
           h == [packet |-> m.packet, scope |-> Scope(t), launch |-> c[t].launch]
<1>1. /\ m \in [kind : {"packet", "ack"}, packet : Packets, ok : BOOLEAN]
      /\ inbox' \in Seq([kind : {"packet", "ack"}, packet : Packets, ok : BOOLEAN])
  BY OfTail DEF HearPacket, KernelTypes
<1>2. m.packet \in Packets /\ t \in DOMAIN arch
  <2>1. m.packet \in Packets /\ DOMAIN pk = 1 .. Len(pk)
    BY <1>1, LenProperties DEF KernelTypes
  <2>2. pk[m.packet] \in PacketTypes
    BY <2>1, ElementOfSeq DEF KernelTypes, Packets, PacketTypes
  <2> QED
    BY <2>1, <2>2 DEF PacketTypes
<1>3. DOMAIN arch = 1 .. Len(arch) /\ Len(arch) \in Nat /\ arch[t] \in Records /\ t \in Nat
  BY <1>2, LenProperties, ElementOfSeq DEF KernelTypes
<1>4. CacheTypes' /\ Once(order')
  <2>1. CASE back
    <3>1. t \notin DOMAIN cache /\ CacheRoom
      BY <2>1 DEF HearPacket, Restorable, Missing
    <3>2. cache' = CacheWith(t, arch[t]) /\ armed' = (armed \cap Kept) \cup {t} /\ order' = Append(KeptOrder, t)
      BY <2>1 DEF HearPacket
    <3> QED
      BY <1>2, <1>3, <3>1, <3>2, RestoredCache DEF CacheOrder
  <2>2. CASE ~back
    <3>1. UNCHANGED <<cache, armed, order>>
      BY <2>2 DEF HearPacket
    <3> QED
      BY <3>1, SameCache DEF CacheOrder, Once
  <2> QED
    BY <2>1, <2>2
<1>5. cache' = c
  BY DEF HearPacket
<1>6. \/ /\ pend' = pend \cup {h} /\ ready' = Append(ready, h) /\ UNCHANGED <<outbox, acks>>
         /\ t \in DOMAIN c
      \/ Unwanted(m.packet)
  BY DEF HearPacket, Authentic
<1>7. kmap' = kmap /\ pk' = pk /\ next' = next
  BY DEF HearPacket
<1> HIDE DEF c, a, back, m
<1>8. CASE /\ pend' = pend \cup {h} /\ ready' = Append(ready, h) /\ UNCHANGED <<outbox, acks>>
           /\ t \in DOMAIN c
  <2>1. h \in Tickets
    <3>1. c[t].launch \in Launches
      BY <1>4, <1>5, <1>8 DEF CacheTypes, Records
    <3>2. Scope(t) \in Scopes
      BY <1>3, ScopeType
    <3>3. m.packet \in Nat \ {0}
      BY <1>2, LenProperties DEF KernelTypes, Packets
    <3> QED
      BY <3>1, <3>2, <3>3 DEF Tickets
  <2>2. ready' \in Seq(Tickets) /\ Range(ready') = Range(ready) \cup {h}
    BY <2>1, <1>8, OfAppend DEF HeldTypes
  <2>3. KnownPackets'
    BY <1>2, <1>7, <1>8, <2>2 DEF KnownPackets, Packets
  <2>4. KernelTypes'
    BY <1>1, <1>7, <1>8 DEF KernelTypes, Packets
  <2> QED
    BY <1>4, <1>8, <2>1, <2>2, <2>3, <2>4 DEF HeldTypes
<1>9. CASE Unwanted(m.packet)
  <2>1. KernelTypes'
    BY <1>1, <1>2, <1>7, <1>9, DropTypes DEF KernelTypes, Packets, Unwanted, Send
  <2>2. KnownPackets'
    BY <1>7, <1>9 DEF KnownPackets, Packets, Unwanted
  <2> QED
    BY <1>4, <1>9, <2>1, <2>2 DEF HeldTypes, Unwanted
<1> QED
  BY <1>6, <1>8, <1>9

LEMMA HearTypes ==
    ASSUME TypeInv, Hear, pc # "enlisting",
           UNCHANGED <<worldVars, arch, sess, epoch, revision, askerVars, workers, answers, rules,
                       pending, failed, pc, snap, decided, batch, decisions, todo, outerVars, changes>>
    PROVE  TypeInv'
<1> USE DEF TypeInv
<1>1. WorldTypes' /\ AskTypes'
  BY DEF WorldTypes, worldVars, AskTypes, askerVars
<1>n. next' = next
  BY DEF Hear, HearAck, HearPacket, cacheVars
<1>2. PlainTypes'
  BY <1>n DEF PlainTypes, Hear, askerVars, outerVars, NoFault
<1>3. KernelTypes' /\ CacheTypes' /\ KnownPackets' /\ pend' \subseteq Tickets /\ ready' \in Seq(Tickets)
      /\ Once(order')
  <2>1. CASE HearAck
    <3>1. inbox' \in Seq([kind : {"packet", "ack"}, packet : Packets, ok : BOOLEAN])
      BY <2>1, OfTail DEF HearAck, Hear, KernelTypes
    <3>2. KernelTypes'
      BY <2>1, <3>1 DEF HearAck, KernelTypes, Packets
    <3>3. CacheTypes' /\ Once(order')
      BY <2>1, SameCache DEF HearAck, CacheOrder, Once, cacheVars
    <3> QED
      BY <2>1, <3>2, <3>3 DEF HearAck, KnownPackets, HeldTypes, Packets, cacheVars
  <2>2. CASE HearPacket
    BY <2>2, HearPacketTypes DEF Hear, HearPacket
  <2> QED
    BY <2>1, <2>2 DEF Hear
<1>4. HeldTypes'
  BY <1>3 DEF HeldTypes, askerVars
<1>5. CacheOrder'
  BY <1>3, <1>n DEF CacheOrder, outerVars
<1> QED
  BY <1>1, <1>2, <1>3, <1>4, <1>5

---------------------------------------------------------------------------
(* The kernel and the world. *)

LEMMA OfferTypes ==
    ASSUME TypeInv, NEW t \in kmap, Offer(t)
    PROVE  TypeInv'
<1> USE DEF TypeInv
<1>1. WorldTypes' /\ AskTypes' /\ HeldTypes' /\ CacheTypes' /\ CacheOrder'
  BY SameWorld, SameAsk, SameHeld, SameCache, SameOrder
     DEF Offer, worldVars, turnVars, driverVars, askerVars, cacheVars, outerVars
<1>2. PlainTypes'
  BY DEF Offer, PlainTypes, turnVars, askerVars, cacheVars, outerVars, boundVars
<1> DEFINE new == [token |-> t, st |-> "held", by |-> NoScope]
           msg == [kind |-> "packet", packet |-> Len(pk) + 1, ok |-> TRUE]
<1>3. new \in PacketTypes
  BY DEF KernelTypes, PacketTypes, NoScope, Scopes
<1>4. /\ pk' \in Seq(PacketTypes) /\ Len(pk') = Len(pk) + 1 /\ Len(pk) \in Nat
  BY <1>3, AppendProperties, LenProperties DEF Offer, KernelTypes, PacketTypes
<1>5. Packets = 1 .. Len(pk) /\ Packets' = 1 .. Len(pk) + 1
  BY <1>4, LenProperties DEF KernelTypes, Packets
<1>6. inbox \in Seq([kind : {"packet", "ack"}, packet : Packets', ok : BOOLEAN])
  <2>1. [kind : {"packet", "ack"}, packet : Packets, ok : BOOLEAN]
        \subseteq [kind : {"packet", "ack"}, packet : Packets', ok : BOOLEAN]
    BY <1>4, <1>5
  <2> QED
    BY <2>1, SeqMonotonic DEF KernelTypes
<1>7. inbox' \in Seq([kind : {"packet", "ack"}, packet : Packets', ok : BOOLEAN])
  <2>1. msg \in [kind : {"packet", "ack"}, packet : Packets', ok : BOOLEAN]
    BY <1>4, <1>5
  <2> QED
    BY <2>1, <1>6, AppendProperties DEF Offer
<1>8. outbox' \subseteq [packet : Packets', allow : BOOLEAN, scope : Scopes] /\ acks' \subseteq Packets'
  BY <1>4, <1>5 DEF Offer, KernelTypes, driverVars
<1>9. KernelTypes'
  BY <1>4, <1>7, <1>8 DEF Offer, KernelTypes, PacketTypes
<1>10. KnownPackets'
  <2>1. Packets \subseteq Packets'
    BY <1>4, <1>5
  <2> QED
    BY <2>1, SamePackets DEF Offer, driverVars, turnVars
<1> QED
  BY <1>1, <1>2, <1>9, <1>10

\* A packet passed or dropped is the same packet.
LEMMA Applied ==
    ASSUME KernelTypes, NEW v \in outbox, Apply(v)
    PROVE  /\ v.packet \in DOMAIN pk /\ DOMAIN pk' = DOMAIN pk /\ Len(pk') = Len(pk)
           /\ pk' \in Seq(PacketTypes)
           /\ \A p \in DOMAIN pk : p # v.packet => pk'[p] = pk[p]
           /\ pk'[v.packet].token = pk[v.packet].token
           /\ pk'[v.packet] = pk[v.packet] \/ pk'[v.packet].st \in {"passed", "dropped"}
           /\ pk'[v.packet].st = "passed" =>
                 \/ pk'[v.packet] = pk[v.packet]
                 \/ pk[v.packet].st = "held" /\ v.allow /\ pk'[v.packet].by = v.scope
<1>1. /\ v.packet \in DOMAIN pk /\ DOMAIN pk = 1 .. Len(pk) /\ Len(pk) \in Nat
      /\ pk \in [1 .. Len(pk) -> PacketTypes] /\ v.scope \in Scopes
  BY LenProperties DEF KernelTypes, PacketTypes, Packets
<1>2. pk[v.packet] \in PacketTypes
  BY <1>1
<1> DEFINE passed == [pk[v.packet] EXCEPT !.st = "passed", !.by = v.scope]
           dropped == [pk[v.packet] EXCEPT !.st = "dropped"]
<1>3. /\ passed \in PacketTypes /\ dropped \in PacketTypes
      /\ passed.token = pk[v.packet].token /\ dropped.token = pk[v.packet].token
      /\ passed.st = "passed" /\ passed.by = v.scope /\ dropped.st = "dropped"
  BY <1>1, <1>2 DEF PacketTypes
<1>4. \/ pk' = pk
      \/ pk[v.packet].st = "held" /\ v.allow /\ pk' = [pk EXCEPT ![v.packet] = passed]
      \/ pk[v.packet].st = "held" /\ pk' = [pk EXCEPT ![v.packet] = dropped]
  BY DEF Apply
<1>5. \A x \in PacketTypes : [pk EXCEPT ![v.packet] = x] \in Seq(PacketTypes)
  BY <1>1, ExceptSeq DEF KernelTypes, PacketTypes
<1> HIDE DEF passed, dropped
<1>6. pk' \in Seq(PacketTypes)
  BY <1>3, <1>4, <1>5 DEF KernelTypes, PacketTypes
<1>7. DOMAIN pk' = DOMAIN pk
  BY <1>4
<1>8. Len(pk') = Len(pk)
  BY <1>1, <1>6, <1>7, LenProperties
<1>9. \/ pk'[v.packet] = pk[v.packet]
      \/ pk[v.packet].st = "held" /\ v.allow /\ pk'[v.packet] = passed
      \/ pk[v.packet].st = "held" /\ pk'[v.packet] = dropped
  BY <1>1, <1>4
<1>10. \A p \in DOMAIN pk : p # v.packet => pk'[p] = pk[p]
  BY <1>4
<1>11. CASE pk'[v.packet] = pk[v.packet]
  BY <1>1, <1>6, <1>7, <1>8, <1>10, <1>11
<1>12. CASE pk'[v.packet] # pk[v.packet]
  <2>1. /\ pk'[v.packet].token = pk[v.packet].token
        /\ pk'[v.packet].st \in {"passed", "dropped"}
        /\ pk'[v.packet].st = "passed" =>
              pk[v.packet].st = "held" /\ v.allow /\ pk'[v.packet].by = v.scope
    BY <1>3, <1>9, <1>12
  <2> QED
    BY <2>1, <1>1, <1>6, <1>7, <1>8, <1>10
<1> QED
  BY <1>11, <1>12

LEMMA ApplyTypes ==
    ASSUME TypeInv, NEW v \in outbox, Apply(v)
    PROVE  TypeInv'
<1> USE DEF TypeInv
<1>1. WorldTypes' /\ AskTypes' /\ HeldTypes' /\ CacheTypes' /\ CacheOrder'
  BY SameWorld, SameAsk, SameHeld, SameCache, SameOrder
     DEF Apply, worldVars, turnVars, driverVars, askerVars, cacheVars, outerVars
<1>2. PlainTypes'
  BY DEF Apply, PlainTypes, turnVars, askerVars, cacheVars, outerVars, Fault, NoFault
<1>3. Packets' = Packets /\ v.packet \in Packets /\ pk' \in Seq(PacketTypes)
  BY Applied DEF Packets
<1>4. inbox' \in Seq([kind : {"packet", "ack"}, packet : Packets, ok : BOOLEAN])
  <2>1. PICK ok \in BOOLEAN : inbox' = Append(inbox, [kind |-> "ack", packet |-> v.packet, ok |-> ok])
    BY DEF Apply
  <2>2. [kind |-> "ack", packet |-> v.packet, ok |-> ok]
        \in [kind : {"packet", "ack"}, packet : Packets, ok : BOOLEAN]
    BY <1>3
  <2> QED
    BY <2>1, <2>2, AppendProperties DEF KernelTypes
<1>5. KernelTypes'
  BY <1>3, <1>4 DEF Apply, KernelTypes, PacketTypes, driverVars
<1>6. KnownPackets'
  BY <1>3, SamePackets DEF Apply, driverVars, turnVars
<1> QED
  BY <1>1, <1>2, <1>5, <1>6

LEMMA WorldStepTypes ==
    ASSUME TypeInv, World
    PROVE  TypeInv'
<1> USE DEF TypeInv
<1>1. ASSUME NEW g \in Programs, NEW r \in {"ask", "allow", "deny"}, Edit(g, r)
      PROVE  TypeInv'
  <2>1. policy' \in Policies
    BY <1>1 DEF Edit, WorldTypes, Policies
  <2>2. WorldTypes'
    BY <1>1, <2>1 DEF Edit, WorldTypes, PlainTypes, AllowedAt, turnVars
  <2>3. PlainTypes'
    BY <1>1 DEF Edit, Change, PlainTypes, turnVars, askerVars, cacheVars, outerVars
  <2> QED
    BY <1>1, <2>2, <2>3, SameKernel, SameAsk, SameHeld, SameCache, SameOrder, SamePackets
       DEF Edit, kernelVars, turnVars, driverVars, askerVars, cacheVars, outerVars, Packets
<1>2. ASSUME NEW w \in workers, NEW a \in {"always", "now", "deny", "closed"}, Answer(w, a)
      PROVE  TypeInv'
  <2>1. w \in [round : Nat, scope : Scopes]
    BY DEF AskTypes
  <2>2. Said(w.scope) \in [epoch : Nat, revision : Nat, token : Nat]
    BY <2>1 DEF Said, Scopes
  <2>3. WorldTypes'
    BY <1>2, <2>2 DEF Answer, WorldTypes, turnVars
  <2>4. AskTypes'
    BY <1>2, <2>1, FS_RemoveElement DEF Answer, AskTypes, askerVars, Verbs
  <2>5. PlainTypes'
    BY <1>2 DEF Answer, PlainTypes, turnVars, askerVars, cacheVars, outerVars, boundVars
  <2> QED
    BY <1>2, <2>3, <2>4, <2>5, SameKernel, SameHeld, SameCache, SameOrder, SamePackets
       DEF Answer, kernelVars, turnVars, driverVars, askerVars, cacheVars, outerVars, Packets
<1>3. ASSUME NEW l \in Launches, Ends(l)
      PROVE  TypeInv'
  <2>1. WorldTypes'
    BY <1>3 DEF Ends, WorldTypes, turnVars
  <2>2. PlainTypes'
    BY <1>3 DEF Ends, PlainTypes, turnVars, askerVars, cacheVars, outerVars, boundVars
  <2> QED
    BY <1>3, <2>1, <2>2, SameKernel, SameAsk, SameHeld, SameCache, SameOrder, SamePackets
       DEF Ends, kernelVars, turnVars, driverVars, askerVars, cacheVars, outerVars, Packets
<1> QED
  BY <1>1, <1>2, <1>3 DEF World

---------------------------------------------------------------------------
(* A turn of the keeper's. *)

\* Steps that only say where the keeper is, or forget an answer.
LEMMA QuietTypes ==
    ASSUME TypeInv, Begin \/ PolicyChanged \/ Told \/ StartIntake \/ \E a \in answers : Stale(a)
    PROVE  TypeInv'
<1> USE DEF TypeInv, Begin, PolicyChanged, Told, StartIntake, Stale, kernelVars, cacheVars,
            driverVars, askerVars, turnVars, outerVars, boundVars, worldVars
<1>1. WorldTypes'
  BY DEF WorldTypes
<1>2. AskTypes'
  BY DEF AskTypes
<1>3. PlainTypes'
  <2>1. Round \in Nat
    BY QueueAssumption
  <2>2. left' \in {left, 0, Round} /\ pc' \in {pc, "answers", "verdicts", "intake"}
    OBVIOUS
  <2> QED
    BY <2>1, <2>2 DEF PlainTypes, Phases
<1>4. KernelTypes' /\ CacheTypes' /\ CacheOrder'
  BY SameKernel, SameCache, SameOrder
<1>5. HeldTypes' /\ KnownPackets'
  BY SameHeld, SamePackets DEF Packets
<1> QED
  BY <1>1, <1>2, <1>3, <1>4, <1>5

LEMMA DropPendingTypes ==
    ASSUME TypeInv, DropPending, UNCHANGED <<kmap, pk, inbox, arch>>
    PROVE  KernelTypes' /\ pend' = {} /\ ready' = <<>> /\ left' \in Nat
<1> DEFINE vs == {DropOf(h.packet) : h \in pend}
<1>1. vs \subseteq [packet : Packets, allow : BOOLEAN, scope : Scopes]
  BY DropTypes DEF TypeInv, KnownPackets
<1>2. KernelTypes'
  BY <1>1, SendKernel DEF TypeInv, DropPending
<1> QED
  BY <1>2, QueueAssumption DEF DropPending

LEMMA ChangePolicyTypes ==
    ASSUME TypeInv, ChangePolicy
    PROVE  TypeInv'
<1> USE DEF TypeInv, ChangePolicy
<1>1. KernelTypes' /\ pend' = {} /\ ready' = <<>> /\ left' \in Nat
  BY DropPendingTypes
<1>2. WorldTypes'
  BY DEF WorldTypes, PlainTypes, AllowedAt, Policies
<1>3. AskTypes'
  BY EmptySeq, FS_EmptySet DEF AskTypes, CancelAll, CancelQuestions
<1>4. PlainTypes'
  BY <1>1 DEF PlainTypes, Phases, CancelAll, CancelQuestions, cacheVars, outerVars, boundVars
<1>5. HeldTypes'
  BY <1>1, EmptySeq DEF HeldTypes, CancelAll, CancelQuestions
<1>6. CacheTypes' /\ CacheOrder'
  BY SameCache, SameOrder DEF cacheVars, outerVars
<1>7. KnownPackets'
  BY <1>1 DEF KnownPackets, Range, Packets
<1> QED
  BY <1>1, <1>2, <1>3, <1>4, <1>5, <1>6, <1>7

LEMMA TakeAnswerTypes ==
    ASSUME TypeInv, NEW a \in answers, TakeAnswer(a)
    PROVE  TypeInv'
<1> USE DEF TypeInv
<1> DEFINE g == Program[arch[a.scope.token].launch]
           mine == {h \in waiting : h.scope = a.scope}
<1>1. /\ answers' = answers \ {a} /\ waiting' = waiting \ mine /\ open' = open \ {a.scope}
      /\ faults' \in {faults, faults + 1}
      /\ UNCHANGED <<life, consent, kernelVars, arch, sess, epoch, revision, cacheVars, driverVars,
                     round, queue, workers, rules, pending, failed, pc, snap, batch, decisions,
                     left, todo, outerVars, changes>>
  BY DEF TakeAnswer, Fault, NoFault
<1>0. /\ policy' = policy \/ \E r \in {"allow", "deny"} : policy' = [policy EXCEPT ![g] = r]
      /\ ruled' = ruled \cup AllowedAt(policy', revision)
      /\ \E verdict \in BOOLEAN :
            /\ grants' = grants \/ grants' = [s \in DOMAIN grants \cup {a.scope} |->
                                              IF s = a.scope THEN verdict ELSE grants[s]]
            /\ decided' = decided \cup {[held |-> h, allow |-> verdict] : h \in mine}
  <2>1. PICK written \in BOOLEAN :
          /\ LET verdict == /\ a.answer \in {"always", "now"} /\ ~Refused(g)
                            /\ a.answer = "always" => written
                 keep == ~written /\ ~Refused(g) /\ a.answer # "always"
             IN  /\ grants' = IF keep
                              THEN [s \in DOMAIN grants \cup {a.scope} |->
                                      IF s = a.scope THEN verdict ELSE grants[s]]
                              ELSE grants
                 /\ decided' = decided \cup {[held |-> h, allow |-> verdict] : h \in mine}
          /\ policy' = IF written
                       THEN [policy EXCEPT ![g] = IF a.answer = "always" THEN "allow" ELSE "deny"]
                       ELSE policy
          /\ ruled' = ruled \cup AllowedAt(policy', revision)
    BY DEF TakeAnswer
  <2> QED
    BY <2>1
<1>2. a \in [round : Nat, scope : Scopes, answer : Verbs]
  BY DEF AskTypes
<1>3. policy' \in Policies
  BY <1>0 DEF WorldTypes, Policies
<1>4. WorldTypes'
  BY <1>0, <1>1, <1>3 DEF WorldTypes, PlainTypes, AllowedAt
<1>5. AskTypes'
  <2>1. IsFiniteSet(open')
    BY <1>1, FS_RemoveElement DEF AskTypes
  <2>2. DOMAIN grants' \subseteq Scopes /\ \A s \in DOMAIN grants' : grants'[s] \in BOOLEAN
    BY <1>0, <1>2 DEF AskTypes
  <2> QED
    BY <1>1, <2>1, <2>2 DEF AskTypes
<1>6. HeldTypes'
  BY <1>0, <1>1 DEF HeldTypes, Rulings, driverVars
<1>7. PlainTypes'
  BY <1>1 DEF PlainTypes, cacheVars, outerVars
<1>8. KernelTypes' /\ CacheTypes' /\ CacheOrder' /\ KnownPackets'
  BY <1>1, SameKernel, SameCache, SameOrder, SamePackets
     DEF kernelVars, cacheVars, driverVars, outerVars, Packets
<1> QED
  BY <1>4, <1>5, <1>6, <1>7, <1>8

\* The questions opened leave the open ones, and their threads, finitely many.
LEMMA Opened ==
    ASSUME IsFiniteSet(open), IsFiniteSet(workers), NEW first, IsFiniteSet(first)
    PROVE  /\ IsFiniteSet(open \cup first)
           /\ IsFiniteSet(workers \cup {[round |-> round, scope |-> s] : s \in first})
<1> DEFINE f == [s \in first |-> [round |-> round, scope |-> s]]
<1>1. f \in Surjection(first, {[round |-> round, scope |-> s] : s \in first})
  BY DEF Surjection
<1>2. IsFiniteSet({[round |-> round, scope |-> s] : s \in first})
  BY <1>1, FS_Surjection
<1> QED
  BY <1>2, FS_Union

LEMMA AnsweredTypes ==
    ASSUME TypeInv, Answered
    PROVE  TypeInv'
<1> USE DEF TypeInv
<1>1. PICK first \in SUBSET Scopes :
          /\ IsFiniteSet(first) /\ queue' \in Seq(Scopes)
          /\ open' = open \cup first
          /\ workers' = workers \cup {[round |-> round, scope |-> s] : s \in first}
  BY Asking DEF Answered, AskTypes
<1>3. IsFiniteSet(open') /\ IsFiniteSet(workers')
  BY <1>1, Opened DEF AskTypes
<1>4. AskTypes'
  BY <1>1, <1>3 DEF AskTypes, PlainTypes, Answered
<1>5. WorldTypes' /\ HeldTypes'
  BY DEF Answered, WorldTypes, HeldTypes, worldVars, driverVars
<1>6. PlainTypes'
  BY DEF Answered, PlainTypes, Phases, cacheVars, outerVars, boundVars
<1>7. KernelTypes' /\ CacheTypes' /\ CacheOrder' /\ KnownPackets'
  BY SameKernel, SameCache, SameOrder, SamePackets
     DEF Answered, kernelVars, cacheVars, driverVars, outerVars, Packets
<1> QED
  BY <1>4, <1>5, <1>6, <1>7

\* ready.retain keeps tickets.
LEMMA WithoutTypes ==
    ASSUME HeldTypes, NEW hs
    PROVE  /\ Without(hs) \in Seq(Tickets)
           /\ Range(Without(hs)) = Range(ready) \ hs
           /\ Once(ready) => Once(Without(hs))
<1>1. /\ Without(hs) \in Seq(Tickets \cap (Range(ready) \ hs))
      /\ Range(Without(hs)) = Range(ready) \cap (Range(ready) \ hs)
      /\ Once(ready) => Once(Without(hs))
  BY OfThose DEF HeldTypes, Without
<1> QED
  BY <1>1, SeqMonotonic

\* A ticket that is pending, and what is said of it.
LEMMA VerdictTypes ==
    ASSUME HeldTypes, KnownPackets, NEW h \in pend, NEW allow \in BOOLEAN
    PROVE  Verdict(h, allow) \in [packet : Packets, allow : BOOLEAN, scope : Scopes]
  BY DEF HeldTypes, KnownPackets, Verdict, Tickets

LEMMA TellTypes ==
    ASSUME TypeInv, NEW d \in decided, Tell(d)
    PROVE  TypeInv'
<1> USE DEF TypeInv
<1> DEFINE v == Verdict(d.held, d.allow /\ snap[Program[d.held.launch]] # "deny")
<1>1. CASE Fresh(d.held) /\ CanSend({v})
  <2>1. /\ Send({v}) /\ decided' = decided \ {d} /\ pending' = pending \ {d.held}
        /\ pend' = pend \ {d.held} /\ ready' = Without({d.held}) /\ left' = FlushTime
        /\ pc' = "telling"
        /\ UNCHANGED <<worldVars, kmap, pk, inbox, arch, sess, epoch, revision, cacheVars,
                       askerVars, workers, answers, rules, failed, snap, batch, decisions,
                       todo, outerVars, boundVars>>
    BY <1>1 DEF Tell
  <2>2. {v} \subseteq [packet : Packets, allow : BOOLEAN, scope : Scopes]
    BY <1>1, VerdictTypes DEF Fresh
  <2>3. KernelTypes'
    BY <2>1, <2>2, SendKernel
  <2>4. ready' \in Seq(Tickets) /\ Range(ready') \subseteq Range(ready)
    BY <2>1, WithoutTypes
  <2>5. HeldTypes' /\ KnownPackets'
    BY <2>1, <2>4 DEF HeldTypes, KnownPackets, askerVars, Packets
  <2>6. WorldTypes' /\ AskTypes'
    BY <2>1 DEF WorldTypes, AskTypes, worldVars, askerVars
  <2>7. PlainTypes'
    BY <2>1, QueueAssumption DEF PlainTypes, Phases, askerVars, cacheVars, outerVars, boundVars
  <2>8. CacheTypes' /\ CacheOrder'
    BY <2>1, SameCache, SameOrder DEF cacheVars, outerVars
  <2> QED
    BY <2>3, <2>5, <2>6, <2>7, <2>8
<1>2. CASE ~(Fresh(d.held) /\ CanSend({v}))
  <2>1. Fail /\ UNCHANGED <<life, whole, boundVars>>
    BY <1>2 DEF Tell
  <2> QED
    BY <2>1, FailTypes DEF WorldTypes, PlainTypes, boundVars
<1> QED
  BY <1>1, <1>2

\* A message read, in a flush or an intake, and the queue that is closed then.
LEMMA MessageTypes ==
    ASSUME TypeInv, FlushOne \/ IntakeOne
    PROVE  TypeInv'
<1>1. pc # "enlisting" /\ Hear
  BY DEF FlushOne, IntakeOne, Flushing
<1>2. UNCHANGED <<worldVars, arch, sess, epoch, revision, askerVars, workers, answers, rules,
                  pending, failed, pc, snap, decided, batch, decisions, todo, outerVars, changes>>
  BY DEF FlushOne, IntakeOne
<1> QED
  BY <1>1, <1>2, HearTypes

LEMMA BreakTypes ==
    ASSUME TypeInv, FlushBreaks \/ IntakeBreaks \/ RenewBreaks \/ RotateBreaks
    PROVE  TypeInv'
<1>1. Fail /\ life' = life /\ whole' = whole
  BY DEF FlushBreaks, IntakeBreaks, RenewBreaks, RotateBreaks, Broken
<1>2. faults' \in Nat
  BY FaultCounts DEF FlushBreaks, IntakeBreaks, RenewBreaks, RotateBreaks, Broken, TypeInv
<1>3. changes' = changes \/ changes' = changes + 1
  BY DEF FlushBreaks, IntakeBreaks, RenewBreaks, RotateBreaks, Change
<1> QED
  BY <1>1, <1>2, <1>3, FailTypes DEF TypeInv, WorldTypes, PlainTypes

LEMMA EndIntakeTypes ==
    ASSUME TypeInv, EndIntake
    PROVE  TypeInv'
<1> USE DEF TypeInv
<1> DEFINE n == AtMost(Len(ready), Round)
<1>1. Len(ready) \in Nat /\ Round \in Nat
  BY LenProperties, QueueAssumption DEF HeldTypes
<1>2. n \in 0 .. Len(ready)
  BY <1>1 DEF AtMost
<1>3. batch' = SubSeq(ready, 1, n) /\ ready' = SubSeq(ready, n + 1, Len(ready))
  BY DEF EndIntake
<1> HIDE DEF n
<1>4. /\ batch' \in Seq(Tickets) /\ ready' \in Seq(Tickets)
      /\ Range(ready') \cup Range(batch') = Range(ready)
  BY <1>2, <1>3, OfSplit DEF HeldTypes
<1>5. HeldTypes' /\ KnownPackets'
  BY <1>4 DEF EndIntake, HeldTypes, KnownPackets, askerVars, kernelVars, Packets
<1>6. WorldTypes' /\ AskTypes'
  BY DEF EndIntake, WorldTypes, AskTypes, worldVars, askerVars
<1>7. PlainTypes'
  BY DEF EndIntake, PlainTypes, Phases, askerVars, cacheVars, outerVars, boundVars
<1>8. KernelTypes' /\ CacheTypes' /\ CacheOrder'
  BY SameKernel, SameCache, SameOrder DEF EndIntake, kernelVars, cacheVars, outerVars
<1> QED
  BY <1>5, <1>6, <1>7, <1>8

LEMMA DecideTypes ==
    ASSUME TypeInv, Decide
    PROVE  TypeInv'
<1> USE DEF TypeInv
<1> DEFINE h == Head(batch)
<1>1. batch # <<>> /\ batch' = Tail(batch)
  BY DEF Decide
<1>2. /\ h \in Tickets /\ h \in Range(batch) /\ batch' \in Seq(Tickets)
      /\ Range(batch') \subseteq Range(batch)
  BY <1>1, OfTail DEF HeldTypes
<1>3. (\E allow \in BOOLEAN : Decided(h, allow)) \/ Wait(h)
  BY DEF Decide
<1> HIDE DEF h
<1>4. UNCHANGED <<worldVars, kernelVars, arch, sess, epoch, revision, cacheVars, driverVars,
                  round, grants, answers, rules, failed, pc, snap, decided, left, todo, outerVars,
                  boundVars>>
  BY DEF Decide
<1>5. WorldTypes'
  BY <1>4 DEF WorldTypes, worldVars
<1>6. PlainTypes'
  BY <1>4 DEF PlainTypes, cacheVars, outerVars, boundVars
<1>7. KernelTypes' /\ CacheTypes' /\ CacheOrder'
  BY <1>4, SameKernel, SameCache, SameOrder DEF kernelVars, driverVars, cacheVars, outerVars
<1>8. ASSUME NEW allow \in BOOLEAN, Decided(h, allow)
      PROVE  AskTypes' /\ HeldTypes' /\ KnownPackets'
  <2>1. AskTypes'
    BY <1>4, <1>8 DEF Decided, AskTypes
  <2>2. HeldTypes'
    BY <1>2, <1>4, <1>8 DEF Decided, HeldTypes, Rulings, driverVars
  <2>3. KnownPackets'
    BY <1>2, <1>4, <1>8 DEF Decided, KnownPackets, driverVars, kernelVars, Packets
  <2> QED
    BY <2>1, <2>2, <2>3
<1>9. ASSUME Wait(h)
      PROVE  AskTypes' /\ HeldTypes' /\ KnownPackets'
  <2>1. HeldTypes' /\ KnownPackets'
    BY <1>2, <1>4, <1>9 DEF Wait, HeldTypes, KnownPackets, driverVars, kernelVars, Packets
  <2>2. AskTypes'
    <3>1. CASE UNCHANGED <<open, queue, workers>>
      BY <1>4, <3>1 DEF AskTypes
    <3>2. CASE Ask(Append(queue, h.scope), open, workers)
      <4>1. Append(queue, h.scope) \in Seq(Scopes)
        BY <1>2, OfAppend DEF AskTypes, Tickets
      <4>0. IsFiniteSet(open) /\ IsFiniteSet(workers)
        BY DEF AskTypes
      <4>2. PICK first \in SUBSET Scopes :
                /\ IsFiniteSet(first) /\ queue' \in Seq(Scopes)
                /\ open' = open \cup first
                /\ workers' = workers \cup {[round |-> round, scope |-> s] : s \in first}
        <5> DEFINE q == Append(queue, h.scope)
        <5>1. q \in Seq(Scopes) /\ Ask(q, open, workers)
          BY <3>2, <4>1
        <5> HIDE DEF q, TypeInv
        <5> QED BY <5>1, <4>0, Asking
      <4>3. IsFiniteSet(open') /\ IsFiniteSet(workers')
        BY <4>2, Opened DEF AskTypes
      <4> QED
        BY <1>4, <4>2, <4>3 DEF AskTypes, PlainTypes
    <3> QED
      BY <1>9, <3>1, <3>2 DEF Wait
  <2> QED
    BY <2>1, <2>2
<1> QED
  BY <1>3, <1>5, <1>6, <1>7, <1>8, <1>9

LEMMA DecideRoundTypes ==
    ASSUME TypeInv, DecideRound
    PROVE  TypeInv'
<1> USE DEF TypeInv
<1> DEFINE hs == {d.held : d \in decisions}
           vs == {Verdict(d.held, d.allow) : d \in decisions}
<1>1. CASE (\A h \in hs : Fresh(h)) /\ CanSend(vs)
  <2>1. /\ Send(vs) /\ pend' = pend \ hs /\ ready' = Without(hs) /\ decisions' = {}
        /\ snap' = rules /\ pc' = "poll"
        /\ UNCHANGED <<worldVars, kmap, pk, inbox, arch, sess, epoch, revision, cacheVars,
                       askerVars, workers, answers, rules, pending, failed, decided,
                       batch, left, todo, outerVars, boundVars>>
    BY <1>1 DEF DecideRound
  <2>2. vs \subseteq [packet : Packets, allow : BOOLEAN, scope : Scopes]
    <3> SUFFICES ASSUME NEW d \in decisions
                 PROVE  Verdict(d.held, d.allow) \in [packet : Packets, allow : BOOLEAN, scope : Scopes]
      OBVIOUS
    <3>1. d.held \in pend /\ d.allow \in BOOLEAN
      BY <1>1 DEF Fresh, HeldTypes, Rulings
    <3> QED
      BY <3>1, VerdictTypes
  <2> HIDE DEF vs
  <2>3. KernelTypes'
    BY <2>1, <2>2, SendKernel
  <2>4. ready' \in Seq(Tickets) /\ Range(ready') \subseteq Range(ready)
    BY <2>1, WithoutTypes
  <2> HIDE DEF hs
  <2>5. HeldTypes' /\ KnownPackets'
    BY <2>1, <2>4 DEF HeldTypes, KnownPackets, askerVars, Packets
  <2>6. WorldTypes' /\ AskTypes'
    BY <2>1 DEF WorldTypes, AskTypes, worldVars, askerVars
  <2>7. PlainTypes'
    BY <2>1 DEF PlainTypes, Phases, askerVars, cacheVars, outerVars, boundVars
  <2>8. CacheTypes' /\ CacheOrder'
    BY <2>1, SameCache, SameOrder DEF cacheVars, outerVars
  <2> QED
    BY <2>3, <2>5, <2>6, <2>7, <2>8
<1>2. CASE ~((\A h \in hs : Fresh(h)) /\ CanSend(vs))
  <2>1. Fail /\ UNCHANGED <<life, whole, boundVars>>
    BY <1>2 DEF DecideRound
  <2> QED
    BY <2>1, FailTypes DEF WorldTypes, PlainTypes, boundVars
<1> QED
  BY <1>1, <1>2

---------------------------------------------------------------------------
(* Registration, renewal, rotation. *)

\* The next token, with its row; a launch forgotten, if one was, comes off the
\* list.
LEMMA Issued ==
    ASSUME KernelTypes, CacheTypes, PlainTypes, CacheOrder, NEW l \in Launches, Issuable, Issue(l)
    PROVE  /\ next \notin DOMAIN arch /\ DOMAIN arch' = DOMAIN arch \cup {next}
           /\ arch' \in Seq(Records)
           /\ next' = Len(arch') + 1
           /\ arch'[next] = [launch |-> l, epoch |-> now]
           /\ \A t \in DOMAIN arch : arch'[t] = arch[t]
           /\ Kept \subseteq DOMAIN cache /\ DOMAIN cache \ Kept \subseteq Range(order)
           /\ DOMAIN cache' = Kept \cup {next} /\ \A t \in DOMAIN cache' : cache'[t] \in Records
           /\ KeptOrder \in Seq(Kept) /\ Once(KeptOrder)
           /\ Range(KeptOrder) = Range(order) \cap Kept
<1> DEFINE row == [launch |-> l, epoch |-> now]
<1>1. row \in Records /\ [launch |-> l, epoch |-> epoch] \in Records
  BY DEF Records, PlainTypes
<1>2. DOMAIN arch = 1 .. Len(arch) /\ Len(arch) \in Nat /\ next = Len(arch) + 1
  BY LenProperties DEF KernelTypes, CacheOrder
<1>3. /\ arch' \in Seq(Records) /\ Len(arch') = Len(arch) + 1
      /\ \A t \in 1 .. Len(arch) : arch'[t] = arch[t]
      /\ arch'[Len(arch) + 1] = row
  BY <1>1, AppendProperties DEF Issue, KernelTypes
<1>4. DOMAIN arch' = 1 .. Len(arch) + 1
  BY <1>3, LenProperties
<1>5. /\ Kept \subseteq DOMAIN cache /\ DOMAIN cache \ Kept \subseteq Range(order)
      /\ KeptOrder \in Seq(Kept) /\ Once(KeptOrder)
      /\ Range(KeptOrder) = Range(order) \cap Kept
  BY Forgetting DEF CacheTypes, CacheOrder, Issuable
<1>6. DOMAIN cache' = Kept \cup {next} /\ \A t \in DOMAIN cache' : cache'[t] \in Records
  BY <1>1, <1>5 DEF Issue, CacheWith, CacheTypes
<1>7. DOMAIN arch' = DOMAIN arch \cup {next} /\ next \notin DOMAIN arch
  BY <1>2, <1>4
<1>8. next' = Len(arch') + 1
  BY <1>2, <1>3 DEF Issue
<1> QED
  BY <1>2, <1>3, <1>5, <1>6, <1>7, <1>8

\* What the kernel has of the tokens there were, it has of them among more.
LEMMA MoreTokens ==
    ASSUME KernelTypes, DOMAIN arch \subseteq DOMAIN arch', arch' \in Seq(Records),
           kmap' \subseteq DOMAIN arch', UNCHANGED <<pk, inbox, outbox, acks>>
    PROVE  KernelTypes'
<1>1. [token : DOMAIN arch, st : {"held", "passed", "dropped"}, by : Scopes]
      \subseteq [token : DOMAIN arch', st : {"held", "passed", "dropped"}, by : Scopes]
  OBVIOUS
<1>2. pk' \in Seq([token : DOMAIN arch', st : {"held", "passed", "dropped"}, by : Scopes])
  BY <1>1, SeqMonotonic DEF KernelTypes
<1> QED
  BY <1>2 DEF KernelTypes, Packets

LEMMA RegisterTypes ==
    ASSUME TypeInv, NEW l \in Launches, Register(l)
    PROVE  TypeInv'
<1> USE DEF TypeInv
<1>l. \A st \in {"new", "in", "gone"} :
          [life EXCEPT ![l] = st] \in [Launches -> {"new", "in", "gone"}]
  BY DEF WorldTypes
<1>1. CASE Issuable
  <2>1. /\ Issue(l) /\ kmap' = kmap \cup {next} /\ armed' = (armed \cap Kept) \cup {next}
        /\ order' = Append(KeptOrder, next) /\ life' = [life EXCEPT ![l] = "in"]
        /\ pc = "poll"
        /\ UNCHANGED <<policy, ruled, consent, pk, inbox, outbox, sess, epoch, revision,
                       driverVars, askerVars, workers, answers, rules, pending, failed, pc,
                       turnVars, outerVars, boundVars>>
    BY <1>1 DEF Register
  <2>2. /\ next \notin DOMAIN arch /\ DOMAIN arch' = DOMAIN arch \cup {next}
        /\ arch' \in Seq(Records)
        /\ next' = Len(arch') + 1
        /\ arch'[next] = [launch |-> l, epoch |-> now]
        /\ \A t \in DOMAIN arch : arch'[t] = arch[t]
        /\ Kept \subseteq DOMAIN cache
        /\ DOMAIN cache' = Kept \cup {next} /\ \A t \in DOMAIN cache' : cache'[t] \in Records
        /\ KeptOrder \in Seq(Kept) /\ Once(KeptOrder)
        /\ Range(KeptOrder) \subseteq Kept
    BY <1>1, <2>1, Issued
  <2>3. WorldTypes'
    BY <1>l, <2>1 DEF WorldTypes, turnVars
  <2>4. KernelTypes'
    BY <2>1, <2>2, MoreTokens DEF KernelTypes, driverVars
  <2>5. order' \in Seq(DOMAIN cache') /\ Once(order')
    <3>1. KeptOrder \in Seq(Kept \cup {next}) /\ next \notin Range(KeptOrder)
      BY <2>2, OfRange DEF CacheTypes
    <3> QED
      BY <2>1, <2>2, <3>1, OfAppend
  <2>6. CacheTypes'
    BY <2>1, <2>2, <2>5 DEF CacheTypes
  <2>7. PlainTypes'
    <3>1. next' \in Nat
      BY <2>2, LenProperties
    <3> QED
      BY <2>1, <3>1 DEF PlainTypes, turnVars, askerVars, outerVars, boundVars
  <2>8. CacheOrder'
    BY <2>1, <2>2, <2>5 DEF CacheOrder, outerVars, PlainTypes
  <2>9. AskTypes' /\ HeldTypes' /\ KnownPackets'
    BY <2>1, SameAsk, SameHeld, SamePackets DEF askerVars, driverVars, turnVars, Packets
  <2> QED
    BY <2>3, <2>4, <2>6, <2>7, <2>8, <2>9
<1>2. CASE ~Issuable /\ CacheRoom
  <2>1. Fail /\ life' = [life EXCEPT ![l] = "gone"] /\ UNCHANGED <<whole, boundVars>>
    BY <1>2 DEF Register
  <2> QED
    BY <1>l, <2>1, FailTypes DEF PlainTypes, boundVars
<1>3. CASE ~Issuable /\ ~CacheRoom
  <2>1. /\ life' = [life EXCEPT ![l] = "gone"]
        /\ UNCHANGED <<policy, ruled, consent, kernelVars, arch, sess, epoch, revision,
                       cacheVars, driverVars, askerVars, workers, answers, rules,
                       pending, failed, pc, turnVars, outerVars, boundVars>>
    BY <1>3 DEF Register
  <2>2. WorldTypes'
    BY <1>l, <2>1 DEF WorldTypes, turnVars
  <2>3. PlainTypes'
    BY <2>1 DEF PlainTypes, turnVars, askerVars, cacheVars, outerVars, boundVars
  <2> QED
    BY <2>1, <2>2, <2>3, SameKernel, SameAsk, SameHeld, SameCache, SameOrder, SamePackets
       DEF kernelVars, turnVars, driverVars, askerVars, cacheVars, outerVars, Packets
<1> QED
  BY <1>1, <1>2, <1>3

LEMMA RegisterBreaksTypes ==
    ASSUME TypeInv, NEW l \in Launches, RegisterBreaks(l)
    PROVE  TypeInv'
<1>1. faults' \in Nat
  BY FaultCounts DEF RegisterBreaks, TypeInv
<1>2. life' \in [Launches -> {"new", "in", "gone"}]
  BY DEF RegisterBreaks, TypeInv, WorldTypes
<1>3. Fail /\ UNCHANGED <<whole, changes>>
  BY DEF RegisterBreaks
<1> QED
  BY <1>1, <1>2, <1>3, FailTypes DEF TypeInv, PlainTypes

\* The epoch of a row is a number.
LEMMA EpochType ==
    ASSUME KernelTypes, NEW t \in DOMAIN arch
    PROVE  arch[t].epoch \in Nat /\ arch[t].launch \in Launches
<1>1. arch \in [1 .. Len(arch) -> Records]
  BY LenProperties DEF KernelTypes
<1>2. arch[t] \in Records
  BY <1>1
<1> QED
  BY <1>2 DEF Records

LEMMA RenewTypes ==
    ASSUME TypeInv, Renew
    PROVE  TypeInv'
<1> USE DEF TypeInv
<1>0. /\ pc = "poll" /\ now' = now + 1 /\ (file' = now + 1 \/ file' = file) /\ faults' \in Nat
      /\ whole' = FALSE /\ CancelAll /\ pending' = {} /\ epoch' = now + 1 /\ DropPending
      /\ pc' = "draining" /\ changes' = changes + 1
      /\ UNCHANGED <<worldVars, kmap, pk, inbox, arch, sess, revision, cacheVars, workers, answers,
                     rules, failed, snap, decided, batch, decisions, todo>>
  BY FaultCounts DEF Renew, Change
<1>1. KernelTypes' /\ pend' = {} /\ ready' = <<>> /\ left' \in Nat
  BY <1>0, DropPendingTypes
<1>2. WorldTypes'
  BY <1>0 DEF WorldTypes, worldVars
<1>3. AskTypes'
  BY <1>0, EmptySeq, FS_EmptySet DEF AskTypes, CancelAll, CancelQuestions
<1>4. PlainTypes'
  <2>1. round' = round + 1 /\ next' = next
    BY <1>0 DEF CancelAll, CancelQuestions, cacheVars
  <2>2. now' \in Nat /\ file' \in Nat /\ epoch' \in Nat /\ round' \in Nat /\ changes' \in Nat
    BY <1>0, <2>1 DEF PlainTypes
  <2>3. pc' \in Phases /\ whole' \in BOOLEAN
    BY <1>0 DEF Phases
  <2> QED
    BY <1>0, <1>1, <2>1, <2>2, <2>3 DEF PlainTypes
<1>5. HeldTypes'
  BY <1>0, <1>1, EmptySeq DEF HeldTypes, CancelAll, CancelQuestions
<1>6. CacheTypes'
  BY <1>0, SameCache DEF cacheVars
<1>7. CacheOrder'
  <2>1. \A t \in DOMAIN arch : arch[t].epoch \in Nat
    BY EpochType
  <2> QED
    BY <1>0, <2>1 DEF CacheOrder, cacheVars, PlainTypes
<1>8. KnownPackets'
  BY <1>0, <1>1 DEF KnownPackets, Range, Packets
<1> QED
  BY <1>1, <1>2, <1>3, <1>4, <1>5, <1>6, <1>7, <1>8

LEMMA SealFailsTypes ==
    ASSUME TypeInv, SealFails
    PROVE  TypeInv'
<1> USE DEF TypeInv
<1>1. PlainTypes'
  <2>1. now' = now + 1 /\ file' = now + 1 /\ changes' = changes + 1 /\ faults' = faults + 1
    BY DEF SealFails, Change, Fault
  <2>2. now' \in Nat /\ file' \in Nat /\ changes' \in Nat /\ faults' \in Nat
    BY <2>1 DEF PlainTypes
  <2>3. /\ whole' \in BOOLEAN
        /\ UNCHANGED <<sess, epoch, revision, next, round, left, todo, pc, failed>>
    BY DEF SealFails, turnVars, askerVars, cacheVars
  <2> QED
    BY <2>2, <2>3 DEF PlainTypes
<1>2. CacheOrder'
  <2>1. \A t \in DOMAIN arch : arch[t].epoch \in Nat
    BY EpochType
  <2> QED
    BY <2>1 DEF SealFails, CacheOrder, cacheVars, PlainTypes
<1> QED
  BY <1>1, <1>2, SameWorld, SameKernel, SameAsk, SameHeld, SameCache, SamePackets
     DEF SealFails, worldVars, kernelVars, turnVars, driverVars, askerVars, cacheVars, Packets

LEMMA DrainedTypes ==
    ASSUME TypeInv, Drained
    PROVE  TypeInv'
<1> USE DEF TypeInv
<1>1. todo' \in Seq(Records)
  <2>1. todo' \in Seq(Records \cap {m \in Range(arch) : m.epoch + 1 = now /\ life[m.launch] = "in"})
    BY OfThose DEF Drained, Enlisted, KernelTypes
  <2> QED
    BY <2>1, SeqMonotonic
<1>2. PlainTypes'
  BY <1>1 DEF Drained, PlainTypes, Phases, askerVars, cacheVars, outerVars, boundVars
<1>3. CacheOrder'
  BY DEF Drained, CacheOrder, cacheVars, outerVars
<1> QED
  BY <1>2, <1>3, SameWorld, SameKernel, SameAsk, SameHeld, SameCache, SamePackets
     DEF Drained, worldVars, kernelVars, driverVars, askerVars, cacheVars, Packets

LEMMA EnlistTypes ==
    ASSUME TypeInv, Enlist
    PROVE  TypeInv'
<1> USE DEF TypeInv
<1> DEFINE l == Head(todo).launch
<1>1. CASE Issuable
  <2>1. /\ Issue(l) /\ armed' = armed \cap Kept /\ order' = KeptOrder
        /\ todo' = Tail(todo) /\ todo # <<>> /\ pc = "enlisting"
        /\ UNCHANGED <<worldVars, kernelVars, sess, epoch, revision, driverVars, askerVars,
                       workers, answers, rules, pending, failed, pc, snap, decided, batch,
                       decisions, left, outerVars, boundVars>>
    BY <1>1 DEF Enlist
  <2>2. l \in Launches /\ todo' \in Seq(Records)
    <3>1. todo \in Seq(Records) /\ todo # <<>>
      BY <2>1 DEF PlainTypes
    <3>2. Head(todo) \in Records /\ Tail(todo) \in Seq(Records)
      BY <3>1, OfTail
    <3> QED
      BY <2>1, <3>2 DEF Records
  <2> HIDE DEF l, TypeInv
  <2>i. KernelTypes /\ CacheTypes /\ PlainTypes /\ CacheOrder
    BY DEF TypeInv
  <2>3. /\ next \notin DOMAIN arch /\ DOMAIN arch' = DOMAIN arch \cup {next}
        /\ arch' \in Seq(Records)
        /\ next' = Len(arch') + 1
        /\ arch'[next] = [launch |-> l, epoch |-> now]
        /\ \A t \in DOMAIN arch : arch'[t] = arch[t]
        /\ Kept \subseteq DOMAIN cache /\ DOMAIN cache \ Kept \subseteq Range(order)
        /\ DOMAIN cache' = Kept \cup {next} /\ \A t \in DOMAIN cache' : cache'[t] \in Records
        /\ KeptOrder \in Seq(Kept) /\ Once(KeptOrder)
        /\ Range(KeptOrder) = Range(order) \cap Kept
    BY <1>1, <2>1, <2>2, <2>i, Issued
  <2>n. arch'[next].epoch = now
    BY <2>3
  <2> USE DEF TypeInv
  <2>4. KernelTypes'
    BY <2>1, <2>3, MoreTokens DEF KernelTypes, kernelVars, driverVars
  <2>5. order' \in Seq(DOMAIN cache')
    BY <2>1, <2>3, SeqMonotonic
  <2>6. CacheTypes'
    BY <2>1, <2>3, <2>5 DEF CacheTypes
  <2>7. PlainTypes'
    <3>1. next' \in Nat
      BY <2>3, LenProperties
    <3> QED
      BY <2>1, <2>2, <3>1 DEF PlainTypes, askerVars, outerVars, boundVars
  <2>8. CacheOrder'
    <3> SUFFICES ASSUME NEW t \in DOMAIN arch'
                 PROVE  /\ arch'[t].epoch <= now
                        /\ arch'[t].epoch = now => t \in DOMAIN cache' /\ t \notin Range(order')
      BY <2>1, <2>3 DEF CacheOrder, outerVars
    <3>1. CASE t = next
      BY <2>1, <2>3, <2>n, <3>1 DEF CacheTypes, PlainTypes
    <3>2. CASE t \in DOMAIN arch
      BY <2>1, <2>3, <3>2 DEF CacheOrder
    <3> QED
      BY <2>3, <3>1, <3>2
  <2>9. WorldTypes' /\ AskTypes' /\ HeldTypes' /\ KnownPackets'
    BY <2>1, SameWorld, SameAsk, SameHeld, SamePackets
       DEF worldVars, askerVars, driverVars, kernelVars, Packets
  <2> QED
    BY <2>4, <2>6, <2>7, <2>8, <2>9
<1>2. CASE ~Issuable
  <2>1. Fail /\ UNCHANGED <<life, whole, boundVars>>
    BY <1>2 DEF Enlist
  <2> QED
    BY <2>1, FailTypes DEF WorldTypes, PlainTypes, boundVars
<1> QED
  BY <1>1, <1>2

LEMMA RenewedTypes ==
    ASSUME TypeInv, Renewed
    PROVE  TypeInv'
<1> USE DEF TypeInv
<1>1. /\ DOMAIN arch = 1 .. Len(arch) /\ Len(arch) \in Nat /\ NewMap \subseteq DOMAIN arch
      /\ NewMap \subseteq DOMAIN cache /\ NewMap \cap Range(order) = {}
  BY LenProperties DEF KernelTypes, NewMap, CacheOrder, Renewed
<1> DEFINE all == [i \in DOMAIN arch |-> i]
           new == Those(all, NewMap \ armed)
<1>2. all \in Seq(Nat) /\ Once(all) /\ Range(all) \subseteq Nat
  <2>1. all \in [1 .. Len(arch) -> Nat]
    BY <1>1
  <2>2. all \in Seq(Nat)
    BY <1>1, <2>1, SeqDef
  <2>3. Range(all) \subseteq Nat
    BY <2>2, OfRange
  <2>4. \A i \in DOMAIN all : all[i] = i
    OBVIOUS
  <2>5. Once(all)
    <3> HIDE DEF all
    <3> QED BY <2>4 DEF Once
  <2> QED
    BY <2>2, <2>3, <2>5
<1> HIDE DEF all
<1>3. new \in Seq(Nat) /\ Once(new) /\ Range(new) \subseteq NewMap
  <2>1. new \in Seq(Nat \cap (NewMap \ armed)) /\ Once(new)
        /\ Range(new) = Range(all) \cap (NewMap \ armed)
    BY <1>2, OfThose
  <2>2. Nat \cap (NewMap \ armed) \subseteq Nat
    OBVIOUS
  <2> HIDE DEF new
  <2> QED
    BY <2>1, <2>2, SeqMonotonic
<1> HIDE DEF new
<1>4. new \in Seq(DOMAIN cache)
  BY <1>1, <1>3, OfRange
<1>5. /\ kmap' = NewMap /\ armed' = armed \cup NewMap /\ order' = order \o new
      /\ whole' = TRUE /\ pc' = "poll"
      /\ UNCHANGED <<worldVars, pk, inbox, outbox, arch, sess, epoch, revision, next, cache,
                     driverVars, askerVars, workers, answers, rules, pending, failed, turnVars,
                     now, file, boundVars>>
  BY DEF Renewed, new, all
<1>6. order' \in Seq(DOMAIN cache) /\ Once(order')
  BY <1>1, <1>3, <1>4, <1>5, OfConcat DEF CacheTypes, CacheOrder
<1>7. CacheTypes' /\ CacheOrder'
  BY <1>1, <1>5, <1>6 DEF CacheTypes, CacheOrder
<1>8. KernelTypes'
  BY <1>1, <1>5, MoreTokens DEF KernelTypes, driverVars
<1>9. PlainTypes'
  BY <1>5 DEF PlainTypes, Phases, turnVars, askerVars, boundVars
<1> QED
  BY <1>5, <1>7, <1>8, <1>9, SameWorld, SameAsk, SameHeld, SamePackets
     DEF worldVars, turnVars, driverVars, askerVars, Packets

LEMMA RotateTypes ==
    ASSUME TypeInv, Rotate
    PROVE  TypeInv'
<1> USE DEF TypeInv
<1>0. /\ pc = "poll" /\ CancelQuestions /\ pending' = {} /\ Close /\ sess' = sess + 1
      /\ epoch' = file /\ next' = Len(arch) + 1
      /\ cache' = [t \in {} |-> {}] /\ armed' = {} /\ order' = <<>>
      /\ changes' = changes + 1
      /\ UNCHANGED <<worldVars, kmap, arch, revision, workers, answers, rules, failed, pc, turnVars,
                     outerVars, faults>>
  BY DEF Rotate, Change, FirstToken
<1>1. KernelTypes' /\ Packets' = Packets
  BY <1>0, CloseKernel
<1>2. WorldTypes'
  BY <1>0 DEF WorldTypes, worldVars, turnVars
<1>3. DOMAIN grants' \subseteq Scopes /\ \A s \in DOMAIN grants' : grants'[s] \in BOOLEAN
  <2> DEFINE moved(r) == [r EXCEPT !.session = sess + 1]
  <2>1. grants' = [s \in {moved(r) : r \in Rebound} |-> grants[[s EXCEPT !.session = sess]]]
    BY DEF Rotate
  <2>2. ASSUME NEW r \in Rebound
        PROVE  moved(r) \in Scopes /\ grants[[moved(r) EXCEPT !.session = sess]] \in BOOLEAN
    <3>1. r \in Scopes /\ r \in DOMAIN grants /\ r.session = sess
      BY DEF Rebound, AskTypes
    <3>2. [moved(r) EXCEPT !.session = sess] = r
      BY <3>1 DEF Scopes
    <3>3. moved(r) \in Scopes
      BY <3>1 DEF Scopes, PlainTypes
    <3> QED
      BY <3>1, <3>2, <3>3 DEF AskTypes
  <2> QED
    BY <2>1, <2>2
<1>4. AskTypes'
  BY <1>0, <1>3, EmptySeq, FS_EmptySet DEF AskTypes, CancelQuestions
<1>5. PlainTypes'
  BY <1>0, LenProperties DEF PlainTypes, KernelTypes, CancelQuestions, turnVars, outerVars
<1>6. HeldTypes'
  BY <1>0, EmptySeq DEF HeldTypes, Close, CancelQuestions, turnVars
<1>7. CacheTypes'
  BY <1>0, EmptySeq DEF CacheTypes
<1>8. CacheOrder'
  BY <1>0 DEF CacheOrder, Once, outerVars
<1>9. KnownPackets'
  BY <1>0, <1>1 DEF KnownPackets, Close, Range, turnVars
<1> QED
  BY <1>1, <1>2, <1>4, <1>5, <1>6, <1>7, <1>8, <1>9

---------------------------------------------------------------------------
LEMMA NextTypes ==
    ASSUME TypeInv, [Next]_vars
    PROVE  TypeInv'
<1>1. CASE UNCHANGED vars
  <2>1. PlainTypes'
    BY <1>1 DEF vars, TypeInv, PlainTypes, turnVars, askerVars, cacheVars, outerVars, boundVars
  <2> QED
    BY <1>1, <2>1, SameWorld, SameKernel, SameAsk, SameHeld, SameCache, SameOrder, SamePackets
       DEF vars, TypeInv, worldVars, kernelVars, turnVars, driverVars, askerVars, cacheVars,
           outerVars, Packets
<1>2. CASE Kernel
  BY <1>2, OfferTypes, ApplyTypes DEF Kernel
<1>3. CASE World
  BY <1>3, WorldStepTypes
<1>4. CASE Turn
  BY <1>4, QuietTypes, ChangePolicyTypes, MessageTypes, BreakTypes, TakeAnswerTypes, AnsweredTypes,
     TellTypes, EndIntakeTypes, DecideTypes, DecideRoundTypes DEF Turn
<1>5. CASE Keeper
  BY <1>5, RegisterTypes, RegisterBreaksTypes, RenewTypes, SealFailsTypes, DrainedTypes, EnlistTypes,
     RenewedTypes, BreakTypes, RotateTypes DEF Keeper
<1> QED
  BY <1>1, <1>2, <1>3, <1>4, <1>5 DEF Next

\* TypeOK, and the order of the tokens that it needs, in every state of every
\* behaviour.
THEOREM TypeCorrect == Spec => [](TypeOK /\ TypeInv)
<1>1. Init => TypeInv
  BY InitTypes
<1>2. TypeInv /\ [Next]_vars => TypeInv'
  BY NextTypes
<1>3. TypeInv => TypeOK
  BY TypeInvTypes
<1> QED
  BY <1>1, <1>2, <1>3, PTL DEF Spec

---------------------------------------------------------------------------
(* The steps, but for those that close the network. *)

LEMMA Steps ==
    ASSUME Next, ~Fail
    PROVE  \/ \E t \in kmap : Offer(t)
           \/ \E v \in outbox : Apply(v)
           \/ World
           \/ Begin \/ ChangePolicy \/ PolicyChanged
           \/ FlushOne \/ IntakeOne
           \/ \E a \in answers : Stale(a)
           \/ \E a \in answers : TakeAnswer(a)
           \/ Answered \/ (\E d \in decided : Tell(d)) \/ Told
           \/ StartIntake \/ EndIntake \/ Decide \/ DecideRound
           \/ \E l \in Launches : Register(l)
           \/ Renew \/ SealFails \/ Drained \/ Enlist \/ Renewed
           \/ Rotate
  BY DEF Next, Kernel, Turn, Keeper, FlushBreaks, IntakeBreaks, RegisterBreaks, RenewBreaks,
         RotateBreaks, Broken

\* The steps that write none of the tickets' places.
HandsLie ==
    \/ \E t \in kmap : Offer(t)
    \/ \E v \in outbox : Apply(v)
    \/ World
    \/ Begin \/ PolicyChanged \/ (\E a \in answers : Stale(a)) \/ Answered \/ Told \/ StartIntake
    \/ \E l \in Launches : Register(l)
    \/ SealFails \/ Drained \/ Enlist \/ Renewed

LEMMA HandsStay ==
    ASSUME HandsLie, ~Fail
    PROVE  /\ UNCHANGED <<pend, pending, waiting, ready, batch, decided, decisions>>
           /\ UNCHANGED <<sess, epoch, revision>>
<1> USE DEF worldVars, kernelVars, cacheVars, driverVars, askerVars, turnVars, outerVars, boundVars
<1>1. ASSUME NEW t \in kmap, Offer(t)
      PROVE  UNCHANGED <<pend, pending, waiting, ready, batch, decided, decisions, sess, epoch, revision>>
  BY <1>1 DEF Offer
<1>2. ASSUME NEW v \in outbox, Apply(v)
      PROVE  UNCHANGED <<pend, pending, waiting, ready, batch, decided, decisions, sess, epoch, revision>>
  BY <1>2 DEF Apply
<1>3. ASSUME World
      PROVE  UNCHANGED <<pend, pending, waiting, ready, batch, decided, decisions, sess, epoch, revision>>
  BY <1>3 DEF World, Edit, Answer, Ends
<1>4. ASSUME Begin \/ PolicyChanged \/ (\E a \in answers : Stale(a)) \/ Answered \/ Told \/ StartIntake
      PROVE  UNCHANGED <<pend, pending, waiting, ready, batch, decided, decisions, sess, epoch, revision>>
  BY <1>4 DEF Begin, PolicyChanged, Stale, Answered, Told, StartIntake
<1>5. ASSUME NEW l \in Launches, Register(l)
      PROVE  UNCHANGED <<pend, pending, waiting, ready, batch, decided, decisions, sess, epoch, revision>>
  BY <1>5 DEF Register
<1>6. ASSUME SealFails \/ Drained \/ Enlist \/ Renewed
      PROVE  UNCHANGED <<pend, pending, waiting, ready, batch, decided, decisions, sess, epoch, revision>>
  BY <1>6 DEF SealFails, Drained, Enlist, Renewed
<1> QED
  BY <1>1, <1>2, <1>3, <1>4, <1>5, <1>6 DEF HandsLie

\* The archive only grows.
LEMMA RowsStay ==
    ASSUME TypeInv, Next
    PROVE  DOMAIN arch \subseteq DOMAIN arch' /\ \A t \in DOMAIN arch : arch'[t] = arch[t]
<1> USE DEF kernelVars, cacheVars, driverVars, askerVars, turnVars, outerVars, boundVars
<1>1. CASE Fail
  BY <1>1 DEF Fail
<1>2. ASSUME NEW l \in Launches, Register(l), ~Fail
      PROVE  arch' = arch \/ (Issuable /\ Issue(l))
  BY <1>2 DEF Register
<1>3. ASSUME Enlist, ~Fail
      PROVE  \E l \in Launches : Issuable /\ Issue(l)
  <2>1. Issuable /\ Issue(Head(todo).launch) /\ todo # <<>> /\ todo \in Seq(Records)
    BY <1>3 DEF Enlist, TypeInv, PlainTypes
  <2>2. Head(todo) \in Records
    BY <2>1, OfTail
  <2> QED
    BY <2>1, <2>2 DEF Records
<1>4. ASSUME NEW l \in Launches, Issuable, Issue(l)
      PROVE  DOMAIN arch \subseteq DOMAIN arch' /\ \A t \in DOMAIN arch : arch'[t] = arch[t]
  BY <1>4, Issued DEF TypeInv
<1>5. (\E t \in kmap : Offer(t)) \/ (\E v \in outbox : Apply(v)) => arch' = arch
  BY DEF Offer, Apply
<1>6. World => arch' = arch
  BY DEF World, Edit, Answer, Ends
<1>7. Begin \/ ChangePolicy \/ PolicyChanged \/ FlushOne \/ IntakeOne \/ Answered \/ Told => arch' = arch
  BY DEF Begin, ChangePolicy, PolicyChanged, FlushOne, IntakeOne, Answered, Told
<1>8. ASSUME NEW a \in answers, Stale(a) \/ TakeAnswer(a)
      PROVE  arch' = arch
  BY <1>8 DEF Stale, TakeAnswer
<1>9. ASSUME NEW d \in decided, Tell(d), ~Fail
      PROVE  arch' = arch
  BY <1>9 DEF Tell
<1>10. StartIntake \/ EndIntake \/ Decide => arch' = arch
  BY DEF StartIntake, EndIntake, Decide
<1>11. DecideRound /\ ~Fail => arch' = arch
  BY DEF DecideRound
<1>12. Renew \/ SealFails \/ Drained \/ Renewed \/ Rotate => arch' = arch
  BY DEF Renew, SealFails, Drained, Renewed, Rotate
<1>13. CASE ~Fail
  <2>1. arch' = arch \/ \E l \in Launches : Issuable /\ Issue(l)
    BY <1>2, <1>3, <1>5, <1>6, <1>7, <1>8, <1>9, <1>10, <1>11, <1>12, <1>13, Steps
  <2> QED
    BY <2>1, <1>4
<1> QED
  BY <1>1, <1>13

LEMMA PacketType ==
    ASSUME TypeInv, NEW p \in Packets
    PROVE  pk[p] \in PacketTypes /\ pk[p].token \in DOMAIN arch
<1>1. pk \in Seq(PacketTypes) /\ p \in 1 .. Len(pk)
  BY LenProperties DEF TypeInv, KernelTypes, PacketTypes, Packets
<1>2. pk[p] \in PacketTypes
  BY <1>1, ElementOfSeq
<1> QED
  BY <1>2 DEF PacketTypes

\* A packet keeps its token, and one that is let out was, or is by a verdict
\* that allows it.
LEMMA PacketsStay ==
    ASSUME TypeInv, Next
    PROVE  /\ Packets \subseteq Packets'
           /\ \A p \in Packets : pk'[p].token = pk[p].token
           /\ \A p \in Packets' : pk'[p].st = "passed" =>
                \/ p \in Packets /\ pk'[p] = pk[p]
                \/ \E v \in outbox : p \in Packets /\ v.packet = p /\ v.allow /\ pk'[p].by = v.scope
           /\ \A p \in Packets : pk'[p].st = "held" => pk[p].st = "held"
<1> USE DEF worldVars, kernelVars, cacheVars, driverVars, askerVars, turnVars, outerVars, boundVars
<1>0. /\ pk \in Seq(PacketTypes) /\ Len(pk) \in Nat /\ Packets = 1 .. Len(pk)
      /\ \A p \in Packets : pk[p] \in PacketTypes
  BY LenProperties, ElementOfSeq DEF TypeInv, KernelTypes, PacketTypes, Packets
<1>1. ASSUME Close
      PROVE  /\ Packets' = Packets
             /\ \A p \in Packets : /\ pk'[p].token = pk[p].token
                                   /\ pk'[p].st = "passed" => pk'[p] = pk[p]
                                   /\ pk'[p].st # "held"
  BY <1>0, <1>1 DEF Close, Packets, PacketTypes
<1>2. CASE Fail \/ Rotate
  BY <1>1, <1>2 DEF Fail, Rotate
<1>3. ASSUME NEW t \in kmap, Offer(t)
      PROVE  /\ Packets' = Packets \cup {Len(pk) + 1}
             /\ \A p \in Packets : pk'[p] = pk[p]
             /\ pk'[Len(pk) + 1].st = "held"
  <2> DEFINE new == [token |-> t, st |-> "held", by |-> NoScope]
  <2>1. new \in PacketTypes /\ new.st = "held"
    BY DEF TypeInv, KernelTypes, PacketTypes, NoScope, Scopes
  <2> HIDE DEF new
  <2>2. /\ pk' \in Seq(PacketTypes) /\ Len(pk') = Len(pk) + 1
        /\ \A i \in 1 .. Len(pk) : pk'[i] = pk[i]
        /\ pk'[Len(pk) + 1] = new
    BY <1>0, <1>3, <2>1, AppendProperties DEF Offer, new
  <2>3. DOMAIN pk' = 1 .. Len(pk) + 1
    BY <2>2, LenProperties
  <2> QED
    BY <1>0, <2>1, <2>2, <2>3 DEF Packets
<1>4. ASSUME NEW v \in outbox, Apply(v)
      PROVE  /\ Packets' = Packets /\ v.packet \in Packets
             /\ \A p \in Packets : p # v.packet => pk'[p] = pk[p]
             /\ pk'[v.packet].token = pk[v.packet].token
             /\ pk'[v.packet] = pk[v.packet] \/ pk'[v.packet].st # "held"
             /\ pk'[v.packet].st = "passed" =>
                   \/ pk'[v.packet] = pk[v.packet]
                   \/ v.allow /\ pk'[v.packet].by = v.scope
  BY <1>4, Applied DEF TypeInv, Packets
<1>5. World \/ Begin \/ ChangePolicy \/ PolicyChanged \/ Answered \/ Told => pk' = pk
  BY DEF World, Edit, Answer, Ends, Begin, ChangePolicy, PolicyChanged, Answered, Told
<1>6. FlushOne \/ IntakeOne => pk' = pk
  BY DEF FlushOne, IntakeOne, Hear, HearAck, HearPacket
<1>7. ASSUME NEW a \in answers, Stale(a) \/ TakeAnswer(a)
      PROVE  pk' = pk
  BY <1>7 DEF Stale, TakeAnswer
<1>8. ASSUME NEW d \in decided, Tell(d), ~Fail
      PROVE  pk' = pk
  BY <1>8 DEF Tell
<1>9. StartIntake \/ EndIntake \/ Decide => pk' = pk
  BY DEF StartIntake, EndIntake, Decide
<1>10. DecideRound /\ ~Fail => pk' = pk
  BY DEF DecideRound
<1>11. ASSUME NEW l \in Launches, Register(l), ~Fail
       PROVE  pk' = pk
  BY <1>11 DEF Register
<1>12. Renew \/ SealFails \/ Drained \/ Renewed => pk' = pk
  BY DEF Renew, SealFails, Drained, Renewed
<1>13. Enlist /\ ~Fail => pk' = pk
  BY DEF Enlist
<1>14. CASE \E t \in kmap : Offer(t)
  BY <1>0, <1>3, <1>14
<1>15. CASE \E v \in outbox : Apply(v)
  BY <1>4, <1>15
<1>16. CASE pk' = pk
  BY <1>16 DEF Packets
<1> QED
  BY <1>2, <1>5, <1>6, <1>7, <1>8, <1>9, <1>10, <1>11, <1>12, <1>13, <1>14, <1>15, <1>16, Steps

---------------------------------------------------------------------------
(* Tickets. *)

\* What memory has of a token is what the archive has.
Launched == \A t \in DOMAIN cache : cache[t].launch = arch[t].launch

\* A ticket is of the packet its token marked, of that token's launch, and of
\* now.
Rightful(h) ==
    /\ h.packet \in Packets
    /\ h.scope.token = pk[h.packet].token
    /\ h.launch = arch[h.scope.token].launch
    /\ Current(h.scope)
Hands == pend \cup pending \cup waiting \cup Range(ready) \cup Range(batch)
         \cup {d.held : d \in decided} \cup {d.held : d \in decisions}

\* Which tickets there are where in a turn.
InPhase ==
    /\ decided # {} => pc \in {"answers", "verdicts", "telling"}
    /\ batch # <<>> \/ decisions # {} => pc = "asking"

TicketInv == Launched /\ (\A h \in Hands : Rightful(h)) /\ InPhase

LEMMA InitTickets == Init => TicketInv
  BY DEF Init, TicketInv, Launched, Hands, InPhase, Range

\* What memory has stays what the archive has.
LEMMA LaunchedStays ==
    ASSUME TypeInv, Launched, Next
    PROVE  Launched'
<1> USE DEF worldVars, kernelVars, cacheVars, driverVars, askerVars, turnVars, outerVars, boundVars
<1>1. DOMAIN arch \subseteq DOMAIN arch' /\ \A t \in DOMAIN arch : arch'[t] = arch[t]
  BY RowsStay
<1>2. ASSUME cache' = cache
      PROVE  Launched'
  BY <1>1, <1>2 DEF Launched, TypeInv, CacheTypes
<1>3. ASSUME CacheRoom
      PROVE  Kept \subseteq DOMAIN cache
  BY <1>3, Forgetting DEF TypeInv, CacheTypes, CacheOrder
<1>4. ASSUME NEW l \in Launches, Issuable, Issue(l)
      PROVE  Launched'
  <2>1. /\ cache' = CacheWith(next, [launch |-> l, epoch |-> epoch])
        /\ arch'[next] = [launch |-> l, epoch |-> now] /\ next \notin DOMAIN arch
    BY <1>4, Issued DEF Issue, TypeInv
  <2>2. Kept \subseteq DOMAIN cache
    BY <1>3, <1>4 DEF Issuable
  <2>3. arch'[next].launch = l
    BY <2>1
  <2> QED
    BY <1>1, <2>1, <2>2, <2>3 DEF Launched, CacheWith, TypeInv, CacheTypes
<1>5. ASSUME HearPacket, arch' = arch
      PROVE  Launched'
  <2> DEFINE t == pk[Head(inbox).packet].token
  <2>1. CASE Restorable(t)
    <3>1. cache' = CacheWith(t, arch[t]) /\ CacheRoom
      BY <1>5, <2>1 DEF HearPacket
    <3> HIDE DEF t
    <3> QED
      BY <1>3, <1>5, <3>1 DEF Launched, CacheWith
  <2>2. CASE ~Restorable(t)
    BY <1>2, <1>5, <2>2 DEF HearPacket
  <2> QED
    BY <2>1, <2>2
<1>6. ASSUME FlushOne \/ IntakeOne
      PROVE  Launched'
  <2>1. (HearAck \/ HearPacket) /\ arch' = arch
    BY <1>6 DEF FlushOne, IntakeOne, Hear
  <2> QED
    BY <1>2, <1>5, <2>1 DEF HearAck
<1>7. CASE Fail
  BY <1>2, <1>7 DEF Fail
<1>8. ASSUME NEW l \in Launches, Register(l), ~Fail
      PROVE  Launched'
  BY <1>2, <1>4, <1>8 DEF Register
<1>9. ASSUME Enlist, ~Fail
      PROVE  Launched'
  <2>1. Issuable /\ Issue(Head(todo).launch) /\ todo # <<>> /\ todo \in Seq(Records)
    BY <1>9 DEF Enlist, TypeInv, PlainTypes
  <2>2. Head(todo) \in Records
    BY <2>1, OfTail
  <2>3. Head(todo).launch \in Launches
    BY <2>2 DEF Records
  <2> QED
    BY <1>4, <2>1, <2>3
<1>10. Rotate => Launched'
  BY DEF Rotate, Launched
<1>11. (\E t \in kmap : Offer(t)) \/ (\E v \in outbox : Apply(v)) => cache' = cache
  BY DEF Offer, Apply
<1>12. World \/ Begin \/ ChangePolicy \/ PolicyChanged \/ Answered \/ Told => cache' = cache
  BY DEF World, Edit, Answer, Ends, Begin, ChangePolicy, PolicyChanged, Answered, Told
<1>13. ASSUME NEW a \in answers, Stale(a) \/ TakeAnswer(a)
      PROVE  cache' = cache
  BY <1>13 DEF Stale, TakeAnswer
<1>14. ASSUME NEW d \in decided, Tell(d), ~Fail
      PROVE  cache' = cache
  BY <1>14 DEF Tell
<1>15. StartIntake \/ EndIntake \/ Decide => cache' = cache
  BY DEF StartIntake, EndIntake, Decide
<1>16. DecideRound /\ ~Fail => cache' = cache
  BY DEF DecideRound
<1>17. Renew \/ SealFails \/ Drained \/ Renewed => cache' = cache
  BY DEF Renew, SealFails, Drained, Renewed
<1> QED
  BY <1>2, <1>6, <1>7, <1>8, <1>9, <1>10, <1>11, <1>12, <1>13, <1>14, <1>15, <1>16, <1>17, Steps

\* A ticket that is rightful is as long as the queue, epoch and revision are.
LEMMA RightfulStays ==
    ASSUME TypeInv, Next, UNCHANGED <<sess, epoch, revision>>, NEW h, Rightful(h)
    PROVE  Rightful(h)'
<1>1. h.packet \in Packets' /\ pk'[h.packet].token = pk[h.packet].token
  BY PacketsStay DEF Rightful
<1>2. pk[h.packet].token \in DOMAIN arch
  BY PacketType DEF Rightful
<1>3. arch'[pk[h.packet].token] = arch[pk[h.packet].token]
  BY <1>2, RowsStay
<1> QED
  BY <1>1, <1>3 DEF Rightful, Current, Scope

\* The ticket of a packet that is heard: its token's launch is the one that
\* memory, or the archive, has.
LEMMA HeardTicket ==
    ASSUME TypeInv, Launched, HearPacket, inbox # <<>>,
           UNCHANGED <<arch, sess, epoch, revision>>
    PROVE  /\ inbox' = Tail(inbox) /\ Head(inbox).kind = "packet" /\ Head(inbox).packet \in Packets
           /\ pk' = pk
           /\ \/ \E h \in Tickets :
                    /\ Rightful(h)' /\ h.packet = Head(inbox).packet
                    /\ pend' = pend \cup {h} /\ ready' = Append(ready, h)
                    /\ UNCHANGED <<outbox, acks>>
              \/ /\ UNCHANGED <<pend, ready>>
                 /\ Send({DropOf(Head(inbox).packet)})
<1> DEFINE m == Head(inbox)
           t == pk[m.packet].token
           back == Restorable(t)
           c == IF back THEN CacheWith(t, arch[t]) ELSE cache
           a == IF back THEN (armed \cap Kept) \cup {t} ELSE armed
           h == [packet |-> m.packet, scope |-> Scope(t), launch |-> c[t].launch]
<1>1. m \in [kind : {"packet", "ack"}, packet : Packets, ok : BOOLEAN]
  BY OfTail DEF TypeInv, KernelTypes
<1>2. m.packet \in Packets /\ t \in DOMAIN arch
  <2>1. m.packet \in Packets /\ DOMAIN pk = 1 .. Len(pk)
    BY <1>1, LenProperties DEF TypeInv, KernelTypes
  <2>2. pk[m.packet] \in PacketTypes
    BY <2>1, ElementOfSeq DEF TypeInv, KernelTypes, PacketTypes, Packets
  <2> QED
    BY <2>1, <2>2 DEF PacketTypes
<1>3. inbox' = Tail(inbox) /\ m.kind = "packet" /\ pk' = pk /\ UNCHANGED <<kmap, next>>
  BY DEF HearPacket
<1>4. \/ /\ t \in DOMAIN c
         /\ pend' = pend \cup {h} /\ ready' = Append(ready, h) /\ UNCHANGED <<outbox, acks>>
      \/ UNCHANGED <<pend, ready>> /\ Send({DropOf(m.packet)})
  BY DEF HearPacket, Unwanted, Authentic
<1>5. ASSUME t \in DOMAIN c
      PROVE  c[t].launch = arch[t].launch
  <2>1. CASE back
    BY <2>1 DEF CacheWith
  <2>2. CASE ~back
    BY <1>5, <2>2 DEF Launched
  <2> QED
    BY <2>1, <2>2
<1>6. t \in Nat /\ arch[t].launch \in Launches
  BY <1>2, EpochType, LenProperties DEF TypeInv, KernelTypes
<1>7. m.packet \in Nat \ {0}
  BY <1>2, LenProperties DEF TypeInv, KernelTypes, Packets
<1>8. Scope(t) \in Scopes
  BY <1>6, ScopeType DEF TypeInv
<1>9. ASSUME t \in DOMAIN c, NEW k, k = h
      PROVE  k \in Tickets /\ Rightful(k)' /\ k.packet = m.packet
  <2>1. c[t].launch = arch[t].launch
    BY <1>5, <1>9
  <2> HIDE DEF c, m
  <2>2. k \in Tickets
    BY <1>6, <1>7, <1>8, <1>9, <2>1 DEF Tickets
  <2>3. k.packet = m.packet /\ k.scope = Scope(t) /\ k.launch = arch[t].launch /\ k.scope.token = t
    BY <1>9, <2>1 DEF Scope
  <2>4. k.packet \in Packets' /\ k.scope.token = pk'[k.packet].token
    BY <1>2, <1>3, <2>3 DEF Packets
  <2>5. Current(k.scope)'
    BY <2>3 DEF Current, Scope
  <2>6. k.launch = arch'[k.scope.token].launch
    BY <2>3
  <2> QED
    BY <2>2, <2>3, <2>4, <2>5, <2>6 DEF Rightful
<1>10. CASE /\ t \in DOMAIN c
            /\ pend' = pend \cup {h} /\ ready' = Append(ready, h) /\ UNCHANGED <<outbox, acks>>
  <2>1. PICK k : k = h
    OBVIOUS
  <2> HIDE DEF h
  <2>2. k \in Tickets /\ Rightful(k)' /\ k.packet = m.packet
    BY <1>9, <1>10, <2>1
  <2>3. pend' = pend \cup {k} /\ ready' = Append(ready, k) /\ UNCHANGED <<outbox, acks>>
    BY <1>10, <2>1
  <2> QED
    BY <1>2, <1>3, <2>2, <2>3
<1>11. CASE UNCHANGED <<pend, ready>> /\ Send({DropOf(m.packet)})
  BY <1>2, <1>3, <1>11
<1> QED
  BY <1>4, <1>10, <1>11

LEMMA Reading ==
    ASSUME FlushOne \/ IntakeOne
    PROVE  /\ inbox # <<>> /\ (HearAck \/ HearPacket)
           /\ UNCHANGED <<arch, sess, epoch, revision, pending, waiting, batch, decided, decisions, pc>>
           /\ UNCHANGED <<worldVars, rules, snap, failed, round, open, queue, grants, workers, answers, todo, now, file, whole>>
  BY DEF FlushOne, IntakeOne, Hear, askerVars, outerVars

\* Where those steps take the keeper.
Moves ==
    \/ pc' = pc
    \/ pc = "poll" /\ pc' = "answers"
    \/ pc = "barrier" /\ pc' = "answers"
    \/ pc = "answers" /\ pc' = "verdicts"
    \/ pc = "telling" /\ pc' = "verdicts"
    \/ pc = "verdicts" /\ pc' = "intake" /\ decided = {}
    \/ pc = "draining" /\ pc' = "enlisting"
    \/ pc = "enlisting" /\ pc' = "poll"

LEMMA MovesLie ==
    ASSUME HandsLie, ~Fail
    PROVE  Moves
<1> USE DEF worldVars, kernelVars, cacheVars, driverVars, askerVars, turnVars, outerVars, boundVars
<1>1. (\E t \in kmap : Offer(t)) \/ (\E v \in outbox : Apply(v)) => pc' = pc
  BY DEF Offer, Apply
<1>2. World \/ (\E a \in answers : Stale(a)) \/ SealFails => pc' = pc
  BY DEF World, Edit, Answer, Ends, Stale, SealFails
<1>3. (\E l \in Launches : Register(l)) /\ ~Fail => pc' = pc
  BY DEF Register
<1>4. Enlist /\ ~Fail => pc' = pc
  BY DEF Enlist
<1>5. Begin => pc = "poll" /\ pc' = "answers"
  BY DEF Begin
<1>6. PolicyChanged => pc = "barrier" /\ pc' = "answers"
  BY DEF PolicyChanged
<1>7. Answered => pc = "answers" /\ pc' = "verdicts"
  BY DEF Answered
<1>8. Told => pc = "telling" /\ pc' = "verdicts"
  BY DEF Told
<1>9. StartIntake => pc = "verdicts" /\ pc' = "intake" /\ decided = {}
  BY DEF StartIntake
<1>10. Drained => pc = "draining" /\ pc' = "enlisting"
  BY DEF Drained
<1>11. Renewed => pc = "enlisting" /\ pc' = "poll"
  BY DEF Renewed
<1> QED
  BY <1>1, <1>2, <1>3, <1>4, <1>5, <1>6, <1>7, <1>8, <1>9, <1>10, <1>11 DEF HandsLie, Moves

LEMMA NextTickets ==
    ASSUME TypeInv, TicketInv, Next
    PROVE  TicketInv'
<1> USE DEF worldVars, kernelVars, cacheVars, driverVars, askerVars, turnVars, outerVars, boundVars
<1>1. Launched'
  BY LaunchedStays DEF TicketInv
<1>2. ASSUME Hands' \subseteq Hands, UNCHANGED <<sess, epoch, revision>>
      PROVE  \A h \in Hands' : Rightful(h)'
  BY <1>2, RightfulStays DEF TicketInv
<1>3. InPhase /\ \A h \in Hands : Rightful(h)
  BY DEF TicketInv
<1>4. CASE Fail
  BY <1>1, <1>4 DEF Fail, Close, CancelAll, CancelQuestions, TicketInv, Hands, InPhase, Range
<1>5. CASE HandsLie /\ ~Fail
  <2>1. /\ UNCHANGED <<pend, pending, waiting, ready, batch, decided, decisions>>
        /\ UNCHANGED <<sess, epoch, revision>>
    BY <1>5, HandsStay
  <2>2. Hands' = Hands
    BY <2>1 DEF Hands, Range
  <2>3. Moves
    BY <1>5, MovesLie
  <2>4. InPhase'
    BY <1>3, <2>1, <2>3 DEF InPhase, Moves
  <2> QED
    BY <1>1, <1>2, <2>1, <2>2, <2>4 DEF TicketInv
<1>6. CASE ChangePolicy \/ Renew
  <2>1. /\ pend' = {} /\ pending' = {} /\ waiting' = {} /\ ready' = <<>> /\ pc = "poll"
        /\ UNCHANGED <<batch, decided, decisions>>
    BY <1>6 DEF ChangePolicy, Renew, DropPending, CancelAll, CancelQuestions
  <2>2. batch = <<>> /\ decided = {} /\ decisions = {}
    BY <1>3, <2>1 DEF InPhase
  <2> QED
    BY <1>1, <2>1, <2>2 DEF TicketInv, Hands, InPhase, Range
<1>7. CASE Rotate
  <2>1. /\ pend' = {} /\ pending' = {} /\ waiting' = {} /\ ready' = <<>> /\ pc = "poll"
        /\ UNCHANGED <<batch, decided, decisions>>
    BY <1>7 DEF Rotate, Close, CancelQuestions
  <2>2. batch = <<>> /\ decided = {} /\ decisions = {}
    BY <1>3, <2>1 DEF InPhase
  <2> QED
    BY <1>1, <2>1, <2>2 DEF TicketInv, Hands, InPhase, Range
<1>8. CASE FlushOne \/ IntakeOne
  <2>1. /\ inbox # <<>> /\ (HearAck \/ HearPacket)
        /\ UNCHANGED <<arch, sess, epoch, revision, pending, waiting, batch, decided, decisions, pc>>
    BY <1>8, Reading
  <2>2. InPhase'
    BY <1>3, <2>1 DEF InPhase
  <2>3. CASE UNCHANGED <<pend, ready>>
    <3>1. Hands' = Hands
      BY <2>1, <2>3 DEF Hands, Range
    <3> QED
      BY <1>1, <1>2, <2>1, <2>2, <3>1 DEF TicketInv
  <2>4. ASSUME NEW h \in Tickets, Rightful(h)', pend' = pend \cup {h}, ready' = Append(ready, h)
        PROVE  TicketInv'
    <3>1. Range(ready') = Range(ready) \cup {h}
      BY <2>4, OfAppend DEF TypeInv, HeldTypes
    <3>2. Hands' = Hands \cup {h}
      BY <2>1, <2>4, <3>1 DEF Hands, Range
    <3>3. ASSUME NEW k \in Hands PROVE Rightful(k)'
      BY <1>3, <2>1, RightfulStays
    <3> QED
      BY <1>1, <2>2, <2>4, <3>2, <3>3 DEF TicketInv
  <2>5. HearAck => UNCHANGED <<pend, ready>>
    BY DEF HearAck
  <2> QED
    BY <2>1, <2>3, <2>4, <2>5, HeardTicket DEF TicketInv
<1>9. ASSUME NEW a \in answers, TakeAnswer(a)
      PROVE  TicketInv'
  <2>1. /\ UNCHANGED <<sess, epoch, revision, pend, pending, ready, batch, decisions, pc>>
        /\ waiting' \subseteq waiting
        /\ pc = "answers"
    BY <1>9 DEF TakeAnswer
  <2>2. PICK verdict : decided' = decided \cup {[held |-> h, allow |-> verdict] : h \in {k \in waiting : k.scope = a.scope}}
    BY <1>9 DEF TakeAnswer
  <2>3. {d.held : d \in decided'} \subseteq {d.held : d \in decided} \cup waiting
    BY <2>2
  <2>4. Hands' \subseteq Hands
    BY <2>1, <2>3 DEF Hands, Range
  <2>5. InPhase'
    BY <1>3, <2>1 DEF InPhase
  <2> QED
    BY <1>1, <1>2, <2>1, <2>4, <2>5 DEF TicketInv
<1>10. ASSUME NEW d \in decided, Tell(d), ~Fail
       PROVE  TicketInv'
  <2>1. /\ UNCHANGED <<sess, epoch, revision, waiting, batch, decisions>>
        /\ decided' = decided \ {d} /\ pending' = pending \ {d.held} /\ pend' = pend \ {d.held}
        /\ ready' = Without({d.held}) /\ pc' = "telling" /\ pc = "verdicts"
    BY <1>10 DEF Tell
  <2>2. Range(ready') \subseteq Range(ready)
    BY <2>1, WithoutTypes DEF TypeInv
  <2>3. Hands' \subseteq Hands
    BY <2>1, <2>2 DEF Hands, Range
  <2>4. InPhase'
    BY <1>3, <2>1 DEF InPhase
  <2> QED
    BY <1>1, <1>2, <2>1, <2>3, <2>4 DEF TicketInv
<1>11. CASE EndIntake
  <2> DEFINE n == AtMost(Len(ready), Round)
  <2>1. /\ UNCHANGED <<sess, epoch, revision, waiting, pend, pending, decided, decisions>>
        /\ batch' = SubSeq(ready, 1, n) /\ ready' = SubSeq(ready, n + 1, Len(ready))
        /\ pc = "intake" /\ pc' = "asking"
    BY <1>11 DEF EndIntake
  <2>2. n \in 0 .. Len(ready)
    BY LenProperties, QueueAssumption DEF AtMost, TypeInv, HeldTypes
  <2> HIDE DEF n
  <2>3. Range(ready) = Range(batch') \cup Range(ready')
    BY <2>1, <2>2, OfSplit DEF TypeInv, HeldTypes
  <2>4. Hands' \subseteq Hands
    BY <2>1, <2>3 DEF Hands, Range
  <2>5. InPhase'
    BY <1>3, <2>1 DEF InPhase
  <2> QED
    BY <1>1, <1>2, <2>1, <2>4, <2>5 DEF TicketInv
<1>12. CASE Decide
  <2> DEFINE h == Head(batch)
  <2>1. /\ UNCHANGED <<sess, epoch, revision, pend, ready, decided, pc>>
        /\ batch' = Tail(batch) /\ batch # <<>> /\ pc = "asking"
        /\ (\E allow \in BOOLEAN : Decided(h, allow)) \/ Wait(h)
    BY <1>12 DEF Decide
  <2>2. Range(batch) = {h} \cup Range(batch')
    BY <2>1, OfTail DEF TypeInv, HeldTypes
  <2> HIDE DEF h
  <2>3. Hands' \subseteq Hands
    BY <2>1, <2>2 DEF Hands, Range, Decided, Wait
  <2>4. InPhase'
    BY <1>3, <2>1 DEF InPhase
  <2> QED
    BY <1>1, <1>2, <2>1, <2>3, <2>4 DEF TicketInv
<1>13. CASE DecideRound /\ ~Fail
  <2> DEFINE hs == {d.held : d \in decisions}
  <2>1. /\ UNCHANGED <<sess, epoch, revision, waiting, pending, decided, batch>>
        /\ batch = <<>> /\ decisions' = {} /\ pend' = pend \ hs
        /\ ready' = Without(hs) /\ pc = "asking"
    BY <1>13 DEF DecideRound
  <2>2. Range(ready') \subseteq Range(ready)
    BY <2>1, WithoutTypes DEF TypeInv
  <2>3. Hands' \subseteq Hands
    BY <2>1, <2>2 DEF Hands, Range
  <2>4. InPhase'
    BY <1>3, <2>1 DEF InPhase
  <2> QED
    BY <1>1, <1>2, <2>1, <2>3, <2>4 DEF TicketInv
<1> QED
  BY <1>4, <1>5, <1>6, <1>7, <1>8, <1>9, <1>10, <1>11, <1>12, <1>13, Steps DEF HandsLie

---------------------------------------------------------------------------
(* A packet is at one stage of its way: its message unread, a ticket in the *)
(* keeper's hands, or a verdict whose acknowledgement is still to come; and *)
(* a ticket is in one place.                                               *)

Settling == {d.held : d \in decisions}
Apart ==
    /\ Once(ready) /\ Once(batch)
    /\ Range(ready) \cap Range(batch) = {}
    /\ (Range(ready) \cup Range(batch)) \cap (Settling \cup pending) = {}
    /\ Settling \cap pending = {}
    /\ \A d, e \in decisions : d.held = e.held => d = e
    /\ pend = InHand

Pended == {h.packet : h \in pend}
Acked == {m.packet : m \in {x \in Range(inbox) : x.kind = "ack"}}
OneStage ==
    /\ Once(inbox) /\ \A m, n \in Range(inbox) : m.packet = n.packet => m = n
    /\ \A v, w \in outbox : v.packet = w.packet => v = w
    /\ \A g, h \in pend : g.packet = h.packet => g = h
    /\ Unread \cap Pended = {} /\ Unread \cap acks = {} /\ Pended \cap acks = {}
    /\ Sent \cap Acked = {} /\ acks = Sent \cup Acked

StageInv == Apart /\ OneStage

LEMMA UnreadOf == Unread = {m.packet : m \in {x \in Range(inbox) : x.kind = "packet"}}
  BY DEF Unread, Range

LEMMA InitStages == Init => StageInv
<1> SUFFICES ASSUME Init PROVE StageInv
  OBVIOUS
<1> USE DEF Init
<1>1. Unread = {} /\ Acked = {} /\ Sent = {} /\ Pended = {}
  BY DEF Unread, Acked, Sent, Pended, Range
<1>2. Apart
  BY DEF Apart, Once, Range, Settling, InHand
<1>3. OneStage
  BY <1>1 DEF OneStage, Once, Range
<1> QED
  BY <1>2, <1>3 DEF StageInv

\* The queue is closed.
LEMMA ClosedStages ==
    ASSUME pend' = {}, ready' = <<>>, acks' = {}, inbox' = <<>>, outbox' = {}, pending' = {},
           batch' = <<>>, decisions' = {}
    PROVE  StageInv'
<1>1. (Unread = {})' /\ (Acked = {})' /\ (Sent = {})' /\ (Pended = {})'
  BY DEF Unread, Acked, Sent, Pended, Range
<1>2. Apart'
  BY DEF Apart, Once, Range, Settling, InHand
<1>3. OneStage'
  BY <1>1 DEF OneStage, Once, Range
<1> QED
  BY <1>2, <1>3 DEF StageInv

\* Verdicts are sent of tickets that were pending.
LEMMA SendingStage ==
    ASSUME OneStage, NEW hs \in SUBSET pend, NEW vs,
           {v.packet : v \in vs} = {h.packet : h \in hs},
           \A v, w \in vs : v.packet = w.packet => v = w,
           Send(vs), pend' = pend \ hs, inbox' = inbox
    PROVE  OneStage'
<1> DEFINE P == {h.packet : h \in hs}
<1>1. P \subseteq Pended /\ Pended' = Pended \ P
  BY DEF Pended, OneStage
<1>2. Unread' = Unread /\ Acked' = Acked
  BY DEF Unread, Acked, Range
<1>3. Sent' = Sent \cup P /\ acks' = acks \cup P
  BY DEF Send, Sent
<1>4. Sent \cap P = {}
  BY <1>1 DEF OneStage
<1>5. \A v, w \in outbox' : v.packet = w.packet => v = w
  <2> SUFFICES ASSUME NEW v \in outbox', NEW w \in outbox', v.packet = w.packet PROVE v = w
    OBVIOUS
  <2>1. outbox' = outbox \cup vs
    BY DEF Send
  <2>2. \A x \in outbox : x.packet \in Sent
    BY DEF Sent
  <2>3. \A x \in vs : x.packet \in P
    OBVIOUS
  <2> HIDE DEF P
  <2> QED
    BY <1>4, <2>1, <2>2, <2>3 DEF OneStage
<1>6. Once(inbox)' /\ \A m, n \in Range(inbox)' : m.packet = n.packet => m = n
  BY DEF OneStage, Once, Range
<1> HIDE DEF P
<1> QED
  BY <1>1, <1>2, <1>3, <1>4, <1>5, <1>6 DEF OneStage

\* A message of a packet that is at none of the stages, or of one whose verdict
\* it answers.
LEMMA MessageStage ==
    ASSUME TypeInv, OneStage, pend' = pend, acks' = acks,
           NEW m, m \in [kind : {"packet", "ack"}, packet : Packets', ok : BOOLEAN],
           Packets \subseteq Packets', inbox' = Append(inbox, m),
           \/ m.kind = "packet" /\ m.packet \notin Packets /\ outbox' = outbox
           \/ m.kind = "ack" /\ \E v \in outbox : m.packet = v.packet /\ outbox' = outbox \ {v}
    PROVE  OneStage'
<1> DEFINE Messages == [kind : {"packet", "ack"}, packet : Packets', ok : BOOLEAN]
<1>1. /\ inbox \in Seq(Messages)
      /\ \A n \in Range(inbox) : n.packet \in Packets /\ n.kind \in {"packet", "ack"}
  <2>1. inbox \in Seq([kind : {"packet", "ack"}, packet : Packets, ok : BOOLEAN])
    BY DEF TypeInv, KernelTypes
  <2>2. Range(inbox) \subseteq [kind : {"packet", "ack"}, packet : Packets, ok : BOOLEAN]
    BY <2>1, OfRange
  <2>3. [kind : {"packet", "ack"}, packet : Packets, ok : BOOLEAN] \subseteq Messages
    OBVIOUS
  <2> HIDE DEF Messages
  <2>4. inbox \in Seq(Messages)
    BY <2>1, <2>3, SeqMonotonic
  <2> QED
    BY <2>2, <2>4
<1>2. \A n \in Range(inbox) : n.packet # m.packet
  <2>1. CASE m.kind = "packet"
    BY <1>1, <2>1
  <2>2. CASE m.kind = "ack"
    <3>1. m.packet \in Sent
      BY <2>2 DEF Sent
    <3>2. m.packet \notin Acked /\ m.packet \notin Unread
      BY <3>1 DEF OneStage
    <3>3. \A n \in Range(inbox) : n.kind \in {"packet", "ack"}
      BY <1>1
    <3> QED
      BY <3>2, <3>3, UnreadOf DEF Acked
  <2> QED
    BY <2>1, <2>2
<1>3. Range(inbox') = Range(inbox) \cup {m} /\ (Once(inbox) => Once(inbox'))
  <2> HIDE DEF Messages
  <2>1. m \in Messages /\ m \notin Range(inbox)
    BY <1>2 DEF Messages
  <2> QED
    BY <1>1, <2>1, OfAppend
<1>4. Once(inbox') /\ \A l, n \in Range(inbox') : l.packet = n.packet => l = n
  BY <1>2, <1>3 DEF OneStage
<1>5. Pended' = Pended
  BY DEF Pended
<1>6. /\ Unread' = {l.packet : l \in {x \in Range(inbox') : x.kind = "packet"}}
      /\ Acked' = {l.packet : l \in {x \in Range(inbox') : x.kind = "ack"}}
  BY UnreadOf DEF Acked, Unread, Range
<1>7. Pended \subseteq Packets /\ acks \subseteq Packets
  BY DEF TypeInv, KnownPackets, KernelTypes, Pended
<1>8. CASE m.kind = "packet" /\ m.packet \notin Packets /\ outbox' = outbox
  <2>1. Unread' = Unread \cup {m.packet} /\ Acked' = Acked
    BY <1>3, <1>6, <1>8, UnreadOf DEF Acked
  <2>2. Sent' = Sent
    BY <1>8 DEF Sent
  <2>3. \A v, w \in outbox' : v.packet = w.packet => v = w
    BY <1>8 DEF OneStage
  <2>4. \A g, h \in pend' : g.packet = h.packet => g = h
    BY DEF OneStage
  <2> QED
    BY <1>4, <1>5, <1>7, <1>8, <2>1, <2>2, <2>3, <2>4 DEF OneStage
<1>9. ASSUME NEW v \in outbox, m.kind = "ack", m.packet = v.packet, outbox' = outbox \ {v}
      PROVE  OneStage'
  <2>1. Unread' = Unread /\ Acked' = Acked \cup {m.packet}
    BY <1>3, <1>6, <1>9, UnreadOf DEF Acked
  <2>2. Sent' = Sent \ {m.packet} /\ m.packet \in Sent
    BY <1>9 DEF Sent, OneStage
  <2>3. \A u, w \in outbox' : u.packet = w.packet => u = w
    BY <1>9 DEF OneStage
  <2>4. \A g, h \in pend' : g.packet = h.packet => g = h
    BY DEF OneStage
  <2> QED
    BY <1>4, <1>5, <2>1, <2>2, <2>3, <2>4 DEF OneStage
<1> QED
  BY <1>8, <1>9

\* The first message is read: an acknowledgement comes off acks, a packet is
\* held or its drop sent.
LEMMA ReadStage ==
    ASSUME TypeInv, OneStage, inbox # <<>>, inbox' = Tail(inbox),
           LET m == Head(inbox) IN
           \/ m.kind = "ack" /\ acks' = acks \ {m.packet} /\ UNCHANGED <<pend, outbox>>
           \/ /\ m.kind = "packet" /\ UNCHANGED <<outbox, acks>>
              /\ \E h \in Tickets : h.packet = m.packet /\ pend' = pend \cup {h}
           \/ m.kind = "packet" /\ pend' = pend /\ Send({DropOf(m.packet)})
    PROVE  OneStage'
<1> DEFINE m == Head(inbox)
<1>1. /\ Range(inbox) = {m} \cup Range(inbox') /\ Once(inbox') /\ m \notin Range(inbox')
  BY OfTail DEF TypeInv, KernelTypes, OneStage
<1> HIDE DEF m
<1>2. /\ \A l, n \in Range(inbox') : l.packet = n.packet => l = n
      /\ \A n \in Range(inbox') : n.packet # m.packet
  BY <1>1 DEF OneStage
<1>3. /\ Unread' = {l.packet : l \in {x \in Range(inbox') : x.kind = "packet"}}
      /\ Acked' = {l.packet : l \in {x \in Range(inbox') : x.kind = "ack"}}
  BY UnreadOf DEF Acked, Unread, Range
<1>4. CASE m.kind = "ack" /\ acks' = acks \ {m.packet} /\ UNCHANGED <<pend, outbox>>
  <2>1. Unread' = Unread /\ Acked' = Acked \ {m.packet} /\ m.packet \in Acked
    BY <1>1, <1>2, <1>3, <1>4, UnreadOf DEF Acked
  <2>2. Sent' = Sent /\ Pended' = Pended
    BY <1>4 DEF Sent, Pended
  <2>3. /\ \A u, w \in outbox' : u.packet = w.packet => u = w
        /\ \A g, h \in pend' : g.packet = h.packet => g = h
    BY <1>4 DEF OneStage
  <2> QED
    BY <1>1, <1>2, <1>4, <2>1, <2>2, <2>3 DEF OneStage
<1>5. ASSUME NEW h, m.kind = "packet", UNCHANGED <<outbox, acks>>, h.packet = m.packet, pend' = pend \cup {h}
      PROVE  OneStage'
  <2>1. Unread' = Unread \ {m.packet} /\ Acked' = Acked /\ m.packet \in Unread
    BY <1>1, <1>2, <1>3, <1>5, UnreadOf DEF Acked
  <2>2. Sent' = Sent /\ Pended' = Pended \cup {m.packet}
    BY <1>5 DEF Sent, Pended
  <2>3. \A u, w \in outbox' : u.packet = w.packet => u = w
    BY <1>5 DEF OneStage
  <2>4. \A g \in pend : g.packet # m.packet
    BY <2>1 DEF OneStage, Pended
  <2>5. \A g, k \in pend' : g.packet = k.packet => g = k
    BY <1>5, <2>4 DEF OneStage
  <2> QED
    BY <1>1, <1>2, <1>5, <2>1, <2>2, <2>3, <2>5 DEF OneStage
<1>6. CASE m.kind = "packet" /\ pend' = pend /\ Send({DropOf(m.packet)})
  <2>1. Unread' = Unread \ {m.packet} /\ Acked' = Acked /\ m.packet \in Unread
    BY <1>1, <1>2, <1>3, <1>6, UnreadOf DEF Acked
  <2>2. outbox' = outbox \cup {DropOf(m.packet)} /\ acks' = acks \cup {m.packet} /\ Pended' = Pended
    BY <1>6 DEF Send, DropOf, Pended
  <2>3. Sent' = Sent \cup {m.packet}
    <3>1. DropOf(m.packet).packet = m.packet
      BY DEF DropOf
    <3> QED
      BY <2>2, <3>1 DEF Sent
  <2>4. m.packet \notin Sent /\ m.packet \notin Acked /\ m.packet \notin Pended
    BY <2>1 DEF OneStage
  <2>5. \A u, w \in outbox' : u.packet = w.packet => u = w
    <3>1. \A u \in outbox : u.packet # m.packet
      BY <2>4 DEF Sent
    <3>2. DropOf(m.packet).packet = m.packet
      BY DEF DropOf
    <3> QED
      BY <2>2, <3>1, <3>2 DEF OneStage
  <2>6. \A g, k \in pend' : g.packet = k.packet => g = k
    BY <1>6 DEF OneStage
  <2> QED
    BY <1>1, <1>2, <2>1, <2>2, <2>3, <2>4, <2>5, <2>6 DEF OneStage
<1> QED
  BY <1>4, <1>5, <1>6 DEF m

LEMMA StagesLie ==
    ASSUME HandsLie, ~Fail
    PROVE  \/ \E t \in kmap : Offer(t)
           \/ \E v \in outbox : Apply(v)
           \/ UNCHANGED <<inbox, outbox, acks>>
<1> USE DEF worldVars, kernelVars, cacheVars, driverVars, askerVars, turnVars, outerVars, boundVars
<1>1. World \/ Begin \/ PolicyChanged \/ (\E a \in answers : Stale(a)) \/ Answered \/ Told \/ StartIntake
      => UNCHANGED <<inbox, outbox, acks>>
  BY DEF World, Edit, Answer, Ends, Begin, PolicyChanged, Stale, Answered, Told, StartIntake
<1>2. ASSUME NEW l \in Launches, Register(l)
      PROVE  UNCHANGED <<inbox, outbox, acks>>
  BY <1>2 DEF Register
<1>3. SealFails \/ Drained \/ Enlist \/ Renewed => UNCHANGED <<inbox, outbox, acks>>
  BY DEF SealFails, Drained, Enlist, Renewed
<1> QED
  BY <1>1, <1>2, <1>3 DEF HandsLie

LEMMA SameApart ==
    ASSUME Apart, UNCHANGED <<pend, pending, ready, batch, decisions>>
    PROVE  Apart'
  BY DEF Apart, Once, Range, Settling, InHand

LEMMA SameOneStage ==
    ASSUME OneStage, UNCHANGED <<inbox, outbox, acks, pend>>
    PROVE  OneStage'
<1>1. Unread' = Unread /\ Acked' = Acked /\ Sent' = Sent /\ Pended' = Pended
  BY DEF Unread, Acked, Sent, Pended, Range
<1>2. Once(inbox)' /\ \A m, n \in Range(inbox)' : m.packet = n.packet => m = n
  BY DEF OneStage, Once, Range
<1>3. /\ \A v, w \in outbox' : v.packet = w.packet => v = w
      /\ \A g, h \in pend' : g.packet = h.packet => g = h
  BY DEF OneStage
<1>4. acks' = acks /\ acks = Sent \cup Acked
  BY DEF OneStage
<1> QED
  BY <1>1, <1>2, <1>3, <1>4 DEF OneStage

LEMMA SameStages ==
    ASSUME StageInv, UNCHANGED <<inbox, outbox, acks, pend, pending, ready, batch, decisions>>
    PROVE  StageInv'
  BY SameApart, SameOneStage DEF StageInv

LEMMA OfferStage ==
    ASSUME TypeInv, OneStage, NEW t \in kmap, Offer(t)
    PROVE  OneStage'
<1> DEFINE m == [kind |-> "packet", packet |-> Len(pk) + 1, ok |-> TRUE]
<1>1. Packets = 1 .. Len(pk) /\ Len(pk) \in Nat
  BY LenProperties DEF TypeInv, KernelTypes, Packets
<1>2. DOMAIN pk' = 1 .. Len(pk) + 1
  <2>1. pk \in Seq(PacketTypes)
    BY DEF TypeInv, KernelTypes, PacketTypes
  <2> DEFINE new == [token |-> t, st |-> "held", by |-> NoScope]
  <2>2. new \in PacketTypes
    BY DEF TypeInv, KernelTypes, PacketTypes, NoScope, Scopes
  <2> HIDE DEF new
  <2>3. pk' \in Seq(PacketTypes) /\ Len(pk') = Len(pk) + 1
    BY <2>1, <2>2, AppendProperties DEF Offer, new
  <2> QED
    BY <2>3, LenProperties
<1>3. m \in [kind : {"packet", "ack"}, packet : Packets', ok : BOOLEAN]
  BY <1>1, <1>2 DEF Packets
<1>4. m.kind = "packet" /\ m.packet \notin Packets /\ Packets \subseteq Packets'
  BY <1>1, <1>2 DEF Packets
<1>5. inbox' = Append(inbox, m) /\ UNCHANGED <<outbox, pend, acks>>
  BY DEF Offer, driverVars
<1> HIDE DEF m
<1> QED
  BY <1>3, <1>4, <1>5, MessageStage

LEMMA ApplyStage ==
    ASSUME TypeInv, OneStage, NEW v \in outbox, Apply(v)
    PROVE  OneStage'
<1>1. Packets' = Packets /\ v.packet \in Packets
  BY Applied DEF TypeInv, Packets
<1>2. PICK ok \in BOOLEAN : inbox' = Append(inbox, [kind |-> "ack", packet |-> v.packet, ok |-> ok])
  BY DEF Apply
<1> DEFINE m == [kind |-> "ack", packet |-> v.packet, ok |-> ok]
<1>3. m \in [kind : {"packet", "ack"}, packet : Packets', ok : BOOLEAN] /\ m.kind = "ack" /\ m.packet = v.packet
  BY <1>1
<1>4. inbox' = Append(inbox, m) /\ outbox' = outbox \ {v} /\ UNCHANGED <<pend, acks>>
  BY <1>2 DEF Apply, driverVars
<1> HIDE DEF m
<1> QED
  BY <1>1, <1>3, <1>4, MessageStage

LEMMA HearStages ==
    ASSUME TypeInv, TicketInv, StageInv, FlushOne \/ IntakeOne
    PROVE  StageInv'
<1>1. /\ inbox # <<>> /\ (HearAck \/ HearPacket)
      /\ UNCHANGED <<arch, sess, epoch, revision, pending, batch, decisions>>
  BY Reading
<1>2. CASE HearAck
  <2>1. /\ inbox' = Tail(inbox) /\ Head(inbox).kind = "ack" /\ acks' = acks \ {Head(inbox).packet}
        /\ UNCHANGED <<pend, outbox, ready>>
    BY <1>2 DEF HearAck
  <2> QED
    BY <1>1, <2>1, ReadStage, SameApart DEF StageInv
<1>3. CASE HearPacket
  <2>1. /\ inbox' = Tail(inbox) /\ Head(inbox).kind = "packet"
        /\ \/ \E h \in Tickets :
                 /\ h.packet = Head(inbox).packet
                 /\ pend' = pend \cup {h} /\ ready' = Append(ready, h)
                 /\ UNCHANGED <<outbox, acks>>
           \/ UNCHANGED <<pend, ready>> /\ Send({DropOf(Head(inbox).packet)})
    BY <1>1, <1>3, HeardTicket DEF TicketInv
  <2>2. OneStage'
    BY <1>1, <2>1, ReadStage DEF StageInv
  <2>3. CASE UNCHANGED <<pend, ready>>
    BY <1>1, <2>2, <2>3, SameApart DEF StageInv
  <2>4. ASSUME NEW h \in Tickets, h.packet = Head(inbox).packet, pend' = pend \cup {h}, ready' = Append(ready, h)
        PROVE  Apart'
    <3>1. Head(inbox) \in Range(inbox)
      BY <1>1, OfTail DEF TypeInv, KernelTypes
    <3>2. h.packet \in Unread
      BY <2>1, <2>4, <3>1, UnreadOf
    <3>3. h \notin pend
      BY <3>2 DEF StageInv, OneStage, Pended
    <3>4. h \notin Range(ready) /\ h \notin Range(batch) /\ h \notin Settling /\ h \notin pending
      BY <3>3 DEF StageInv, Apart, InHand, Settling
    <3>5. Range(ready') = Range(ready) \cup {h} /\ (Once(ready) => Once(ready'))
      BY <2>4, <3>4, OfAppend DEF TypeInv, HeldTypes
    <3>6. Range(batch)' = Range(batch) /\ Settling' = Settling /\ Once(batch)' = Once(batch)
      BY <1>1 DEF Range, Settling, Once
    <3>7. pend' = InHand'
      BY <1>1, <2>4, <3>5, <3>6 DEF StageInv, Apart, InHand, Settling
    <3> QED
      BY <1>1, <3>4, <3>5, <3>6, <3>7 DEF StageInv, Apart
  <2> QED
    BY <2>1, <2>2, <2>3, <2>4 DEF StageInv
<1> QED
  BY <1>1, <1>2, <1>3

LEMMA DropStages ==
    ASSUME StageInv, DropPending, pending' = {}, inbox' = inbox, batch' = <<>>, decisions' = {}
    PROVE  StageInv'
<1> DEFINE vs == {DropOf(h.packet) : h \in pend}
<1>1. pend' = pend \ pend /\ ready' = <<>> /\ Send(vs)
  BY DEF DropPending
<1>2. \A p : DropOf(p).packet = p
  BY DEF DropOf
<1>3. {v.packet : v \in vs} = {h.packet : h \in pend} /\ \A v, w \in vs : v.packet = w.packet => v = w
  BY <1>2
<1> HIDE DEF vs
<1>4. OneStage'
  BY <1>1, <1>3, SendingStage DEF StageInv
<1>5. Apart'
  BY <1>1 DEF Apart, Once, Range, Settling, InHand
<1> QED
  BY <1>4, <1>5 DEF StageInv

LEMMA TellStages ==
    ASSUME TypeInv, TicketInv, StageInv, NEW d \in decided, Tell(d), ~Fail
    PROVE  StageInv'
<1> DEFINE v == Verdict(d.held, d.allow /\ snap[Program[d.held.launch]] # "deny")
           h == d.held
<1>1. /\ h \in pend /\ Send({v}) /\ pend' = pend \ {h} /\ ready' = Without({h})
      /\ pending' = pending \ {h} /\ pc = "verdicts"
      /\ UNCHANGED <<inbox, batch, decisions>>
  BY DEF Tell, Fresh
<1>2. v.packet = h.packet
  BY DEF Verdict
<1>3. batch = <<>> /\ decisions = {}
  BY <1>1 DEF TicketInv, InPhase
<1> HIDE DEF v
<1>4. OneStage'
  <2>1. {w.packet : w \in {v}} = {k.packet : k \in {h}} /\ {h} \in SUBSET pend
    BY <1>1, <1>2
  <2> HIDE DEF h
  <2> QED
    BY <1>1, <2>1, SendingStage DEF StageInv
<1> HIDE DEF h
<1>5. Range(ready') = Range(ready) \ {h} /\ Once(ready')
  BY <1>1, WithoutTypes DEF TypeInv, StageInv, Apart
<1>6. Range(batch) = {} /\ Settling = {} /\ Range(batch') = {} /\ Settling' = {}
  BY <1>1, <1>3 DEF Range, Settling
<1>7. Apart'
  BY <1>1, <1>3, <1>5, <1>6 DEF StageInv, Apart, InHand, Settling, Once
<1> QED
  BY <1>4, <1>7 DEF StageInv

LEMMA EndIntakeStages ==
    ASSUME TypeInv, TicketInv, StageInv, EndIntake
    PROVE  StageInv'
<1> DEFINE n == AtMost(Len(ready), Round)
<1>1. /\ UNCHANGED <<pend, pending, decisions, inbox, outbox, acks>>
      /\ batch' = SubSeq(ready, 1, n) /\ ready' = SubSeq(ready, n + 1, Len(ready))
      /\ pc = "intake"
  BY DEF EndIntake, kernelVars
<1>2. n \in 0 .. Len(ready)
  BY LenProperties, QueueAssumption DEF AtMost, TypeInv, HeldTypes
<1>3. batch = <<>> /\ decisions = {}
  BY <1>1 DEF TicketInv, InPhase
<1> HIDE DEF n
<1>4. /\ Range(ready) = Range(batch') \cup Range(ready')
      /\ Once(batch') /\ Once(ready') /\ Range(batch') \cap Range(ready') = {}
  BY <1>1, <1>2, OfSplit DEF TypeInv, HeldTypes, StageInv, Apart
<1>5. Range(batch) = {} /\ Settling = {} /\ Settling' = {}
  BY <1>1, <1>3 DEF Range, Settling
<1>6. Apart'
  BY <1>1, <1>4, <1>5 DEF StageInv, Apart, InHand, Settling
<1>7. OneStage'
  BY <1>1, SameOneStage DEF StageInv
<1> QED
  BY <1>6, <1>7 DEF StageInv

LEMMA DecideStages ==
    ASSUME TypeInv, StageInv, Decide
    PROVE  StageInv'
<1> DEFINE h == Head(batch)
<1>1. /\ UNCHANGED <<pend, ready, inbox, outbox, acks>>
      /\ batch' = Tail(batch) /\ batch # <<>>
      /\ (\E allow \in BOOLEAN : Decided(h, allow)) \/ Wait(h)
  BY DEF Decide, kernelVars, driverVars
<1>2. /\ Range(batch) = {h} \cup Range(batch') /\ Once(batch') /\ h \notin Range(batch')
  BY <1>1, OfTail DEF TypeInv, HeldTypes, StageInv, Apart
<1> HIDE DEF h
<1>3. Range(ready') = Range(ready) /\ Once(ready')
  BY <1>1 DEF StageInv, Apart, Once, Range
<1>4. h \notin Settling /\ h \notin pending /\ h \notin Range(ready)
  BY <1>2 DEF StageInv, Apart
<1>5. OneStage'
  BY <1>1, SameOneStage DEF StageInv
<1>6. ASSUME NEW allow \in BOOLEAN, Decided(h, allow)
      PROVE  Apart'
  <2>1. decisions' = decisions \cup {[held |-> h, allow |-> allow]} /\ pending' = pending
    BY <1>6 DEF Decided
  <2>2. Settling' = Settling \cup {h}
    <3> DEFINE d == [held |-> h, allow |-> allow]
    <3>1. decisions' = decisions \cup {d} /\ d.held = h
      BY <2>1
    <3> HIDE DEF d
    <3> QED
      BY <3>1 DEF Settling
  <2>3. \A d, e \in decisions' : d.held = e.held => d = e
    BY <1>4, <2>1 DEF Settling, StageInv, Apart
  <2>4. pend' = InHand'
    BY <1>1, <1>2, <1>3, <2>1, <2>2 DEF StageInv, Apart, InHand, Settling
  <2> QED
    BY <1>2, <1>3, <1>4, <2>1, <2>2, <2>3, <2>4 DEF StageInv, Apart
<1>7. ASSUME Wait(h)
      PROVE  Apart'
  <2>1. decisions' = decisions /\ pending' = pending \cup {h}
    BY <1>7 DEF Wait
  <2>2. Settling' = Settling
    BY <2>1 DEF Settling
  <2>3. pend' = InHand'
    BY <1>1, <1>2, <1>3, <2>1, <2>2 DEF StageInv, Apart, InHand, Settling
  <2> QED
    BY <1>2, <1>3, <1>4, <2>1, <2>2, <2>3 DEF StageInv, Apart
<1> QED
  BY <1>1, <1>5, <1>6, <1>7 DEF StageInv

LEMMA DecideRoundStages ==
    ASSUME TypeInv, StageInv, DecideRound, ~Fail
    PROVE  StageInv'
<1> DEFINE vs == {Verdict(d.held, d.allow) : d \in decisions}
<1>1. /\ batch = <<>> /\ Settling \subseteq pend
      /\ Send(vs) /\ pend' = pend \ Settling /\ ready' = Without(Settling) /\ decisions' = {}
      /\ UNCHANGED <<inbox, pending, batch>>
  BY DEF DecideRound, Fresh, Settling
<1>2. \A d : Verdict(d.held, d.allow).packet = d.held.packet
  BY DEF Verdict
<1>3. {v.packet : v \in vs} = {h.packet : h \in Settling}
  BY <1>2 DEF Settling
<1>4. \A v, w \in vs : v.packet = w.packet => v = w
  <2> SUFFICES ASSUME NEW d \in decisions, NEW e \in decisions, d.held.packet = e.held.packet
               PROVE  d = e
    BY <1>2
  <2>1. d.held \in pend /\ e.held \in pend
    BY <1>1 DEF Settling
  <2> QED
    BY <2>1 DEF StageInv, OneStage, Apart
<1> HIDE DEF vs
<1>5. OneStage'
  BY <1>1, <1>3, <1>4, SendingStage DEF StageInv
<1>6. Range(ready') = Range(ready) \ Settling /\ Once(ready')
  BY <1>1, WithoutTypes DEF TypeInv, StageInv, Apart
<1>7. Range(batch') = {} /\ Range(batch) = {} /\ Settling' = {}
  BY <1>1 DEF Range, Settling
<1>8. pend' = InHand'
  BY <1>1, <1>6, <1>7 DEF StageInv, Apart, InHand, Settling
<1>9. Apart'
  BY <1>1, <1>6, <1>7, <1>8 DEF StageInv, Apart, Once
<1> QED
  BY <1>5, <1>9 DEF StageInv

LEMMA NextStages ==
    ASSUME TypeInv, TicketInv, StageInv, Next
    PROVE  StageInv'
<1>1. CASE Fail
  BY <1>1, ClosedStages DEF Fail, Close
<1>2. CASE HandsLie /\ ~Fail
  <2>1. UNCHANGED <<pend, pending, waiting, ready, batch, decided, decisions>>
    BY <1>2, HandsStay
  <2>2. Apart'
    BY <2>1, SameApart DEF StageInv
  <2>3. CASE \E t \in kmap : Offer(t)
    BY <2>2, <2>3, OfferStage DEF StageInv
  <2>4. CASE \E v \in outbox : Apply(v)
    BY <2>2, <2>4, ApplyStage DEF StageInv
  <2>5. CASE UNCHANGED <<inbox, outbox, acks>>
    BY <2>1, <2>5, SameStages
  <2> QED
    BY <1>2, <2>3, <2>4, <2>5, StagesLie
<1>3. CASE ChangePolicy \/ Renew
  <2>1. /\ DropPending /\ pending' = {} /\ inbox' = inbox /\ pc = "poll"
        /\ UNCHANGED <<batch, decisions>>
    BY <1>3 DEF ChangePolicy, Renew
  <2>2. batch = <<>> /\ decisions = {}
    BY <2>1 DEF TicketInv, InPhase
  <2> QED
    BY <2>1, <2>2, DropStages
<1>4. CASE Rotate
  <2>1. Close /\ pending' = {} /\ pc = "poll" /\ UNCHANGED <<batch, decisions>>
    BY <1>4 DEF Rotate, turnVars
  <2>2. batch = <<>> /\ decisions = {}
    BY <2>1 DEF TicketInv, InPhase
  <2> QED
    BY <2>1, <2>2, ClosedStages DEF Close
<1>5. ASSUME NEW a \in answers, TakeAnswer(a)
      PROVE  StageInv'
  <2>1. UNCHANGED <<inbox, outbox, acks, pend, pending, ready, batch, decisions>>
    BY <1>5 DEF TakeAnswer, kernelVars, driverVars
  <2> QED
    BY <2>1, SameStages
<1> QED
  BY <1>1, <1>2, <1>3, <1>4, <1>5, HearStages, TellStages, EndIntakeStages, DecideStages,
     DecideRoundStages, Steps DEF HandsLie

---------------------------------------------------------------------------
(* Whose word an acceptance has. *)

Warrant(s, g) == <<g, s.revision>> \in ruled \/ Said(s) \in consent

\* An acceptance that is on its way to the kernel: of its packet's token, with a
\* warrant, and of now, but in a barrier that waits for it.
Acceptances ==
    \A v \in outbox : v.allow =>
        /\ v.scope.token = pk[v.packet].token
        /\ Warrant(v.scope, Program[arch[v.scope.token].launch])
        /\ Current(v.scope) \/ pc \in {"barrier", "draining"}

\* Before that: the answers, what was said of a launch, what was decided, the
\* rules in the record and the rules the turn reads.
Words ==
    /\ \A a \in answers : a.answer \in {"always", "now"} => Said(a.scope) \in consent
    /\ \A s \in DOMAIN grants : grants[s] => Said(s) \in consent
    /\ \A d \in decided : d.allow => Said(d.held.scope) \in consent
    /\ \A d \in decisions : d.allow => Warrant(d.held.scope, Program[d.held.launch])
    /\ AllowedAt(policy, revision) \subseteq ruled
    /\ pc \in {"verdicts", "telling", "intake", "asking"} => AllowedAt(snap, revision) \subseteq ruled

ConsentInv == Acceptances /\ Words /\ PassesOnlyWithConsent

LEMMA InitConsent == Init => ConsentInv
<1> SUFFICES ASSUME Init PROVE ConsentInv
  OBVIOUS
<1> USE DEF Init
<1>1. Acceptances /\ PassesOnlyWithConsent
  BY DEF Acceptances, PassesOnlyWithConsent, Packets
<1>2. Words
  BY DEF Words, AllowedAt
<1> QED
  BY <1>1, <1>2 DEF ConsentInv

\* The history only grows.
LEMMA HistoryGrows ==
    ASSUME Next
    PROVE  ruled \subseteq ruled' /\ consent \subseteq consent'
<1> USE DEF worldVars, kernelVars, cacheVars, driverVars, askerVars, turnVars, outerVars, boundVars
<1>1. CASE Fail
  BY <1>1 DEF Fail
<1>2. (\E t \in kmap : Offer(t)) \/ (\E v \in outbox : Apply(v)) => UNCHANGED <<ruled, consent>>
  BY DEF Offer, Apply
<1>3. World => ruled \subseteq ruled' /\ consent \subseteq consent'
  BY DEF World, Edit, Answer, Ends
<1>4. ChangePolicy => ruled \subseteq ruled' /\ consent' = consent
  BY DEF ChangePolicy
<1>5. Begin \/ PolicyChanged \/ FlushOne \/ IntakeOne \/ Answered \/ Told => UNCHANGED <<ruled, consent>>
  BY DEF Begin, PolicyChanged, FlushOne, IntakeOne, Answered, Told
<1>6. ASSUME NEW a \in answers, Stale(a)
      PROVE  UNCHANGED <<ruled, consent>>
  BY <1>6 DEF Stale
<1>7. ASSUME NEW a \in answers, TakeAnswer(a)
      PROVE  ruled \subseteq ruled' /\ consent' = consent
  BY <1>7 DEF TakeAnswer
<1>8. ASSUME NEW d \in decided, Tell(d), ~Fail
      PROVE  UNCHANGED <<ruled, consent>>
  BY <1>8 DEF Tell
<1>9. StartIntake \/ EndIntake \/ Decide => UNCHANGED <<ruled, consent>>
  BY DEF StartIntake, EndIntake, Decide
<1>10. DecideRound /\ ~Fail => UNCHANGED <<ruled, consent>>
  BY DEF DecideRound
<1>11. ASSUME NEW l \in Launches, Register(l), ~Fail
       PROVE  UNCHANGED <<ruled, consent>>
  BY <1>11 DEF Register
<1>12. Renew \/ SealFails \/ Drained \/ Renewed \/ Rotate => UNCHANGED <<ruled, consent>>
  BY DEF Renew, SealFails, Drained, Renewed, Rotate
<1>13. Enlist /\ ~Fail => UNCHANGED <<ruled, consent>>
  BY DEF Enlist
<1> QED
  BY <1>1, <1>2, <1>3, <1>4, <1>5, <1>6, <1>7, <1>8, <1>9, <1>10, <1>11, <1>12, <1>13, Steps

\* What an acceptance that is on its way has, it keeps.
LEMMA WarrantStays ==
    ASSUME TypeInv, Acceptances, Next, NEW v \in outbox, v.allow
    PROVE  /\ v.scope.token = pk'[v.packet].token
           /\ Warrant(v.scope, Program[arch[v.scope.token].launch])'
<1>1. v.packet \in Packets
  BY DEF TypeInv, KernelTypes
<1>2. pk[v.packet].token \in DOMAIN arch
  BY <1>1, PacketType
<1>3. pk'[v.packet].token = pk[v.packet].token
  BY <1>1, PacketsStay
<1>4. v.scope.token = pk[v.packet].token /\ Warrant(v.scope, Program[arch[v.scope.token].launch])
  BY DEF Acceptances
<1>5. arch'[v.scope.token] = arch[v.scope.token]
  BY <1>2, <1>4, RowsStay
<1>6. ruled \subseteq ruled' /\ consent \subseteq consent'
  BY HistoryGrows
<1> QED
  BY <1>3, <1>4, <1>5, <1>6 DEF Warrant, Said

\* No acceptance is added.
LEMMA AcceptancesStay ==
    ASSUME TypeInv, Acceptances, Next, \A v \in outbox' : v.allow => v \in outbox,
           \/ pc' \in {"barrier", "draining"}
           \/ /\ UNCHANGED <<sess, epoch, revision>>
              /\ pc' = pc \/ pc \notin {"barrier", "draining"}
    PROVE  Acceptances'
<1> SUFFICES ASSUME NEW v \in outbox', v.allow
             PROVE  /\ v.scope.token = pk'[v.packet].token
                    /\ Warrant(v.scope, Program[arch[v.scope.token].launch])'
                    /\ Current(v.scope)' \/ pc' \in {"barrier", "draining"}
  BY DEF Acceptances
<1>1. v \in outbox
  OBVIOUS
<1>2. /\ v.scope.token = pk'[v.packet].token
      /\ Warrant(v.scope, Program[arch[v.scope.token].launch])'
  BY <1>1, WarrantStays
<1>3. Current(v.scope) \/ pc \in {"barrier", "draining"}
  BY <1>1 DEF Acceptances
<1>4. Current(v.scope)' \/ pc' \in {"barrier", "draining"}
  BY <1>3 DEF Current, Scope
<1> QED
  BY <1>2, <1>4

\* An acceptance is sent of a ticket in hand.
LEMMA AcceptanceSent ==
    ASSUME TypeInv, Acceptances, Next, NEW vs, Send(vs), UNCHANGED <<sess, epoch, revision>>,
           pc \notin {"barrier", "draining"}, UNCHANGED <<pk, arch>>,
           \A v \in vs : v.allow =>
               \E h \in Hands : /\ v.packet = h.packet /\ v.scope = h.scope
                                /\ Rightful(h) /\ Warrant(h.scope, Program[h.launch])
    PROVE  Acceptances'
<1> SUFFICES ASSUME NEW v \in outbox', v.allow
             PROVE  /\ v.scope.token = pk'[v.packet].token
                    /\ Warrant(v.scope, Program[arch[v.scope.token].launch])'
                    /\ Current(v.scope)'
  BY DEF Acceptances
<1>1. CASE v \in outbox
  <2>1. Current(v.scope)
    BY <1>1 DEF Acceptances
  <2> QED
    BY <1>1, <2>1, WarrantStays DEF Current, Scope
<1>2. CASE v \in vs
  <2>1. PICK h \in Hands : /\ v.packet = h.packet /\ v.scope = h.scope
                           /\ Rightful(h) /\ Warrant(h.scope, Program[h.launch])
    BY <1>2
  <2>2. ruled \subseteq ruled' /\ consent \subseteq consent'
    BY HistoryGrows
  <2> QED
    BY <2>1, <2>2 DEF Rightful, Warrant, Said, Current, Scope
<1> QED
  BY <1>1, <1>2 DEF Send

\* A flush that has ended leaves no verdict on its way.
LEMMA FlushedEmpty ==
    ASSUME StageInv, Acknowledged
    PROVE  outbox = {}
  BY DEF StageInv, OneStage, Acknowledged, Sent

LEMMA NextAcceptances ==
    ASSUME TypeInv, TicketInv, StageInv, Acceptances, Words, Next
    PROVE  Acceptances'
<1>1. CASE Fail \/ Rotate
  BY <1>1 DEF Fail, Rotate, Close, Acceptances
<1>2. CASE ChangePolicy \/ Renew
  <2>1. /\ outbox' = outbox \cup {DropOf(h.packet) : h \in pend}
        /\ pc' \in {"barrier", "draining"}
    BY <1>2 DEF ChangePolicy, Renew, DropPending, Send
  <2>2. \A p : ~DropOf(p).allow
    BY DEF DropOf
  <2> QED
    BY <2>1, <2>2, AcceptancesStay
<1>3. CASE PolicyChanged \/ Drained
  <2>1. Acknowledged /\ outbox' = outbox
    BY <1>3 DEF PolicyChanged, Drained, kernelVars
  <2> QED
    BY <2>1, FlushedEmpty DEF Acceptances
<1>4. CASE HandsLie /\ ~Fail /\ ~PolicyChanged /\ ~Drained
  <2>1. UNCHANGED <<sess, epoch, revision>>
    BY <1>4, HandsStay
  <2>2. outbox' \subseteq outbox
    <3>1. (\E t \in kmap : Offer(t)) \/ (\E v \in outbox : Apply(v)) => outbox' \subseteq outbox
      BY DEF Offer, Apply
    <3> QED
      BY <1>4, <3>1, StagesLie
  <2>3. pc' = pc \/ pc \notin {"barrier", "draining"}
    <3>1. (\E t \in kmap : Offer(t)) \/ (\E v \in outbox : Apply(v)) => pc' = pc
      BY DEF Offer, Apply
    <3>2. World \/ (\E a \in answers : Stale(a)) \/ SealFails => pc' = pc
      BY DEF World, Edit, Answer, Ends, Stale, SealFails, worldVars
    <3>3. (\E l \in Launches : Register(l)) => pc = "poll"
      BY DEF Register
    <3>4. Begin \/ Answered \/ Told \/ StartIntake \/ Enlist \/ Renewed => pc \notin {"barrier", "draining"}
      BY DEF Begin, Answered, Told, StartIntake, Enlist, Renewed
    <3> QED
      BY <1>4, <3>1, <3>2, <3>3, <3>4 DEF HandsLie
  <2> QED
    BY <2>1, <2>2, <2>3, AcceptancesStay
<1>5. CASE FlushOne \/ IntakeOne
  <2>1. /\ inbox # <<>> /\ (HearAck \/ HearPacket)
        /\ UNCHANGED <<arch, sess, epoch, revision, pc>>
    BY <1>5, Reading
  <2>2. UNCHANGED outbox \/ Send({DropOf(Head(inbox).packet)})
    BY <2>1, HeardTicket DEF HearAck, TicketInv
  <2>3. ~DropOf(Head(inbox).packet).allow
    BY DEF DropOf
  <2>4. \A v \in outbox' : v.allow => v \in outbox
    BY <2>2, <2>3 DEF Send
  <2> QED
    BY <2>1, <2>4, AcceptancesStay
<1>6. ASSUME NEW a \in answers, TakeAnswer(a)
      PROVE  Acceptances'
  <2>1. UNCHANGED <<outbox, sess, epoch, revision, pc>>
    BY <1>6 DEF TakeAnswer, kernelVars
  <2> QED
    BY <2>1, AcceptancesStay
<1>7. CASE EndIntake \/ Decide
  <2>1. UNCHANGED <<outbox, sess, epoch, revision>> /\ pc \notin {"barrier", "draining"}
    BY <1>7 DEF EndIntake, Decide, kernelVars
  <2> QED
    BY <2>1, AcceptancesStay
<1>8. ASSUME NEW d \in decided, Tell(d), ~Fail
      PROVE  Acceptances'
  <2> DEFINE allow == d.allow /\ snap[Program[d.held.launch]] # "deny"
             v == Verdict(d.held, allow)
  <2>1. /\ Send({v}) /\ pc = "verdicts" /\ UNCHANGED <<sess, epoch, revision, pk, arch>>
    BY <1>8 DEF Tell
  <2>2. d.held \in Hands /\ Rightful(d.held)
    BY DEF Hands, TicketInv
  <2>3. v.packet = d.held.packet /\ v.scope = d.held.scope /\ v.allow = allow
    BY DEF Verdict
  <2>4. allow => Warrant(d.held.scope, Program[d.held.launch])
    BY DEF Words, Warrant
  <2> HIDE DEF v, allow
  <2> QED
    BY <2>1, <2>2, <2>3, <2>4, AcceptanceSent
<1>9. CASE DecideRound /\ ~Fail
  <2> DEFINE vs == {Verdict(d.held, d.allow) : d \in decisions}
  <2>1. /\ Send(vs) /\ pc = "asking" /\ UNCHANGED <<sess, epoch, revision, pk, arch>>
    BY <1>9 DEF DecideRound
  <2>2. ASSUME NEW v \in vs, v.allow
        PROVE  \E h \in Hands : /\ v.packet = h.packet /\ v.scope = h.scope
                                /\ Rightful(h) /\ Warrant(h.scope, Program[h.launch])
    <3>1. PICK d \in decisions : v = Verdict(d.held, d.allow)
      OBVIOUS
    <3>2. v.packet = d.held.packet /\ v.scope = d.held.scope /\ v.allow = d.allow
      BY <3>1 DEF Verdict
    <3>3. Warrant(d.held.scope, Program[d.held.launch])
      BY <2>2, <3>2 DEF Words
    <3>4. d.held \in Hands /\ Rightful(d.held)
      BY DEF Hands, TicketInv
    <3> QED
      BY <3>2, <3>3, <3>4
  <2> HIDE DEF vs
  <2> QED
    BY <2>1, <2>2, AcceptanceSent
<1> QED
  BY <1>1, <1>2, <1>3, <1>4, <1>5, <1>6, <1>7, <1>8, <1>9, Steps DEF HandsLie

\* A packet let out keeps its warrant, and a verdict that lets one out has it.
LEMMA NextPassed ==
    ASSUME TypeInv, Acceptances, PassesOnlyWithConsent, Next
    PROVE  PassesOnlyWithConsent'
<1> SUFFICES ASSUME NEW p \in Packets', pk'[p].st = "passed"
             PROVE  \/ <<Program[arch'[pk'[p].token].launch], pk'[p].by.revision>> \in ruled'
                    \/ Said([pk'[p].by EXCEPT !.token = pk'[p].token]) \in consent'
  BY DEF PassesOnlyWithConsent, Said
<1>1. ruled \subseteq ruled' /\ consent \subseteq consent'
  BY HistoryGrows
<1>2. \/ p \in Packets /\ pk'[p] = pk[p]
      \/ \E v \in outbox : p \in Packets /\ v.packet = p /\ v.allow /\ pk'[p].by = v.scope
  BY PacketsStay
<1>3. p \in Packets /\ pk'[p].token = pk[p].token
  BY <1>2, PacketsStay
<1>4. pk[p].token \in DOMAIN arch
  BY <1>3, PacketType
<1>5. arch'[pk[p].token] = arch[pk[p].token]
  BY <1>4, RowsStay
<1>6. CASE pk'[p] = pk[p]
  BY <1>1, <1>3, <1>5, <1>6 DEF PassesOnlyWithConsent
<1>7. ASSUME NEW v \in outbox, v.packet = p, v.allow, pk'[p].by = v.scope
      PROVE  \/ <<Program[arch'[pk'[p].token].launch], pk'[p].by.revision>> \in ruled'
             \/ Said([pk'[p].by EXCEPT !.token = pk'[p].token]) \in consent'
  <2>1. v.scope \in Scopes
    BY DEF TypeInv, KernelTypes
  <2>2. v.scope.token = pk[p].token /\ Warrant(v.scope, Program[arch[v.scope.token].launch])
    BY <1>7 DEF Acceptances
  <2>3. [pk'[p].by EXCEPT !.token = pk'[p].token] = v.scope
    BY <1>3, <1>7, <2>1, <2>2 DEF Scopes
  <2> QED
    BY <1>1, <1>3, <1>5, <1>7, <2>2, <2>3 DEF Warrant
<1> QED
  BY <1>2, <1>6, <1>7

\* No word is added, and no rules are read anew.
LEMMA WordsStay ==
    ASSUME Next, Words, answers' \subseteq answers, grants' = grants \/ grants' = [s \in {} |-> TRUE],
           decided' \subseteq decided, decisions' \subseteq decisions, UNCHANGED <<revision, policy>>,
           pc' \in {"verdicts", "telling", "intake", "asking"} =>
               pc \in {"verdicts", "telling", "intake", "asking"} /\ snap' = snap
    PROVE  Words'
<1>1. ruled \subseteq ruled' /\ consent \subseteq consent'
  BY HistoryGrows
<1>2. \A a \in answers' : a.answer \in {"always", "now"} => Said(a.scope) \in consent'
  BY <1>1 DEF Words
<1>3. \A s \in DOMAIN grants' : grants'[s] => Said(s) \in consent'
  BY <1>1 DEF Words
<1>4. \A d \in decided' : d.allow => Said(d.held.scope) \in consent'
  BY <1>1 DEF Words
<1>5. \A d \in decisions' : d.allow => Warrant(d.held.scope, Program[d.held.launch])'
  BY <1>1 DEF Words, Warrant, Said
<1>6. AllowedAt(policy, revision)' \subseteq ruled'
  BY <1>1 DEF Words, AllowedAt
<1>7. pc' \in {"verdicts", "telling", "intake", "asking"} => AllowedAt(snap, revision)' \subseteq ruled'
  BY <1>1 DEF Words, AllowedAt
<1> QED
  BY <1>2, <1>3, <1>4, <1>5, <1>6, <1>7 DEF Words, Said

LEMMA WorldWords ==
    ASSUME TypeInv, Words, Next, World
    PROVE  Words'
<1> USE DEF worldVars, kernelVars, cacheVars, driverVars, askerVars, turnVars, outerVars, boundVars
<1>1. ruled \subseteq ruled' /\ consent \subseteq consent'
  BY HistoryGrows
<1>2. ASSUME NEW g \in Programs, NEW r \in {"ask", "allow", "deny"}, Edit(g, r)
      PROVE  Words'
  <2>1. /\ ruled' = ruled \cup AllowedAt(policy', revision)
        /\ UNCHANGED <<revision, answers, grants, decided, decisions, snap, pc, consent>>
    BY <1>2 DEF Edit
  <2>2. AllowedAt(policy, revision)' \subseteq ruled'
    BY <2>1 DEF AllowedAt
  <2>3. AllowedAt(snap, revision)' = AllowedAt(snap, revision)
    BY <2>1 DEF AllowedAt
  <2> QED
    BY <1>1, <2>1, <2>2, <2>3 DEF Words, Warrant, Said
<1>3. ASSUME NEW w \in workers, NEW b \in {"always", "now", "deny", "closed"}, Answer(w, b)
      PROVE  Words'
  <2> DEFINE new == [round |-> w.round, scope |-> w.scope, answer |-> b]
  <2>1. /\ answers' = answers \cup {new}
        /\ new.answer \in {"always", "now"} => Said(new.scope) \in consent'
        /\ UNCHANGED <<revision, grants, decided, decisions, snap, pc, policy, ruled>>
    BY <1>3 DEF Answer
  <2> HIDE DEF new
  <2>2. \A a \in answers' : a.answer \in {"always", "now"} => Said(a.scope) \in consent'
    BY <1>1, <2>1 DEF Words
  <2>3. AllowedAt(snap, revision)' = AllowedAt(snap, revision) /\ AllowedAt(policy, revision)' = AllowedAt(policy, revision)
    BY <2>1 DEF AllowedAt
  <2> QED
    BY <1>1, <2>1, <2>2, <2>3 DEF Words, Warrant, Said
<1>4. ASSUME NEW l \in Launches, Ends(l)
      PROVE  Words'
  <2>1. UNCHANGED <<revision, answers, grants, decided, decisions, snap, pc, policy>>
    BY <1>4 DEF Ends
  <2> QED
    BY <2>1, WordsStay
<1> QED
  BY <1>2, <1>3, <1>4 DEF World

LEMMA TakeAnswerWords ==
    ASSUME TypeInv, Words, Next, NEW a \in answers, TakeAnswer(a)
    PROVE  Words'
<1> DEFINE g == Program[arch[a.scope.token].launch]
           mine == {h \in waiting : h.scope = a.scope}
<1>1. ruled \subseteq ruled' /\ consent \subseteq consent'
  BY HistoryGrows
<1>2. PICK written \in BOOLEAN :
          /\ LET verdict == /\ a.answer \in {"always", "now"} /\ ~Refused(g)
                            /\ a.answer = "always" => written
                 keep == ~written /\ ~Refused(g) /\ a.answer # "always"
             IN  /\ grants' = IF keep
                              THEN [s \in DOMAIN grants \cup {a.scope} |->
                                      IF s = a.scope THEN verdict ELSE grants[s]]
                              ELSE grants
                 /\ decided' = decided \cup {[held |-> h, allow |-> verdict] : h \in mine}
          /\ ruled' = ruled \cup AllowedAt(policy', revision)
  BY DEF TakeAnswer
<1> DEFINE verdict == /\ a.answer \in {"always", "now"} /\ ~Refused(g)
                      /\ a.answer = "always" => written
<1>3. verdict => Said(a.scope) \in consent
  BY DEF Words
<1>4. /\ grants' = grants \/ grants' = [s \in DOMAIN grants \cup {a.scope} |->
                                            IF s = a.scope THEN verdict ELSE grants[s]]
      /\ decided' = decided \cup {[held |-> h, allow |-> verdict] : h \in mine}
  BY <1>2
<1>5. /\ answers' \subseteq answers /\ pc = "answers"
      /\ UNCHANGED <<revision, decisions, pc, consent>>
  BY DEF TakeAnswer
<1> HIDE DEF verdict, g
<1>6. \A s \in DOMAIN grants' : grants'[s] => Said(s) \in consent'
  BY <1>3, <1>4, <1>5 DEF Words
<1>7. \A d \in decided' : d.allow => Said(d.held.scope) \in consent'
  BY <1>3, <1>4, <1>5 DEF Words
<1>8. AllowedAt(policy, revision)' \subseteq ruled'
  BY <1>2, <1>5 DEF AllowedAt
<1> QED
  BY <1>1, <1>5, <1>6, <1>7, <1>8 DEF Words, Warrant, Said

LEMMA DecideWords ==
    ASSUME TypeInv, TicketInv, Words, Next, Decide
    PROVE  Words'
<1> DEFINE h == Head(batch)
           r == snap[Program[h.launch]]
<1>1. /\ batch # <<>> /\ pc = "asking"
      /\ UNCHANGED <<ruled, consent, policy, revision, snap, pc, answers, grants, decided, sess, epoch>>
      /\ \/ r # "ask" /\ Decided(h, r = "allow")
         \/ Granted(h) # {} /\ Decided(h, \E s \in Granted(h) : grants[s])
         \/ Decided(h, FALSE)
         \/ Wait(h)
  BY DEF Decide, worldVars
<1>2. h \in Range(batch) /\ h \in Tickets
  BY <1>1, OfTail DEF TypeInv, HeldTypes
<1>3. Rightful(h)
  BY <1>2 DEF TicketInv, Hands
<1> HIDE DEF h
<1>4. ASSUME NEW allow \in BOOLEAN, Decided(h, allow), allow => Warrant(h.scope, Program[h.launch])
      PROVE  \A d \in decisions' : d.allow => Warrant(d.held.scope, Program[d.held.launch])
  <2> DEFINE new == [held |-> h, allow |-> allow]
  <2>1. decisions' = decisions \cup {new} /\ new.held = h /\ new.allow = allow
    BY <1>4 DEF Decided
  <2> HIDE DEF new
  <2> QED
    BY <1>4, <2>1 DEF Words
<1>5. r = "allow" => Warrant(h.scope, Program[h.launch])
  <2>1. h.scope.revision = revision
    BY <1>3 DEF Rightful, Current, Scope
  <2>2. Program[h.launch] \in Programs
    BY <1>2, QueueAssumption DEF Tickets
  <2>3. AllowedAt(snap, revision) \subseteq ruled
    BY <1>1 DEF Words
  <2> QED
    BY <2>1, <2>2, <2>3 DEF AllowedAt, Warrant
<1>6. (\E s \in Granted(h) : grants[s]) => Warrant(h.scope, Program[h.launch])
  BY DEF Granted, Words, Warrant
<1>7. \A d \in decisions' : d.allow => Warrant(d.held.scope, Program[d.held.launch])
  <2>1. CASE r # "ask" /\ Decided(h, r = "allow")
    BY <1>4, <1>5, <2>1
  <2>2. CASE Granted(h) # {} /\ Decided(h, \E s \in Granted(h) : grants[s])
    BY <1>4, <1>6, <2>2
  <2>3. CASE Decided(h, FALSE)
    BY <1>4, <2>3
  <2>4. CASE Wait(h)
    BY <2>4 DEF Wait, Words
  <2> QED
    BY <1>1, <2>1, <2>2, <2>3, <2>4
<1> QED
  BY <1>1, <1>7 DEF Words, Warrant, Said, AllowedAt

LEMMA RotateWords ==
    ASSUME TypeInv, Words, Rotate
    PROVE  Words'
<1>1. /\ UNCHANGED <<ruled, consent, policy, revision, snap, pc, answers, decided, decisions>>
      /\ pc = "poll"
  BY DEF Rotate, worldVars, turnVars
<1>2. ASSUME NEW s \in DOMAIN grants', grants'[s]
      PROVE  Said(s) \in consent'
  <2>1. PICK r \in Rebound : s = [r EXCEPT !.session = sess + 1]
    BY DEF Rotate
  <2>2. r \in Scopes /\ r \in DOMAIN grants /\ r.session = sess
    BY DEF Rebound, TypeInv, AskTypes
  <2>3. [s EXCEPT !.session = sess] = r /\ Said(s) = Said(r)
    BY <2>1, <2>2 DEF Scopes, Said
  <2>4. grants'[s] = grants[[s EXCEPT !.session = sess]]
    BY DEF Rotate
  <2>5. grants[r]
    BY <1>2, <2>3, <2>4
  <2> QED
    BY <1>1, <2>2, <2>3, <2>5 DEF Words
<1> QED
  BY <1>1, <1>2 DEF Words, Warrant, Said, AllowedAt

LEMMA NextWords ==
    ASSUME TypeInv, TicketInv, Words, Next
    PROVE  Words'
<1> USE DEF worldVars, kernelVars, cacheVars, driverVars, askerVars, turnVars, outerVars, boundVars
<1>1. CASE Fail
  <2>1. /\ answers' = answers /\ grants' = [s \in {} |-> TRUE] /\ decided' = {} /\ decisions' = {}
        /\ UNCHANGED <<revision, policy>> /\ pc' = "poll"
    BY <1>1 DEF Fail, CancelAll
  <2> QED
    BY <2>1, WordsStay
<1>2. CASE Answered
  <2>1. /\ snap' = policy
        /\ UNCHANGED <<ruled, consent, policy, revision, answers, grants, decided, decisions>>
    BY <1>2 DEF Answered
  <2> QED
    BY <2>1 DEF Words, Warrant, Said, AllowedAt
<1>3. CASE HandsLie /\ ~Fail /\ ~World /\ ~Answered
  <2>1. UNCHANGED <<decided, decisions, revision>>
    BY <1>3, HandsStay
  <2>2. UNCHANGED <<policy, grants, snap>> /\ answers' \subseteq answers
    <3>1. (\E t \in kmap : Offer(t)) \/ (\E v \in outbox : Apply(v)) => UNCHANGED <<policy, grants, snap, answers>>
      BY DEF Offer, Apply
    <3>2. Begin \/ PolicyChanged \/ Told \/ StartIntake => UNCHANGED <<policy, grants, snap, answers>>
      BY DEF Begin, PolicyChanged, Told, StartIntake
    <3>3. (\E a \in answers : Stale(a)) => UNCHANGED <<policy, grants, snap>> /\ answers' \subseteq answers
      BY DEF Stale
    <3>4. (\E l \in Launches : Register(l)) /\ ~Fail => UNCHANGED <<policy, grants, snap, answers>>
      BY DEF Register
    <3>5. SealFails \/ Drained \/ Renewed => UNCHANGED <<policy, grants, snap, answers>>
      BY DEF SealFails, Drained, Renewed
    <3>6. Enlist /\ ~Fail => UNCHANGED <<policy, grants, snap, answers>>
      BY DEF Enlist
    <3> QED
      BY <1>3, <3>1, <3>2, <3>3, <3>4, <3>5, <3>6 DEF HandsLie
  <2>3. pc' \in {"verdicts", "telling", "intake", "asking"} => pc \in {"verdicts", "telling", "intake", "asking"}
    <3>1. ~(pc = "answers" /\ pc' = "verdicts")
      <4>1. (\E t \in kmap : Offer(t)) \/ (\E v \in outbox : Apply(v)) => pc' = pc
        BY DEF Offer, Apply
      <4>2. (\E a \in answers : Stale(a)) \/ SealFails => pc' = pc
        BY DEF Stale, SealFails
      <4>3. Begin \/ PolicyChanged \/ Told \/ StartIntake \/ Drained \/ Renewed \/ Enlist
            \/ (\E l \in Launches : Register(l)) => pc # "answers"
        BY DEF Begin, PolicyChanged, Told, StartIntake, Drained, Renewed, Enlist, Register
      <4> QED
        BY <1>3, <4>1, <4>2, <4>3 DEF HandsLie
    <3> QED
      BY <1>3, <3>1, MovesLie DEF Moves
  <2> QED
    BY <2>1, <2>2, <2>3, WordsStay
<1>4. CASE FlushOne \/ IntakeOne
  <2>1. UNCHANGED <<revision, decided, decisions, pc, policy, snap, grants, answers>>
    BY <1>4, Reading
  <2> QED
    BY <2>1, WordsStay
<1>5. CASE ChangePolicy
  <2>1. /\ ruled' = ruled \cup AllowedAt(policy, revision + 1) /\ revision' = revision + 1
        /\ grants' = [s \in {} |-> TRUE] /\ pc' = "barrier"
        /\ UNCHANGED <<policy, consent, answers, decided, decisions>>
    BY <1>5 DEF ChangePolicy, CancelAll
  <2> QED
    BY <2>1 DEF Words, Warrant, Said, AllowedAt
<1>6. CASE Renew
  <2>1. /\ grants' = [s \in {} |-> TRUE] /\ pc' = "draining"
        /\ UNCHANGED <<revision, policy, answers, decided, decisions>>
    BY <1>6 DEF Renew, CancelAll
  <2> QED
    BY <2>1, WordsStay
<1>7. ASSUME NEW d \in decided, Tell(d), ~Fail
      PROVE  Words'
  <2>1. /\ decided' \subseteq decided /\ pc = "verdicts" /\ pc' = "telling"
        /\ UNCHANGED <<revision, policy, answers, grants, decisions, snap>>
    BY <1>7 DEF Tell
  <2> QED
    BY <2>1, WordsStay
<1>8. CASE EndIntake
  <2>1. /\ pc = "intake" /\ UNCHANGED <<revision, policy, answers, grants, decided, decisions, snap>>
    BY <1>8 DEF EndIntake
  <2> QED
    BY <2>1, WordsStay
<1>9. CASE DecideRound /\ ~Fail
  <2>1. /\ decisions' = {} /\ pc' = "poll"
        /\ UNCHANGED <<revision, policy, answers, grants, decided>>
    BY <1>9 DEF DecideRound
  <2> QED
    BY <2>1, WordsStay
<1> QED
  BY <1>1, <1>2, <1>3, <1>4, <1>5, <1>6, <1>7, <1>8, <1>9, WorldWords, TakeAnswerWords, DecideWords,
     RotateWords, Steps DEF HandsLie

---------------------------------------------------------------------------
(* Who writes the rules in the record. *)

LEMMA Writes ==
    ASSUME Next
    PROVE  \/ policy' = policy
           \/ \E g \in Programs, r \in {"ask", "allow", "deny"} : Edit(g, r)
           \/ \E a \in answers : TakeAnswer(a)
<1> USE DEF worldVars, kernelVars, cacheVars, driverVars, askerVars, turnVars, outerVars, boundVars
<1>1. Fail => policy' = policy
  BY DEF Fail
<1>2. (\E t \in kmap : Offer(t)) \/ (\E v \in outbox : Apply(v)) => policy' = policy
  BY DEF Offer, Apply
<1>3. World => policy' = policy \/ \E g \in Programs, r \in {"ask", "allow", "deny"} : Edit(g, r)
  BY DEF World, Answer, Ends
<1>4. Begin \/ ChangePolicy \/ PolicyChanged \/ FlushOne \/ IntakeOne \/ Answered \/ Told => policy' = policy
  BY DEF Begin, ChangePolicy, PolicyChanged, FlushOne, IntakeOne, Answered, Told
<1>5. (\E a \in answers : Stale(a)) => policy' = policy
  BY DEF Stale
<1>6. ASSUME NEW d \in decided, Tell(d), ~Fail
      PROVE  policy' = policy
  BY <1>6 DEF Tell
<1>7. StartIntake \/ EndIntake \/ Decide => policy' = policy
  BY DEF StartIntake, EndIntake, Decide
<1>8. DecideRound /\ ~Fail => policy' = policy
  BY DEF DecideRound
<1>9. ASSUME NEW l \in Launches, Register(l), ~Fail
      PROVE  policy' = policy
  BY <1>9 DEF Register
<1>10. Renew \/ SealFails \/ Drained \/ Renewed \/ Rotate => policy' = policy
  BY DEF Renew, SealFails, Drained, Renewed, Rotate
<1>11. Enlist /\ ~Fail => policy' = policy
  BY DEF Enlist
<1> QED
  BY <1>1, <1>2, <1>3, <1>4, <1>5, <1>6, <1>7, <1>8, <1>9, <1>10, <1>11, Steps

LEMMA EditCounts ==
    ASSUME TypeInv, NEW g \in Programs, NEW r \in {"ask", "allow", "deny"}, Edit(g, r)
    PROVE  changes' # changes
  BY DEF Edit, Change, TypeInv, PlainTypes

LEMMA AnswerOfNow ==
    ASSUME TypeInv, TicketInv, Next, policy' # policy, changes' = changes
    PROVE  \E a \in answers \ answers' : Current(a.scope)
<1>1. PICK a \in answers : TakeAnswer(a)
  BY Writes, EditCounts
<1>2. Live(a) /\ answers' = answers \ {a}
  BY <1>1 DEF TakeAnswer
<1>3. PICK h \in waiting : h.scope = a.scope
  BY <1>2 DEF Live
<1>4. Current(h.scope)
  BY DEF TicketInv, Hands, Rightful
<1> QED
  BY <1>2, <1>3, <1>4

LEMMA DenialKept ==
    ASSUME TypeInv, Next, NEW g \in Programs, policy[g] = "deny", policy'[g] # "deny"
    PROVE  changes' # changes
<1>1. CASE \E q \in Programs, r \in {"ask", "allow", "deny"} : Edit(q, r)
  BY <1>1, EditCounts
<1>2. ASSUME NEW a \in answers, TakeAnswer(a)
      PROVE  FALSE
  <2> DEFINE q == Program[arch[a.scope.token].launch]
             rule == a.answer = "deny" \/ (a.answer = "always" /\ ~Refused(q))
  <2>1. PICK written \in BOOLEAN :
          /\ written => rule
          /\ policy' = IF written
                       THEN [policy EXCEPT ![q] = IF a.answer = "always" THEN "allow" ELSE "deny"]
                       ELSE policy
    BY <1>2 DEF TakeAnswer
  <2> HIDE DEF q
  <2>2. written /\ q = g /\ a.answer = "always"
    BY <2>1 DEF TypeInv, WorldTypes, Policies
  <2>3. ~Refused(q)
    BY <2>1, <2>2
  <2> QED
    BY <2>2, <2>3 DEF Refused
<1> QED
  BY <1>1, <1>2, Writes

---------------------------------------------------------------------------
(* The theorems. *)

QueueInv == TypeInv /\ TicketInv /\ StageInv /\ ConsentInv

\* What the invariants that follow rest on, in every state of every behaviour.
THEOREM QueueInvariant == Spec => []QueueInv
<1>1. Init => QueueInv
  BY InitTypes, InitTickets, InitStages, InitConsent DEF QueueInv
<1>2. QueueInv /\ [Next]_vars => QueueInv'
  <2> SUFFICES ASSUME QueueInv, [Next]_vars PROVE QueueInv'
    OBVIOUS
  <2> USE DEF QueueInv
  <2>1. TypeInv'
    BY NextTypes
  <2>2. CASE Next
    BY <2>1, <2>2, NextTickets, NextStages, NextAcceptances, NextWords, NextPassed DEF ConsentInv
  <2>3. CASE UNCHANGED vars
    <3> USE <2>3 DEF vars, worldVars, kernelVars, driverVars, askerVars, turnVars, cacheVars
    <3>1. StageInv'
      BY SameStages
    <3>2. TicketInv'
      <4>1. Hands' = Hands
        BY DEF Hands, Range
      <4>2. ASSUME NEW h \in Hands PROVE Rightful(h)'
        BY DEF TicketInv, Rightful, Current, Scope, Packets
      <4>3. Launched' /\ InPhase'
        BY DEF TicketInv, Launched, InPhase
      <4> QED
        BY <4>1, <4>2, <4>3 DEF TicketInv
    <3>3. Acceptances' /\ PassesOnlyWithConsent'
      BY DEF ConsentInv, Acceptances, PassesOnlyWithConsent, Warrant, Said, Current, Scope, Packets
    <3>4. Words'
      BY DEF ConsentInv, Words, Warrant, Said, AllowedAt
    <3> QED
      BY <2>1, <3>1, <3>2, <3>3, <3>4 DEF ConsentInv
  <2> QED
    BY <2>2, <2>3
<1> QED
  BY <1>1, <1>2, PTL DEF Spec

\* Once the policy or the epoch has changed, no acceptance decided before is on
\* its way to the kernel: the barrier waits for acks, and an empty acks means an
\* empty outbox.
THEOREM NoStaleAcceptHolds == Spec => []NoStaleAccept
<1>1. QueueInv => NoStaleAccept
  BY DEF QueueInv, ConsentInv, Acceptances, NoStaleAccept
<1> QED
  BY <1>1, QueueInvariant, PTL

\* Every packet let out had the person's word for its own launch, epoch and
\* revision, or rules that allowed its program in that revision.
THEOREM ConsentHolds == Spec => []PassesOnlyWithConsent
<1>1. QueueInv => PassesOnlyWithConsent
  BY DEF QueueInv, ConsentInv
<1> QED
  BY <1>1, QueueInvariant, PTL

\* The controller writes a rule for an answer to a question of now only.
THEOREM ObsoleteAnswersWriteNothing == Spec => ObsoleteAnswerWritesNothing
<1>1. QueueInv /\ [Next]_vars =>
        [policy' # policy /\ changes' = changes => \E a \in answers \ answers' : Current(a.scope)]_vars
  BY AnswerOfNow DEF QueueInv
<1> QED
  BY <1>1, QueueInvariant, PTL DEF Spec, ObsoleteAnswerWritesNothing

\* The controller never turns a denial in the record into anything else.
THEOREM DenialsStand == Spec => DenialStands
<1>1. QueueInv /\ [Next]_vars =>
        [\A g \in Programs : policy[g] = "deny" /\ policy'[g] # "deny" => changes' # changes]_vars
  BY DenialKept DEF QueueInv
<1> QED
  BY <1>1, QueueInvariant, PTL DEF Spec, DenialStands


---------------------------------------------------------------------------
(* A packet that is held is on its way. *)

Reached == HeldByKernel \subseteq Unread \cup Sent \cup Pended

\* A packet comes to the kernel's queue, and word of it to the socket.
LEMMA OfferedPacket ==
    ASSUME TypeInv, NEW t \in kmap, Offer(t)
    PROVE  /\ Packets' = Packets \cup {Len(pk) + 1}
           /\ \A p \in Packets : pk'[p] = pk[p]
           /\ pk'[Len(pk) + 1].st = "held"
           /\ Unread' = Unread \cup {Len(pk) + 1} /\ Sent' = Sent /\ Pended' = Pended
           /\ \A n \in Range(inbox') : n \in Range(inbox) \/ n.kind = "packet"
<1> USE DEF driverVars
<1> DEFINE m == [kind |-> "packet", packet |-> Len(pk) + 1, ok |-> TRUE]
           new == [token |-> t, st |-> "held", by |-> NoScope]
           M == [kind : {"packet", "ack"}, packet : Packets', ok : BOOLEAN]
<1>1. inbox' = Append(inbox, m) /\ pk' = Append(pk, new) /\ UNCHANGED <<outbox, pend>>
  BY DEF Offer
<1>2. Packets = 1 .. Len(pk) /\ Len(pk) \in Nat /\ pk \in Seq(PacketTypes)
  BY LenProperties DEF TypeInv, KernelTypes, PacketTypes, Packets
<1>3. new \in PacketTypes /\ new.st = "held"
  BY DEF TypeInv, KernelTypes, PacketTypes, NoScope, Scopes
<1> HIDE DEF new
<1>4. /\ pk' \in Seq(PacketTypes) /\ Len(pk') = Len(pk) + 1
      /\ \A p \in 1 .. Len(pk) : pk'[p] = pk[p]
      /\ pk'[Len(pk) + 1] = new
  BY <1>1, <1>2, <1>3, AppendProperties
<1>5. Packets' = Packets \cup {Len(pk) + 1}
  BY <1>2, <1>4, LenProperties DEF Packets
<1>6. m \in M /\ m.kind = "packet" /\ m.packet = Len(pk) + 1
  BY <1>5
<1> HIDE DEF m
<1>7. inbox \in Seq(M)
  <2>1. [kind : {"packet", "ack"}, packet : Packets, ok : BOOLEAN] \subseteq M
    BY <1>5
  <2> HIDE DEF M
  <2> QED
    BY <2>1, SeqMonotonic DEF TypeInv, KernelTypes
<1> HIDE DEF M
<1>8. Range(inbox') = Range(inbox) \cup {m}
  BY <1>1, <1>6, <1>7, OfAppend
<1>9. Unread' = {n.packet : n \in {x \in Range(inbox') : x.kind = "packet"}}
  BY DEF Unread, Range
<1>10. Unread' = Unread \cup {Len(pk) + 1} /\ Sent' = Sent /\ Pended' = Pended
  BY <1>1, <1>6, <1>8, <1>9, UnreadOf DEF Sent, Pended
<1> QED
  BY <1>2, <1>3, <1>4, <1>5, <1>6, <1>8, <1>10

\* What those steps do not touch of the kernel's queue.
LEMMA QueueLies ==
    ASSUME HandsLie, ~Fail, ~(\E t \in kmap : Offer(t)), ~(\E v \in outbox : Apply(v))
    PROVE  UNCHANGED <<pk, inbox, outbox, pend>>
<1> USE DEF worldVars, kernelVars, cacheVars, driverVars, askerVars, turnVars, outerVars, boundVars
<1>1. UNCHANGED <<inbox, outbox, pend>>
  BY HandsStay, StagesLie
<1>2. World \/ Begin \/ PolicyChanged \/ (\E a \in answers : Stale(a)) \/ Answered \/ Told \/ StartIntake
      => pk' = pk
  BY DEF World, Edit, Answer, Ends, Begin, PolicyChanged, Stale, Answered, Told, StartIntake
<1>3. (\E l \in Launches : Register(l)) /\ ~Fail => pk' = pk
  BY DEF Register
<1>4. SealFails \/ Drained \/ Renewed => pk' = pk
  BY DEF SealFails, Drained, Renewed
<1>5. Enlist /\ ~Fail => pk' = pk
  BY DEF Enlist
<1> QED
  BY <1>1, <1>2, <1>3, <1>4, <1>5 DEF HandsLie

LEMMA NextReached ==
    ASSUME TypeInv, TicketInv, StageInv, Reached, Next
    PROVE  Reached'
<1> USE DEF worldVars, kernelVars, cacheVars, driverVars, askerVars, turnVars, outerVars, boundVars
<1>0. \A p \in Packets : pk'[p].st = "held" => pk[p].st = "held"
  BY PacketsStay
<1>1. ASSUME Unread \cup Sent \cup Pended \subseteq Unread' \cup Sent' \cup Pended', Packets' = Packets
      PROVE  Reached'
  BY <1>0, <1>1 DEF Reached, HeldByKernel
<1>2. CASE Fail \/ Rotate
  <2>1. Close
    BY <1>2 DEF Fail, Rotate
  <2>2. HeldByKernel' = {}
    <3>1. \A p \in Packets : [pk[p] EXCEPT !.st = "dropped"].st = "dropped"
      BY PacketType DEF PacketTypes
    <3>2. DOMAIN pk' = Packets /\ \A p \in Packets : pk'[p].st # "held"
      BY <2>1, <3>1 DEF Close
    <3> QED
      BY <3>2 DEF HeldByKernel, Packets
  <2> QED
    BY <2>2 DEF Reached
<1>3. ASSUME NEW t \in kmap, Offer(t)
      PROVE  Reached'
  BY <1>0, <1>3, OfferedPacket DEF Reached, HeldByKernel
<1>4. ASSUME NEW v \in outbox, Apply(v)
      PROVE  Reached'
  <2>1. Packets' = Packets /\ pk'[v.packet].st # "held"
    <3>1. /\ v.packet \in DOMAIN pk /\ DOMAIN pk' = DOMAIN pk
          /\ pk'[v.packet] = pk[v.packet] \/ pk'[v.packet].st \in {"passed", "dropped"}
      BY <1>4, Applied DEF TypeInv
    <3>2. pk[v.packet] \in PacketTypes
      BY <3>1, PacketType DEF Packets
    <3>3. ASSUME pk[v.packet].st = "held"
          PROVE  pk'[v.packet].st # "held"
      <4>1. \/ pk' = [pk EXCEPT ![v.packet].st = "passed", ![v.packet].by = v.scope]
            \/ pk' = [pk EXCEPT ![v.packet].st = "dropped"]
        BY <1>4, <3>3 DEF Apply
      <4> QED
        BY <3>1, <3>2, <4>1 DEF PacketTypes
    <3> QED
      BY <3>1, <3>3 DEF Packets
  <2>2. PICK ok \in BOOLEAN : inbox' = Append(inbox, [kind |-> "ack", packet |-> v.packet, ok |-> ok])
    BY <1>4 DEF Apply
  <2> DEFINE m == [kind |-> "ack", packet |-> v.packet, ok |-> ok]
  <2>3. m \in [kind : {"packet", "ack"}, packet : Packets, ok : BOOLEAN]
    BY DEF TypeInv, KernelTypes
  <2>4. inbox' = Append(inbox, m)
    BY <2>2
  <2> HIDE DEF m
  <2>5. Range(inbox) \subseteq Range(inbox')
    <3> DEFINE M == [kind : {"packet", "ack"}, packet : Packets, ok : BOOLEAN]
    <3>1. m \in M /\ inbox \in Seq(M)
      BY <2>3 DEF TypeInv, KernelTypes
    <3> HIDE DEF M
    <3> QED
      BY <2>4, <3>1, OfAppend
  <2>6. Unread' = {n.packet : n \in {x \in Range(inbox') : x.kind = "packet"}}
    BY DEF Unread, Range
  <2>7. Unread \subseteq Unread' /\ Pended' = Pended
    BY <1>4, <2>5, <2>6, UnreadOf DEF Pended, Apply
  <2>8. \A p \in Sent : p # v.packet => p \in Sent'
    BY <1>4 DEF Apply, Sent
  <2> QED
    BY <1>0, <2>1, <2>7, <2>8 DEF Reached, HeldByKernel
<1>5. CASE HandsLie /\ ~Fail /\ ~(\E t \in kmap : Offer(t)) /\ ~(\E v \in outbox : Apply(v))
  BY <1>1, <1>5, QueueLies DEF Packets, Unread, Sent, Pended
<1>6. ASSUME NEW hs \in SUBSET pend, NEW vs, {v.packet : v \in vs} = {h.packet : h \in hs},
             Send(vs), pend' = pend \ hs, inbox' = inbox, Packets' = Packets
      PROVE  Reached'
  <2>1. Unread' = Unread
    BY <1>6 DEF Unread
  <2>2. Sent' = Sent \cup {h.packet : h \in hs}
    BY <1>6 DEF Send, Sent
  <2>3. Pended \subseteq Pended' \cup {h.packet : h \in hs}
    BY <1>6 DEF Pended
  <2> QED
    BY <1>1, <1>6, <2>1, <2>2, <2>3
<1>7. CASE ChangePolicy \/ Renew
  <2>1. DropPending /\ inbox' = inbox /\ pk' = pk
    BY <1>7 DEF ChangePolicy, Renew
  <2> DEFINE vs == {DropOf(h.packet) : h \in pend}
  <2>2. \A p : DropOf(p).packet = p
    BY DEF DropOf
  <2>3. Send(vs) /\ pend' = pend \ pend /\ {v.packet : v \in vs} = {h.packet : h \in pend}
    BY <2>1, <2>2 DEF DropPending
  <2> HIDE DEF vs
  <2> QED
    BY <1>6, <2>1, <2>3 DEF Packets
<1>8. CASE FlushOne \/ IntakeOne
  <2>1. /\ inbox # <<>> /\ (HearAck \/ HearPacket)
        /\ UNCHANGED <<arch, sess, epoch, revision>>
    BY <1>8, Reading
  <2> DEFINE m == Head(inbox)
  <2>2. Range(inbox) = {m} \cup Range(Tail(inbox))
    BY <2>1, OfTail DEF TypeInv, KernelTypes
  <2>3. Unread' = {n.packet : n \in {x \in Range(inbox') : x.kind = "packet"}}
    BY DEF Unread, Range
  <2>4. CASE HearAck
    <3>1. /\ inbox' = Tail(inbox) /\ m.kind = "ack" /\ UNCHANGED <<pk, outbox, pend>>
      BY <2>4 DEF HearAck
    <3> HIDE DEF m
    <3>2. Unread' = Unread
      BY <2>2, <2>3, <3>1, UnreadOf
    <3> QED
      BY <1>1, <3>1, <3>2 DEF Packets, Sent, Pended
  <2>5. CASE HearPacket
    <3>1. /\ inbox' = Tail(inbox) /\ m.kind = "packet" /\ pk' = pk
          /\ \/ \E h \in Tickets :
                   h.packet = m.packet /\ pend' = pend \cup {h} /\ UNCHANGED <<outbox, acks>>
             \/ pend' = pend /\ Send({DropOf(m.packet)})
      BY <2>1, <2>5, HeardTicket DEF TicketInv
    <3> HIDE DEF m
    <3>2. Unread \subseteq Unread' \cup {m.packet}
      BY <2>2, <2>3, <3>1, UnreadOf
    <3>3. ASSUME NEW h \in Tickets, h.packet = m.packet, pend' = pend \cup {h}, outbox' = outbox
          PROVE  Reached'
      <4>1. Pended' = Pended \cup {m.packet} /\ Sent' = Sent
        BY <3>3 DEF Pended, Sent
      <4> QED
        BY <1>1, <3>1, <3>2, <4>1 DEF Packets
    <3>4. ASSUME pend' = pend, Send({DropOf(m.packet)})
          PROVE  Reached'
      <4>1. DropOf(m.packet).packet = m.packet
        BY DEF DropOf
      <4>2. Pended' = Pended /\ Sent' = Sent \cup {m.packet}
        BY <3>4, <4>1 DEF Pended, Sent, Send
      <4> QED
        BY <1>1, <3>1, <3>2, <4>2 DEF Packets
    <3> QED
      BY <3>1, <3>3, <3>4
  <2> QED
    BY <2>1, <2>4, <2>5
<1>9. ASSUME NEW a \in answers, TakeAnswer(a)
      PROVE  Reached'
  <2>1. UNCHANGED <<pk, inbox, outbox, pend>>
    BY <1>9 DEF TakeAnswer
  <2> QED
    BY <1>1, <2>1 DEF Packets, Unread, Sent, Pended
<1>10. CASE EndIntake \/ Decide
  <2>1. UNCHANGED <<pk, inbox, outbox, pend>>
    BY <1>10 DEF EndIntake, Decide
  <2> QED
    BY <1>1, <2>1 DEF Packets, Unread, Sent, Pended
<1>11. ASSUME NEW d \in decided, Tell(d), ~Fail
       PROVE  Reached'
  <2> DEFINE v == Verdict(d.held, d.allow /\ snap[Program[d.held.launch]] # "deny")
             h == d.held
  <2>1. /\ h \in pend /\ Send({v}) /\ pend' = pend \ {h} /\ UNCHANGED <<inbox, pk>>
    BY <1>11 DEF Tell, Fresh
  <2>2. v.packet = h.packet
    BY DEF Verdict
  <2> HIDE DEF v, h
  <2>3. {w.packet : w \in {v}} = {k.packet : k \in {h}} /\ {h} \in SUBSET pend
    BY <2>1, <2>2
  <2> QED
    BY <1>6, <2>1, <2>3 DEF Packets
<1>12. CASE DecideRound /\ ~Fail
  <2> DEFINE vs == {Verdict(d.held, d.allow) : d \in decisions}
  <2>1. /\ Settling \subseteq pend /\ Send(vs) /\ pend' = pend \ Settling /\ UNCHANGED <<inbox, pk>>
    BY <1>12 DEF DecideRound, Fresh, Settling
  <2>2. \A d : Verdict(d.held, d.allow).packet = d.held.packet
    BY DEF Verdict
  <2>3. {v.packet : v \in vs} = {h.packet : h \in Settling}
    BY <2>2 DEF Settling
  <2> HIDE DEF vs
  <2> QED
    BY <1>6, <2>1, <2>3 DEF Packets
<1> QED
  BY <1>2, <1>3, <1>4, <1>5, <1>7, <1>8, <1>9, <1>10, <1>11, <1>12, Steps DEF HandsLie

---------------------------------------------------------------------------
(* What waits has a question, and a question an answer to come. *)

\* The scopes of what waits are those of the questions, open or in the queue; a
\* question of this round is with one thread, or its answer in the channel.
Waiters == {h.scope : h \in waiting}
Questions ==
    /\ open \cup Range(queue) = Waiters
    /\ Once(queue) /\ open \cap Range(queue) = {}
    /\ \A w \in workers : w.round <= round /\ (w.round = round => w.scope \in open)
    /\ \A a \in answers : a.round <= round /\ (a.round = round => a.scope \in open)
    /\ \A a, b \in answers : a.round = round /\ b.round = round /\ a.scope = b.scope => a = b
    /\ \A a \in answers, w \in workers : a.round = round /\ w.round = round => a.scope # w.scope
    /\ \A s \in open : \/ \E w \in workers : w.scope = s /\ w.round = round
                       \/ \E a \in answers : a.scope = s /\ a.round = round

\* What waits, or has its answer, is what is pending for the person.
Awaited == \A h \in pending : h \in waiting \/ \E d \in decided : d.held = h

LEMMA SameQuestions ==
    ASSUME Questions, UNCHANGED <<waiting, open, queue, round, workers, answers>>
    PROVE  Questions'
<1>1. Range(queue)' = Range(queue) /\ Once(queue)' = Once(queue) /\ Waiters' = Waiters
  BY DEF Range, Once, Waiters
<1> QED
  BY <1>1 DEF Questions

\* The questions are cancelled: none of the threads is of the round that begins.
LEMMA CancelledQuestions ==
    ASSUME TypeInv, Questions, CancelQuestions, UNCHANGED <<workers, answers>>
    PROVE  Questions'
<1>1. Range(queue)' = {} /\ Once(queue)' /\ Waiters' = {} /\ open' = {}
  BY DEF CancelQuestions, Range, Once, Waiters
<1>2. \A w \in workers : w.round \in Nat /\ w.round <= round
  BY DEF TypeInv, AskTypes, Questions
<1>3. \A a \in answers : a.round \in Nat /\ a.round <= round
  BY DEF TypeInv, AskTypes, Questions
<1>4. round' = round + 1 /\ round \in Nat
  BY DEF CancelQuestions, TypeInv, PlainTypes
<1>5. \A w \in workers : w.round <= round' /\ w.round # round'
  BY <1>2, <1>4
<1>6. \A a \in answers : a.round <= round' /\ a.round # round'
  BY <1>3, <1>4
<1> QED
  BY <1>1, <1>5, <1>6 DEF Questions

\* The first questions of a queue are opened, each with its thread.
LEMMA OpenedQuestions ==
    ASSUME TypeInv, Questions, NEW q \in Seq(Scopes), Once(q), open \cap Range(q) = {},
           Ask(q, open, workers), UNCHANGED <<round, answers>>,
           open \cup Range(q) = Waiters'
    PROVE  Questions'
<1>1. PICK first \in SUBSET Scopes :
          /\ queue' \in Seq(Scopes)
          /\ Range(q) = first \cup Range(queue')
          /\ Once(queue') /\ first \cap Range(queue') = {}
          /\ open' = open \cup first
          /\ workers' = workers \cup {[round |-> round, scope |-> s] : s \in first}
  <2>1. IsFiniteSet(open) /\ IsFiniteSet(workers)
    BY DEF TypeInv, AskTypes
  <2>2. \E first \in SUBSET Scopes :
            /\ IsFiniteSet(first)
            /\ queue' \in Seq(Scopes)
            /\ Range(q) = first \cup Range(queue')
            /\ Once(q) => Once(queue') /\ first \cap Range(queue') = {}
            /\ open' = open \cup first
            /\ workers' = workers \cup {[round |-> round, scope |-> s] : s \in first}
    BY ONLY <2>1, Ask(q, open, workers), q \in Seq(Scopes), Asking
  <2> QED
    BY ONLY <2>2, Once(q), Zenon
<1> DEFINE new == {[round |-> round, scope |-> s] : s \in first}
<1>2. \A w \in new : w.round = round /\ w.scope \in first
  OBVIOUS
<1>3. \A s \in first : \E w \in new : w.scope = s /\ w.round = round
  <2> SUFFICES ASSUME NEW s \in first PROVE \E w \in new : w.scope = s /\ w.round = round
    OBVIOUS
  <2>1. [round |-> round, scope |-> s] \in new
    OBVIOUS
  <2> QED
    BY <2>1
<1>4. workers' = workers \cup new
  BY <1>1
<1> HIDE DEF new
<1>5. round \in Nat /\ round <= round
  BY DEF TypeInv, PlainTypes
<1>6. \A s \in open : s \notin first
  BY <1>1
<1>7. \A w \in workers' : w.round <= round /\ (w.round = round => w.scope \in open')
  BY <1>1, <1>2, <1>4, <1>5 DEF Questions
<1>8. \A a \in answers, w \in workers' : a.round = round /\ w.round = round => a.scope # w.scope
  BY <1>2, <1>4, <1>6 DEF Questions
<1>9. \A s \in open' : \/ \E w \in workers' : w.scope = s /\ w.round = round
                       \/ \E a \in answers : a.scope = s /\ a.round = round
  BY <1>1, <1>3, <1>4 DEF Questions
<1>10. /\ open' \cup Range(queue)' = Waiters'
       /\ Once(queue)' /\ open' \cap Range(queue)' = {}
  BY <1>1
<1>11. \A a \in answers : a.round <= round /\ (a.round = round => a.scope \in open')
  BY <1>1 DEF Questions
<1>12. \A a, b \in answers : a.round = round /\ b.round = round /\ a.scope = b.scope => a = b
  BY DEF Questions
<1> QED
  BY <1>7, <1>8, <1>9, <1>10, <1>11, <1>12 DEF Questions

LEMMA AnswerQuestions ==
    ASSUME TypeInv, Questions, NEW w \in workers, NEW b, Answer(w, b)
    PROVE  Questions'
<1> DEFINE new == [round |-> w.round, scope |-> w.scope, answer |-> b]
<1>1. /\ answers' = answers \cup {new} /\ workers' = workers \ {w}
      /\ UNCHANGED <<waiting, open, queue, round>>
  BY DEF Answer, askerVars
<1>2. new.round = w.round /\ new.scope = w.scope
  OBVIOUS
<1> HIDE DEF new
<1>3. Range(queue)' = Range(queue) /\ Once(queue)' = Once(queue) /\ Waiters' = Waiters
  BY <1>1 DEF Range, Once, Waiters
<1>4. w.round <= round /\ (w.round = round => w.scope \in open)
  BY DEF Questions
<1>5. \A a \in answers' : a.round <= round /\ (a.round = round => a.scope \in open)
  BY <1>1, <1>2, <1>4 DEF Questions
<1>6. \A a \in answers : a.round = round /\ w.round = round => a.scope # w.scope
  BY DEF Questions
<1>7. \A a, c \in answers' : a.round = round /\ c.round = round /\ a.scope = c.scope => a = c
  BY <1>1, <1>2, <1>6 DEF Questions
<1>8. \A u \in workers' : u.round = w.round => u.scope # w.scope
  <2>1. \A u \in workers : u \in [round : Nat, scope : Scopes]
    BY DEF TypeInv, AskTypes
  <2> QED
    BY <1>1, <2>1
<1>9. \A a \in answers', u \in workers' : a.round = round /\ u.round = round => a.scope # u.scope
  BY <1>1, <1>2, <1>8 DEF Questions
<1>10. \A s \in open : \/ \E u \in workers' : u.scope = s /\ u.round = round
                       \/ \E a \in answers' : a.scope = s /\ a.round = round
  BY <1>1, <1>2 DEF Questions
<1>11. \A u \in workers' : u.round <= round /\ (u.round = round => u.scope \in open)
  BY <1>1 DEF Questions
<1> QED
  BY <1>1, <1>3, <1>5, <1>7, <1>9, <1>10, <1>11 DEF Questions

LEMMA StaleQuestions ==
    ASSUME Questions, NEW a \in answers, Stale(a)
    PROVE  Questions'
<1>1. /\ answers' = answers \ {a} /\ ~Live(a)
      /\ UNCHANGED <<waiting, open, queue, round, workers>>
  BY DEF Stale, askerVars
<1>2. a.round # round
  BY <1>1 DEF Live, Questions, Waiters
<1>3. Range(queue)' = Range(queue) /\ Once(queue)' = Once(queue) /\ Waiters' = Waiters
  BY <1>1 DEF Range, Once, Waiters
<1>4. \A s \in open : \/ \E w \in workers : w.scope = s /\ w.round = round
                      \/ \E b \in answers' : b.scope = s /\ b.round = round
  BY <1>1, <1>2 DEF Questions
<1> QED
  BY <1>1, <1>3, <1>4 DEF Questions

LEMMA TakenQuestions ==
    ASSUME Questions, NEW a \in answers, TakeAnswer(a)
    PROVE  Questions'
<1>1. /\ answers' = answers \ {a} /\ Live(a)
      /\ waiting' = waiting \ {h \in waiting : h.scope = a.scope}
      /\ open' = open \ {a.scope}
      /\ UNCHANGED <<queue, round, workers>>
  BY DEF TakeAnswer
<1>2. a.round = round /\ a.scope \in open /\ a.scope \notin Range(queue)
  BY <1>1 DEF Live, Questions
<1>3. Range(queue)' = Range(queue) /\ Once(queue)' = Once(queue)
  BY <1>1 DEF Range, Once
<1>4. Waiters' = Waiters \ {a.scope}
  BY <1>1 DEF Waiters
<1>5. \A w \in workers : w.round = round => w.scope # a.scope
  BY <1>2 DEF Questions
<1>6. \A b \in answers' : b.round = round => b.scope # a.scope
  BY <1>1, <1>2 DEF Questions
<1>7. \A s \in open' : \/ \E w \in workers : w.scope = s /\ w.round = round
                       \/ \E b \in answers' : b.scope = s /\ b.round = round
  BY <1>1 DEF Questions
<1> QED
  BY <1>1, <1>2, <1>3, <1>4, <1>5, <1>6, <1>7 DEF Questions

LEMMA DecideQuestions ==
    ASSUME TypeInv, Questions, Decide
    PROVE  Questions'
<1> DEFINE h == Head(batch)
<1>1. /\ batch # <<>> /\ UNCHANGED <<round, answers>>
      /\ (\E allow : Decided(h, allow)) \/ Wait(h)
  BY DEF Decide
<1>2. h \in Tickets
  BY <1>1, OfTail DEF TypeInv, HeldTypes
<1> HIDE DEF h
<1>3. CASE \E allow : Decided(h, allow)
  BY <1>1, <1>3, SameQuestions DEF Decided
<1>4. CASE Wait(h)
  <2>1. waiting' = waiting \cup {h}
    BY <1>4 DEF Wait
  <2>2. Waiters' = Waiters \cup {h.scope}
    BY <2>1 DEF Waiters
  <2>3. CASE Asked(h.scope) # {}
    <3>1. h.scope \in Waiters
      BY <2>3 DEF Asked, Waiters
    <3>2. UNCHANGED <<open, queue, workers>>
      BY <1>4, <2>3 DEF Wait
    <3>3. Range(queue)' = Range(queue) /\ Once(queue)' = Once(queue)
      BY <3>2 DEF Range, Once
    <3> QED
      BY <1>1, <2>2, <3>1, <3>2, <3>3 DEF Questions
  <2>4. CASE Asked(h.scope) = {}
    <3> DEFINE q == Append(queue, h.scope)
    <3>1. Ask(q, open, workers)
      BY <1>4, <2>4 DEF Wait
    <3>2. h.scope \notin Waiters
      BY <2>4 DEF Asked, Waiters
    <3>3. h.scope \in Scopes /\ h.scope \notin Range(queue) /\ h.scope \notin open
      BY <1>2, <3>2 DEF Questions, Tickets
    <3>4. /\ q \in Seq(Scopes) /\ Range(q) = Range(queue) \cup {h.scope}
          /\ Once(q)
      BY <3>3, OfAppend DEF TypeInv, AskTypes, Questions
    <3> HIDE DEF q
    <3>5. open \cap Range(q) = {} /\ open \cup Range(q) = Waiters'
      BY <2>2, <3>3, <3>4 DEF Questions
    <3> QED
      BY <1>1, <3>1, <3>4, <3>5, OpenedQuestions
  <2> QED
    BY <2>3, <2>4
<1> QED
  BY <1>1, <1>3, <1>4

LEMMA NextQuestions ==
    ASSUME TypeInv, Questions, Next
    PROVE  Questions'
<1> USE DEF worldVars, kernelVars, cacheVars, driverVars, askerVars, turnVars, outerVars, boundVars
<1>1. CASE Fail
  BY <1>1, CancelledQuestions DEF Fail, CancelAll
<1>2. CASE ChangePolicy \/ Renew \/ Rotate
  BY <1>2, CancelledQuestions DEF ChangePolicy, Renew, Rotate, CancelAll
<1>3. CASE World
  <2>1. ASSUME NEW w \in workers, NEW b, Answer(w, b)
        PROVE  Questions'
    BY <2>1, AnswerQuestions
  <2>2. ASSUME (\E g \in Programs, r \in {"ask", "allow", "deny"} : Edit(g, r)) \/ (\E l \in Launches : Ends(l))
        PROVE  UNCHANGED <<waiting, open, queue, round, workers, answers>>
    BY <2>2 DEF Edit, Ends
  <2> QED
    BY <1>3, <2>1, <2>2, SameQuestions DEF World
<1>4. CASE Answered
  <2>1. /\ Ask(queue, open, workers) /\ UNCHANGED <<round, waiting, answers>>
    BY <1>4 DEF Answered
  <2>2. queue \in Seq(Scopes) /\ Waiters' = Waiters
    BY <2>1 DEF TypeInv, AskTypes, Waiters
  <2>3. Once(queue) /\ open \cap Range(queue) = {} /\ open \cup Range(queue) = Waiters'
    BY <2>2 DEF Questions
  <2> QED
    BY <2>1, <2>2, <2>3, OpenedQuestions
<1>5. CASE HandsLie /\ ~Fail /\ ~World /\ ~Answered /\ ~(\E a \in answers : Stale(a))
  <2>1. (\E t \in kmap : Offer(t)) \/ (\E v \in outbox : Apply(v)) => UNCHANGED <<waiting, open, queue, round, workers, answers>>
    BY DEF Offer, Apply
  <2>2. Begin \/ PolicyChanged \/ Told \/ StartIntake => UNCHANGED <<waiting, open, queue, round, workers, answers>>
    BY DEF Begin, PolicyChanged, Told, StartIntake
  <2>3. (\E l \in Launches : Register(l)) /\ ~Fail => UNCHANGED <<waiting, open, queue, round, workers, answers>>
    BY DEF Register
  <2>4. SealFails \/ Drained \/ Renewed => UNCHANGED <<waiting, open, queue, round, workers, answers>>
    BY DEF SealFails, Drained, Renewed
  <2>5. Enlist /\ ~Fail => UNCHANGED <<waiting, open, queue, round, workers, answers>>
    BY DEF Enlist
  <2> QED
    BY <1>5, <2>1, <2>2, <2>3, <2>4, <2>5, SameQuestions DEF HandsLie
<1>6. CASE FlushOne \/ IntakeOne
  BY <1>6, Reading, SameQuestions
<1>7. ASSUME NEW d \in decided, Tell(d), ~Fail
      PROVE  Questions'
  <2>1. UNCHANGED <<waiting, open, queue, round, workers, answers>>
    BY <1>7 DEF Tell
  <2> QED
    BY <2>1, SameQuestions
<1>8. CASE EndIntake
  BY <1>8, SameQuestions DEF EndIntake
<1>9. CASE DecideRound /\ ~Fail
  <2>1. UNCHANGED <<waiting, open, queue, round, workers, answers>>
    BY <1>9 DEF DecideRound
  <2> QED
    BY <2>1, SameQuestions
<1> QED
  BY <1>1, <1>2, <1>3, <1>4, <1>5, <1>6, <1>7, <1>8, <1>9, StaleQuestions, TakenQuestions,
     DecideQuestions, Steps DEF HandsLie

LEMMA NextAwaited ==
    ASSUME TypeInv, Awaited, Next
    PROVE  Awaited'
<1>1. CASE Fail \/ ChangePolicy \/ Renew \/ Rotate
  BY <1>1 DEF Fail, ChangePolicy, Renew, Rotate, Awaited
<1>2. CASE HandsLie /\ ~Fail
  BY <1>2, HandsStay DEF Awaited
<1>3. CASE FlushOne \/ IntakeOne
  BY <1>3, Reading DEF Awaited
<1>4. ASSUME NEW a \in answers, TakeAnswer(a)
      PROVE  Awaited'
  <2>1. /\ waiting' = waiting \ {h \in waiting : h.scope = a.scope} /\ pending' = pending
    BY <1>4 DEF TakeAnswer
  <2>2. PICK verdict : decided' = decided \cup {[held |-> h, allow |-> verdict] : h \in {k \in waiting : k.scope = a.scope}}
    BY <1>4 DEF TakeAnswer
  <2>3. \A h \in waiting : h \in waiting' \/ \E d \in decided' : d.held = h
    <3> SUFFICES ASSUME NEW h \in waiting, h \notin waiting' PROVE \E d \in decided' : d.held = h
      OBVIOUS
    <3>1. [held |-> h, allow |-> verdict] \in decided'
      BY <2>1, <2>2
    <3> QED
      BY <3>1
  <2>4. decided \subseteq decided'
    BY <2>2
  <2> QED
    BY <2>1, <2>3, <2>4 DEF Awaited
<1>5. ASSUME NEW d \in decided, Tell(d), ~Fail
      PROVE  Awaited'
  <2>1. decided' = decided \ {d} /\ pending' = pending \ {d.held} /\ waiting' = waiting
    BY <1>5 DEF Tell, askerVars
  <2> QED
    BY <2>1 DEF Awaited
<1>6. CASE EndIntake
  BY <1>6 DEF EndIntake, Awaited, askerVars
<1>7. CASE Decide
  BY <1>7 DEF Decide, Decided, Wait, Awaited
<1>8. CASE DecideRound /\ ~Fail
  BY <1>8 DEF DecideRound, Awaited, askerVars
<1> QED
  BY <1>1, <1>2, <1>3, <1>4, <1>5, <1>6, <1>7, <1>8, Steps DEF HandsLie

LEMMA InitKept == Init => Reached /\ Questions /\ Awaited
<1> SUFFICES ASSUME Init PROVE Reached /\ Questions /\ Awaited
  OBVIOUS
<1> USE DEF Init
<1>1. Reached
  BY DEF Reached, HeldByKernel, Packets
<1>2. Questions
  BY DEF Questions, Waiters, Once, Range
<1>3. Awaited
  BY DEF Awaited
<1> QED
  BY <1>1, <1>2, <1>3

KeepInv == Reached /\ Questions /\ Awaited

\* The kernel holds no packet that nobody will answer, what the session counts is
\* what is in hand, and what waits for the person has a question: in every
\* state of every behaviour (netask.rs, netqueue/driver.rs).
THEOREM NothingIsStranded == Spec => []NothingStranded
<1>1. Init => KeepInv
  BY InitKept DEF KeepInv
<1>2. QueueInv /\ KeepInv /\ [Next]_vars => KeepInv'
  <2> SUFFICES ASSUME QueueInv, KeepInv, [Next]_vars PROVE KeepInv'
    OBVIOUS
  <2> USE DEF QueueInv, KeepInv
  <2>1. CASE Next
    BY <2>1, NextReached, NextQuestions, NextAwaited
  <2>2. CASE UNCHANGED vars
    <3>1. UNCHANGED <<pk, inbox, outbox, pend, waiting, open, queue, round, workers, answers,
                      pending, decided>>
      BY <2>2 DEF vars, kernelVars, driverVars, askerVars, turnVars
    <3>2. Questions'
      BY <3>1, SameQuestions
    <3>3. Reached'
      BY <3>1 DEF Reached, HeldByKernel, Packets, Unread, Sent, Pended
    <3>4. Awaited'
      BY <3>1 DEF Awaited
    <3> QED
      BY <3>2, <3>3, <3>4
  <2> QED
    BY <2>1, <2>2
<1>3. QueueInv /\ KeepInv => NothingStranded
  <2> SUFFICES ASSUME QueueInv, KeepInv PROVE NothingStranded
    OBVIOUS
  <2>1. pend = InHand /\ Reached
    BY DEF QueueInv, KeepInv, StageInv, Apart
  <2>2. HeldByKernel \subseteq Unread \cup Sent \cup {h.packet : h \in InHand}
    BY <2>1 DEF Reached, Pended
  <2>3. \A h \in waiting : h.scope \in open \cup Range(queue)
    BY DEF KeepInv, Questions, Waiters
  <2>4. \A s \in open : \/ \E w \in workers : w.scope = s /\ w.round = round
                        \/ \E a \in answers : a.scope = s /\ a.round = round
    BY DEF KeepInv, Questions
  <2>5. \A h \in pending : h \in waiting \/ \E d \in decided : d.held = h
    BY DEF KeepInv, Awaited
  <2> QED
    BY <2>1, <2>2, <2>3, <2>4, <2>5 DEF NothingStranded
<1> QED
  BY <1>1, <1>2, <1>3, QueueInvariant, PTL DEF Spec

---------------------------------------------------------------------------
(* A launch that lives has its way out. *)

Renewing == pc \in {"draining", "enlisting"}

\* A launch has a token in the map, of now; while a renewal is under way it has a
\* row of the epoch before, is among those to register again, or has its new row.
Registered(l) ==
    /\ pc = "draining" => \E t \in DOMAIN arch : arch[t].launch = l /\ arch[t].epoch + 1 = now
    /\ pc = "enlisting" => \/ \E m \in Range(todo) : m.launch = l
                           \/ \E t \in DOMAIN arch : arch[t].launch = l /\ arch[t].epoch = now
    /\ ~Renewing => \E t \in kmap : arch[t].launch = l /\ arch[t].epoch = now

\* What memory has of a token is armed, but for those of a renewal under way.
Armed ==
    \A t \in DOMAIN cache : /\ cache[t].epoch = arch[t].epoch
                            /\ t \in armed \/ (pc = "enlisting" /\ arch[t].epoch = now)

InStep == epoch = now /\ file = now /\ whole = ~Renewing
Ways == \A l \in Launches : life[l] = "in" => Registered(l)
WayInv == faults = 0 /\ ~failed => InStep /\ Armed /\ Ways

LEMMA InitWay == Init => WayInv
  BY DEF Init, WayInv, InStep, Armed, Ways, Renewing

\* A step that closes nothing leaves it open.
LEMMA OpenStays ==
    ASSUME Next, ~Fail
    PROVE  failed' = failed
<1> USE DEF worldVars, kernelVars, cacheVars, driverVars, askerVars, turnVars, outerVars, boundVars
<1>1. (\E t \in kmap : Offer(t)) \/ (\E v \in outbox : Apply(v)) \/ World => failed' = failed
  BY DEF Offer, Apply, World, Edit, Answer, Ends
<1>2. Begin \/ ChangePolicy \/ PolicyChanged \/ FlushOne \/ IntakeOne => failed' = failed
  BY DEF Begin, ChangePolicy, PolicyChanged, FlushOne, IntakeOne
<1>3. ASSUME NEW a \in answers, Stale(a) \/ TakeAnswer(a) PROVE failed' = failed
  BY <1>3 DEF Stale, TakeAnswer
<1>4. ASSUME NEW d \in decided, Tell(d) PROVE failed' = failed
  BY <1>4 DEF Tell
<1>5. Answered \/ Told \/ StartIntake \/ EndIntake \/ Decide => failed' = failed
  BY DEF Answered, Told, StartIntake, EndIntake, Decide
<1>6. DecideRound => failed' = failed
  BY DEF DecideRound
<1>7. ASSUME NEW l \in Launches, Register(l) PROVE failed' = failed
  BY <1>7 DEF Register
<1>8. Renew \/ SealFails \/ Drained \/ Renewed \/ Rotate => failed' = failed
  BY DEF Renew, SealFails, Drained, Renewed, Rotate
<1>9. Enlist => failed' = failed
  BY DEF Enlist
<1> QED
  BY <1>1, <1>2, <1>3, <1>4, <1>5, <1>6, <1>7, <1>8, <1>9, Steps

\* Failures are counted, and the network closed is closed.
LEMMA FaultsStay ==
    ASSUME TypeInv, Next, faults' = 0, ~failed'
    PROVE  faults = 0 /\ ~failed /\ ~Fail /\ \A kind : ~Fault(kind)
<1> USE DEF worldVars, kernelVars, cacheVars, driverVars, askerVars, turnVars, outerVars, boundVars
<1>0. faults \in Nat
  BY DEF TypeInv, PlainTypes
<1>1. ~Fail
  BY DEF Fail
<1>2. \A kind : ~Fault(kind)
  BY <1>0 DEF Fault
<1>3. failed' = failed
  BY <1>1, OpenStays
<1>4. faults' = faults
  <2>1. (\E t \in kmap : Offer(t)) \/ World => faults' = faults
    BY DEF Offer, World, Edit, Answer, Ends
  <2>2. ASSUME NEW v \in outbox, Apply(v) PROVE faults' = faults
    BY <1>2, <2>2 DEF Apply, NoFault
  <2>3. Begin \/ ChangePolicy \/ PolicyChanged \/ FlushOne \/ IntakeOne => faults' = faults
    BY DEF Begin, ChangePolicy, PolicyChanged, FlushOne, IntakeOne, Hear, NoFault
  <2>4. ASSUME NEW a \in answers, Stale(a) \/ TakeAnswer(a) PROVE faults' = faults
    BY <1>2, <2>4 DEF Stale, TakeAnswer, NoFault
  <2>5. ASSUME NEW d \in decided, Tell(d) PROVE faults' = faults
    BY <1>1, <2>5 DEF Tell
  <2>6. Answered \/ Told \/ StartIntake \/ EndIntake \/ Decide => faults' = faults
    BY DEF Answered, Told, StartIntake, EndIntake, Decide
  <2>7. DecideRound => faults' = faults
    BY <1>1 DEF DecideRound
  <2>8. ASSUME NEW l \in Launches, Register(l) PROVE faults' = faults
    BY <1>1, <2>8 DEF Register
  <2>9. Renew \/ SealFails \/ Drained \/ Renewed \/ Rotate => faults' = faults
    BY <1>2 DEF Renew, SealFails, Drained, Renewed, Rotate, NoFault
  <2>10. Enlist => faults' = faults
    BY <1>1 DEF Enlist
  <2> QED
    BY <1>1, <2>1, <2>2, <2>3, <2>4, <2>5, <2>6, <2>7, <2>8, <2>9, <2>10, Steps
<1> QED
  BY <1>1, <1>2, <1>3, <1>4

\* Nothing of it is touched.
LEMMA SameWay ==
    ASSUME InStep, Armed, Ways,
           UNCHANGED <<epoch, now, file, whole, cache, arch, armed, kmap, todo>>,
           pc' = pc \/ (~Renewing /\ ~Renewing'),
           \A l \in Launches : life'[l] = "in" => life[l] = "in"
    PROVE  InStep' /\ Armed' /\ Ways'
<1>1. Renewing' = Renewing
  BY DEF Renewing
<1>2. InStep'
  BY <1>1 DEF InStep
<1>3. Armed'
  BY DEF Armed, Renewing
<1>4. Range(todo)' = Range(todo)
  BY DEF Range
<1>5. Ways'
  BY <1>1, <1>4 DEF Ways, Registered, Renewing
<1> QED
  BY <1>2, <1>3, <1>5

\* A packet heard may bring its token's launch back, for the one that is forgotten.
LEMMA HearWay ==
    ASSUME TypeInv, InStep, Armed, Ways, FlushOne \/ IntakeOne
    PROVE  InStep' /\ Armed' /\ Ways'
<1> USE DEF worldVars, kernelVars, cacheVars, driverVars, askerVars, turnVars, outerVars, boundVars
<1>1. /\ UNCHANGED <<epoch, now, file, whole, arch, kmap, todo, pc, life>>
      /\ HearAck \/ HearPacket
  BY DEF FlushOne, IntakeOne, Hear, HearAck, HearPacket, Flushing
<1>2. pc # "enlisting"
  BY DEF FlushOne, IntakeOne, Flushing
<1>3. CASE UNCHANGED <<cache, armed>>
  BY <1>1, <1>3, SameWay
<1>4. CASE HearPacket /\ ~UNCHANGED <<cache, armed>>
  <2> DEFINE t == pk[Head(inbox).packet].token
  <2>1. /\ CacheRoom /\ cache' = CacheWith(t, arch[t]) /\ armed' = (armed \cap Kept) \cup {t}
    BY <1>4 DEF HearPacket
  <2> HIDE DEF t
  <2>2. Kept \subseteq DOMAIN cache
    BY <2>1, Forgetting DEF TypeInv, CacheTypes, CacheOrder
  <2>3. Armed'
    BY <1>1, <1>2, <2>1, <2>2 DEF Armed, CacheWith
  <2>4. InStep'
    BY <1>1 DEF InStep, Renewing
  <2>5. Ways'
    BY <1>1 DEF Ways, Registered, Renewing, Range
  <2> QED
    BY <2>3, <2>4, <2>5
<1> QED
  BY <1>1, <1>3, <1>4 DEF HearAck

LEMMA RegisterWay ==
    ASSUME TypeInv, InStep, Armed, Ways, NEW l \in Launches, Register(l), ~Fail
    PROVE  InStep' /\ Armed' /\ Ways'
<1> USE DEF worldVars, kernelVars, cacheVars, driverVars, askerVars, turnVars, outerVars, boundVars
<1>1. CASE Issuable
  <2>1. /\ Issue(l) /\ kmap' = kmap \cup {next} /\ armed' = (armed \cap Kept) \cup {next}
        /\ life' = [life EXCEPT ![l] = "in"] /\ pc = "poll"
        /\ UNCHANGED <<epoch, now, file, whole, todo, pc>>
    BY <1>1 DEF Register
  <2>2. /\ next \notin DOMAIN arch /\ DOMAIN arch' = DOMAIN arch \cup {next}
        /\ arch'[next] = [launch |-> l, epoch |-> now]
        /\ \A t \in DOMAIN arch : arch'[t] = arch[t]
        /\ Kept \subseteq DOMAIN cache
    BY <1>1, <2>1, Issued DEF TypeInv
  <2>3. cache' = CacheWith(next, [launch |-> l, epoch |-> epoch])
    BY <2>1 DEF Issue
  <2>4. arch'[next].launch = l /\ arch'[next].epoch = now /\ epoch = now
    BY <2>2 DEF InStep
  <2>5. DOMAIN cache \subseteq DOMAIN arch /\ kmap \subseteq DOMAIN arch
    BY DEF TypeInv, CacheTypes, KernelTypes
  <2>6. Armed'
    <3> SUFFICES ASSUME NEW t \in DOMAIN cache'
                 PROVE  cache'[t].epoch = arch'[t].epoch /\ t \in armed'
      BY DEF Armed
    <3>1. CASE t = next
      BY <2>1, <2>3, <2>4, <3>1 DEF CacheWith
    <3>2. CASE t # next
      BY <2>1, <2>2, <2>3, <2>5, <3>2 DEF CacheWith, Armed
    <3> QED
      BY <3>1, <3>2
  <2>7. InStep' /\ ~Renewing /\ ~Renewing'
    BY <2>1 DEF InStep, Renewing
  <2>8. ASSUME NEW k \in Launches, life'[k] = "in"
        PROVE  \E t \in kmap' : arch'[t].launch = k /\ arch'[t].epoch = now
    <3>1. CASE k = l
      BY <2>1, <2>4, <3>1
    <3>2. CASE k # l
      BY <2>1, <2>2, <2>5, <2>7, <2>8, <3>2 DEF Ways, Registered
    <3> QED
      BY <3>1, <3>2
  <2>9. Ways'
    BY <2>1, <2>7, <2>8 DEF Ways, Registered, Renewing
  <2> QED
    BY <2>6, <2>7, <2>9
<1>2. CASE ~Issuable
  <2>1. /\ life' = [life EXCEPT ![l] = "gone"]
        /\ UNCHANGED <<epoch, now, file, whole, cache, arch, armed, kmap, todo, pc>>
    BY <1>2 DEF Register
  <2>2. \A k \in Launches : life'[k] = "in" => life[k] = "in"
    BY <2>1 DEF TypeInv, WorldTypes
  <2> QED
    BY <2>1, <2>2, SameWay
<1> QED
  BY <1>1, <1>2

LEMMA RenewWay ==
    ASSUME TypeInv, InStep, Armed, Ways, Renew, \A kind : ~Fault(kind)
    PROVE  InStep' /\ Armed' /\ Ways'
<1> USE DEF worldVars, kernelVars, cacheVars, driverVars, askerVars, turnVars, outerVars, boundVars
<1>1. /\ pc = "poll" /\ pc' = "draining" /\ now' = now + 1 /\ file' = now + 1 /\ whole' = FALSE
      /\ epoch' = now + 1
      /\ UNCHANGED <<life, kmap, arch, cache, armed, todo>>
  BY DEF Renew
<1>2. InStep'
  BY <1>1 DEF InStep, Renewing
<1>3. Armed'
  BY <1>1 DEF Armed
<1>4. Ways'
  BY <1>1 DEF Ways, Registered, Renewing, TypeInv, KernelTypes
<1> QED
  BY <1>2, <1>3, <1>4

LEMMA DrainedWay ==
    ASSUME TypeInv, InStep, Armed, Ways, Drained
    PROVE  InStep' /\ Armed' /\ Ways'
<1> USE DEF worldVars, kernelVars, cacheVars, driverVars, askerVars, turnVars, outerVars, boundVars
<1>1. /\ pc = "draining" /\ pc' = "enlisting" /\ todo' = Enlisted
      /\ UNCHANGED <<epoch, now, file, whole, life, kmap, arch, cache, armed>>
  BY DEF Drained
<1>2. Range(todo') = Range(arch) \cap {m \in Range(arch) : m.epoch + 1 = now /\ life[m.launch] = "in"}
  BY <1>1, OfThose DEF Enlisted, TypeInv, KernelTypes
<1>3. ASSUME NEW l \in Launches, life[l] = "in"
      PROVE  \E m \in Range(todo') : m.launch = l
  <2>1. PICK t \in DOMAIN arch : arch[t].launch = l /\ arch[t].epoch + 1 = now
    BY <1>1, <1>3 DEF Ways, Registered
  <2>2. arch[t] \in Range(arch)
    BY DEF Range
  <2> QED
    BY <1>2, <1>3, <2>1, <2>2
<1>4. InStep' /\ Armed'
  BY <1>1 DEF InStep, Armed, Renewing
<1>5. Ways'
  BY <1>1, <1>3 DEF Ways, Registered, Renewing, Range
<1> QED
  BY <1>4, <1>5

LEMMA EnlistWay ==
    ASSUME TypeInv, InStep, Armed, Ways, Enlist, ~Fail
    PROVE  InStep' /\ Armed' /\ Ways'
<1> USE DEF worldVars, kernelVars, cacheVars, driverVars, askerVars, turnVars, outerVars, boundVars
<1> DEFINE l == Head(todo).launch
<1>1. /\ Issuable /\ Issue(l) /\ armed' = armed \cap Kept /\ todo # <<>> /\ todo' = Tail(todo)
      /\ pc = "enlisting" /\ UNCHANGED <<epoch, now, file, whole, life, kmap, pc>>
  BY DEF Enlist
<1>2. todo \in Seq(Records)
  BY DEF TypeInv, PlainTypes
<1>3. Head(todo) \in Records /\ Range(todo) = {Head(todo)} \cup Range(todo')
  BY <1>1, <1>2, OfTail
<1>4. l \in Launches
  BY <1>3 DEF Records
<1>5. \A m \in Range(todo) : m.launch = l \/ m \in Range(todo')
  BY <1>3
<1> HIDE DEF l
<1>6. /\ next \notin DOMAIN arch /\ DOMAIN arch' = DOMAIN arch \cup {next}
      /\ arch'[next] = [launch |-> l, epoch |-> now]
      /\ \A t \in DOMAIN arch : arch'[t] = arch[t]
      /\ Kept \subseteq DOMAIN cache
  BY <1>1, <1>4, Issued DEF TypeInv
<1>7. cache' = CacheWith(next, [launch |-> l, epoch |-> epoch])
  BY <1>1 DEF Issue
<1>8. arch'[next].launch = l /\ arch'[next].epoch = now /\ epoch = now
  BY <1>6 DEF InStep
<1>9. DOMAIN cache \subseteq DOMAIN arch
  BY DEF TypeInv, CacheTypes
<1>10. Armed'
  <2> SUFFICES ASSUME NEW t \in DOMAIN cache'
               PROVE  cache'[t].epoch = arch'[t].epoch /\ (t \in armed' \/ arch'[t].epoch = now)
    BY <1>1 DEF Armed
  <2>1. CASE t = next
    BY <1>7, <1>8, <2>1 DEF CacheWith
  <2>2. CASE t # next
    BY <1>1, <1>6, <1>7, <1>9, <2>2 DEF CacheWith, Armed
  <2> QED
    BY <2>1, <2>2
<1>11. InStep'
  BY <1>1 DEF InStep, Renewing
<1>12. ASSUME NEW k \in Launches, life[k] = "in"
       PROVE  \/ \E m \in Range(todo') : m.launch = k
              \/ \E t \in DOMAIN arch' : arch'[t].launch = k /\ arch'[t].epoch = now
  <2>1. \/ \E m \in Range(todo) : m.launch = k
        \/ \E t \in DOMAIN arch : arch[t].launch = k /\ arch[t].epoch = now
    BY <1>1, <1>12 DEF Ways, Registered
  <2> QED
    BY <1>5, <1>6, <1>8, <2>1
<1>13. Ways'
  BY <1>1, <1>12 DEF Ways, Registered, Renewing, Range
<1> QED
  BY <1>10, <1>11, <1>13

LEMMA RenewedWay ==
    ASSUME TypeInv, InStep, Armed, Ways, Renewed
    PROVE  InStep' /\ Armed' /\ Ways'
<1> USE DEF worldVars, kernelVars, cacheVars, driverVars, askerVars, turnVars, outerVars, boundVars
<1>1. /\ pc = "enlisting" /\ pc' = "poll" /\ todo = <<>> /\ whole' = TRUE
      /\ kmap' = NewMap /\ armed' = armed \cup NewMap
      /\ UNCHANGED <<epoch, now, file, life, arch, cache>>
  BY DEF Renewed
<1>2. InStep'
  BY <1>1 DEF InStep, Renewing
<1>3. Armed'
  BY <1>1 DEF Armed, NewMap, TypeInv, CacheTypes
<1>4. Range(todo) = {}
  BY <1>1 DEF Range
<1>5. Ways'
  BY <1>1, <1>4 DEF Ways, Registered, Renewing, NewMap
<1> QED
  BY <1>2, <1>3, <1>5

LEMMA NextWay ==
    ASSUME TypeInv, WayInv, Next
    PROVE  WayInv'
<1> SUFFICES ASSUME faults' = 0, ~failed'
             PROVE  InStep' /\ Armed' /\ Ways'
  BY DEF WayInv
<1> USE DEF worldVars, kernelVars, cacheVars, driverVars, askerVars, turnVars, outerVars, boundVars
<1>0. ~Fail /\ (\A kind : ~Fault(kind)) /\ InStep /\ Armed /\ Ways
  BY FaultsStay DEF WayInv
<1>1. ASSUME UNCHANGED <<epoch, now, file, whole, cache, arch, armed, kmap, todo, pc, life>>
      PROVE  InStep' /\ Armed' /\ Ways'
  BY <1>0, <1>1, SameWay
<1>2. CASE (\E t \in kmap : Offer(t)) \/ (\E v \in outbox : Apply(v))
  BY <1>1, <1>2 DEF Offer, Apply
<1>3. CASE World
  <2>1. ASSUME NEW l \in Launches, Ends(l)
        PROVE  /\ UNCHANGED <<epoch, now, file, whole, cache, arch, armed, kmap, todo, pc>>
               /\ \A k \in Launches : life'[k] = "in" => life[k] = "in"
    BY <2>1 DEF Ends, TypeInv, WorldTypes
  <2>2. CASE \E l \in Launches : Ends(l)
    BY <1>0, <2>1, <2>2, SameWay
  <2>3. CASE ~(\E l \in Launches : Ends(l))
    BY <1>1, <1>3, <2>3 DEF World, Edit, Answer
  <2> QED
    BY <2>2, <2>3
<1>4. CASE Begin \/ PolicyChanged \/ Answered \/ Told \/ StartIntake \/ EndIntake
  <2>1. /\ UNCHANGED <<epoch, now, file, whole, cache, arch, armed, kmap, todo, life>>
        /\ ~Renewing /\ ~Renewing'
    BY <1>4 DEF Begin, PolicyChanged, Answered, Told, StartIntake, EndIntake, Renewing
  <2> QED
    BY <1>0, <2>1, SameWay
<1>5. CASE ChangePolicy
  <2>1. /\ UNCHANGED <<epoch, now, file, whole, cache, arch, armed, kmap, todo, life>>
        /\ ~Renewing /\ ~Renewing'
    BY <1>5 DEF ChangePolicy, Renewing
  <2> QED
    BY <1>0, <2>1, SameWay
<1>6. CASE FlushOne \/ IntakeOne
  BY <1>0, <1>6, HearWay
<1>7. ASSUME NEW a \in answers, Stale(a) \/ TakeAnswer(a)
      PROVE  InStep' /\ Armed' /\ Ways'
  BY <1>1, <1>7 DEF Stale, TakeAnswer
<1>8. ASSUME NEW d \in decided, Tell(d)
      PROVE  InStep' /\ Armed' /\ Ways'
  <2>1. /\ UNCHANGED <<epoch, now, file, whole, cache, arch, armed, kmap, todo, life>>
        /\ ~Renewing /\ ~Renewing'
    BY <1>0, <1>8 DEF Tell, Renewing
  <2> QED
    BY <1>0, <2>1, SameWay
<1>9. CASE Decide
  BY <1>1, <1>9 DEF Decide
<1>10. CASE DecideRound
  <2>1. /\ UNCHANGED <<epoch, now, file, whole, cache, arch, armed, kmap, todo, life>>
        /\ ~Renewing /\ ~Renewing'
    BY <1>0, <1>10 DEF DecideRound, Renewing
  <2> QED
    BY <1>0, <2>1, SameWay
<1>11. CASE SealFails
  BY <1>0, <1>11 DEF SealFails
<1>12. CASE Rotate
  <2>1. /\ pc = "poll" /\ epoch' = file /\ cache' = [t \in {} |-> {}]
        /\ UNCHANGED <<now, file, whole, life, kmap, arch, todo, pc>>
    BY <1>12 DEF Rotate
  <2>2. InStep' /\ Armed'
    BY <1>0, <2>1 DEF InStep, Armed, Renewing
  <2>3. Ways'
    BY <1>0, <2>1 DEF Ways, Registered, Renewing, Range
  <2> QED
    BY <2>2, <2>3
<1> QED
  BY <1>0, <1>2, <1>3, <1>4, <1>5, <1>6, <1>7, <1>8, <1>9, <1>10, <1>11, <1>12,
     RegisterWay, RenewWay, DrainedWay, EnlistWay, RenewedWay, Steps

\* As long as nothing has failed and the network is open, each launch that lives
\* has a token in the kernel's map that the controller recognises, from memory or
\* from the archive, through every registration, renewal and rotation.
THEOREM LaunchesKeepTheirWay == Spec => []HealthyKeepsWay
<1>1. TypeInv /\ WayInv /\ [Next]_vars => WayInv'
  <2> SUFFICES ASSUME TypeInv, WayInv, [Next]_vars PROVE WayInv'
    OBVIOUS
  <2>1. CASE Next
    BY <2>1, NextWay
  <2>2. CASE UNCHANGED vars
    <3>1. UNCHANGED <<epoch, now, file, whole, cache, arch, armed, kmap, todo, pc, life, faults, failed>>
      BY <2>2 DEF vars, worldVars, kernelVars, cacheVars, turnVars, outerVars, boundVars
    <3> QED
      BY <3>1, SameWay DEF WayInv
  <2> QED
    BY <2>1, <2>2
<1>2. TypeInv /\ WayInv => HealthyKeepsWay
  <2> SUFFICES ASSUME TypeInv, InStep, Armed, Ways, pc = "poll",
                      NEW l \in Launches, life[l] = "in"
               PROVE  \E t \in kmap : /\ arch[t].launch = l
                                      /\ IF t \in DOMAIN cache THEN Authentic(t, cache, armed)
                                                               ELSE Restorable(t)
    BY DEF HealthyKeepsWay, LiveLaunchesKeepWay, WayInv
  <2>1. PICK t \in kmap : arch[t].launch = l /\ arch[t].epoch = now
    BY DEF Ways, Registered, Renewing
  <2>2. t \in 1 .. Len(arch) /\ Len(arch) \in Nat /\ next = Len(arch) + 1 /\ epoch = now
    BY LenProperties DEF TypeInv, KernelTypes, CacheOrder, InStep
  <2>3. t \in DOMAIN cache => Authentic(t, cache, armed)
    BY <2>1, <2>2 DEF Authentic, Armed
  <2>4. t \notin DOMAIN cache => Restorable(t)
    BY <2>1, <2>2 DEF Restorable, Missing
  <2> QED
    BY <2>1, <2>3, <2>4
<1> QED
  BY <1>1, <1>2, InitWay, TypeCorrect, PTL DEF Spec

---------------------------------------------------------------------------
(* What closes the network where nothing fails. *)

\* What the session knows of the kernel's queue is so: a packet that is unread,
\* pending or has its verdict on the way is held there.
InKernel == (Unread \cup Sent \cup Pended) \subseteq HeldByKernel

\* As long as nothing fails, no acknowledgement has an error.
Honest == faults = 0 /\ ~failed => \A m \in Range(inbox) : m.kind = "ack" => m.ok

\* What waits, or has its answer, is pending for the person, one or the other.
Answering ==
    /\ waiting \subseteq pending
    /\ \A d \in decided : d.held \in pending \ waiting
    /\ \A d, e \in decided : d.held = e.held => d = e

\* A verdict is applied: word of it comes to the socket, without an error where
\* nothing fails and the packet was held.
LEMMA AppliedMessage ==
    ASSUME TypeInv, NEW v \in outbox, Apply(v)
    PROVE  \E m : /\ Range(inbox') = Range(inbox) \cup {m}
                  /\ m.kind = "ack" /\ m.packet = v.packet
                  /\ pk[v.packet].st = "held" /\ (\A kind : ~Fault(kind)) => m.ok
<1> DEFINE M == [kind : {"packet", "ack"}, packet : Packets, ok : BOOLEAN]
<1>1. PICK ok \in BOOLEAN :
         /\ inbox' = Append(inbox, [kind |-> "ack", packet |-> v.packet, ok |-> ok])
         /\ IF ok = (pk[v.packet].st = "held") THEN NoFault ELSE ~ok /\ Fault("ack")
  BY DEF Apply
<1> DEFINE m == [kind |-> "ack", packet |-> v.packet, ok |-> ok]
<1>2. m \in M /\ inbox \in Seq(M)
  BY DEF TypeInv, KernelTypes
<1>3. m.kind = "ack" /\ m.packet = v.packet /\ m.ok = ok
  OBVIOUS
<1>4. inbox' = Append(inbox, m)
  BY <1>1
<1> HIDE DEF m, M
<1>5. Range(inbox') = Range(inbox) \cup {m}
  BY <1>2, <1>4, OfAppend
<1>6. pk[v.packet].st = "held" /\ (\A kind : ~Fault(kind)) => m.ok
  BY <1>1, <1>3
<1> QED
  BY <1>3, <1>5, <1>6

LEMMA NextInKernel ==
    ASSUME TypeInv, TicketInv, StageInv, InKernel, Next
    PROVE  InKernel'
<1> USE DEF worldVars, kernelVars, cacheVars, driverVars, askerVars, turnVars, outerVars, boundVars
<1>1. ASSUME (Unread' \cup Sent' \cup Pended') \subseteq (Unread \cup Sent \cup Pended), pk' = pk
      PROVE  InKernel'
  BY <1>1 DEF InKernel, HeldByKernel, Packets
<1>2. CASE Fail \/ Rotate
  <2>1. Unread' = {} /\ Sent' = {} /\ Pended' = {}
    BY <1>2 DEF Fail, Rotate, Close, Unread, Sent, Pended
  <2> QED
    BY <2>1 DEF InKernel
<1>3. ASSUME NEW t \in kmap, Offer(t)
      PROVE  InKernel'
  BY <1>3, OfferedPacket DEF InKernel, HeldByKernel
<1>4. ASSUME NEW v \in outbox, Apply(v)
      PROVE  InKernel'
  <2>1. PICK m : Range(inbox') = Range(inbox) \cup {m} /\ m.kind = "ack"
    BY <1>4, AppliedMessage
  <2>2. Unread' = {n.packet : n \in {x \in Range(inbox') : x.kind = "packet"}}
    BY DEF Unread, Range
  <2>3. Unread' = Unread /\ Pended' = Pended
    BY <1>4, <2>1, <2>2, UnreadOf DEF Pended, Apply
  <2>4. Sent' \subseteq Sent \ {v.packet} /\ v.packet \in acks
    BY <1>4 DEF Apply, Sent, StageInv, OneStage
  <2>5. v.packet \notin Unread /\ v.packet \notin Pended
    BY <2>4 DEF StageInv, OneStage
  <2>6. DOMAIN pk' = DOMAIN pk /\ \A p \in DOMAIN pk : p # v.packet => pk'[p] = pk[p]
    BY <1>4, Applied DEF TypeInv
  <2> QED
    BY <2>3, <2>4, <2>5, <2>6 DEF InKernel, HeldByKernel, Packets
<1>5. CASE HandsLie /\ ~Fail /\ ~(\E t \in kmap : Offer(t)) /\ ~(\E v \in outbox : Apply(v))
  BY <1>1, <1>5, QueueLies DEF Unread, Sent, Pended
<1>6. ASSUME NEW hs \in SUBSET pend, NEW vs, {v.packet : v \in vs} = {h.packet : h \in hs},
             Send(vs), pend' = pend \ hs, inbox' = inbox, pk' = pk
      PROVE  InKernel'
  <2>1. Unread' = Unread
    BY <1>6 DEF Unread
  <2>2. Sent' = Sent \cup {h.packet : h \in hs}
    BY <1>6 DEF Send, Sent
  <2>3. Pended' \subseteq Pended /\ {h.packet : h \in hs} \subseteq Pended
    BY <1>6 DEF Pended
  <2> QED
    BY <1>1, <1>6, <2>1, <2>2, <2>3
<1>7. CASE ChangePolicy \/ Renew
  <2>1. DropPending /\ inbox' = inbox /\ pk' = pk
    BY <1>7 DEF ChangePolicy, Renew
  <2> DEFINE vs == {DropOf(h.packet) : h \in pend}
  <2>2. \A p : DropOf(p).packet = p
    BY DEF DropOf
  <2>3. Send(vs) /\ pend' = pend \ pend /\ {v.packet : v \in vs} = {h.packet : h \in pend}
    BY <2>1, <2>2 DEF DropPending
  <2> HIDE DEF vs
  <2> QED
    BY <1>6, <2>1, <2>3
<1>8. CASE FlushOne \/ IntakeOne
  <2>1. /\ inbox # <<>> /\ (HearAck \/ HearPacket)
        /\ UNCHANGED <<arch, sess, epoch, revision>>
    BY <1>8, Reading
  <2> DEFINE m == Head(inbox)
  <2>2. Range(inbox) = {m} \cup Range(Tail(inbox))
    BY <2>1, OfTail DEF TypeInv, KernelTypes
  <2>3. Unread' = {n.packet : n \in {x \in Range(inbox') : x.kind = "packet"}}
    BY DEF Unread, Range
  <2>4. CASE HearAck
    <3>1. /\ inbox' = Tail(inbox) /\ UNCHANGED <<pk, outbox, pend>>
      BY <2>4 DEF HearAck
    <3> HIDE DEF m
    <3>2. Unread' \subseteq Unread
      BY <2>2, <2>3, <3>1, UnreadOf
    <3> QED
      BY <1>1, <3>1, <3>2 DEF Sent, Pended
  <2>5. CASE HearPacket
    <3>1. /\ inbox' = Tail(inbox) /\ m.kind = "packet" /\ pk' = pk
          /\ \/ \E h \in Tickets :
                   h.packet = m.packet /\ pend' = pend \cup {h} /\ UNCHANGED <<outbox, acks>>
             \/ pend' = pend /\ Send({DropOf(m.packet)})
      BY <2>1, <2>5, HeardTicket DEF TicketInv
    <3> HIDE DEF m
    <3>2. Unread' \cup {m.packet} \subseteq Unread
      BY <2>2, <2>3, <3>1, UnreadOf
    <3>3. ASSUME NEW h \in Tickets, h.packet = m.packet, pend' = pend \cup {h}, outbox' = outbox
          PROVE  InKernel'
      <4>1. Pended' = Pended \cup {m.packet} /\ Sent' = Sent
        BY <3>3 DEF Pended, Sent
      <4> QED
        BY <1>1, <3>1, <3>2, <4>1
    <3>4. ASSUME pend' = pend, Send({DropOf(m.packet)})
          PROVE  InKernel'
      <4>1. DropOf(m.packet).packet = m.packet
        BY DEF DropOf
      <4>2. Pended' = Pended /\ Sent' = Sent \cup {m.packet}
        BY <3>4, <4>1 DEF Pended, Sent, Send
      <4> QED
        BY <1>1, <3>1, <3>2, <4>2
    <3> QED
      BY <3>1, <3>3, <3>4
  <2> QED
    BY <2>1, <2>4, <2>5
<1>9. ASSUME NEW a \in answers, TakeAnswer(a)
      PROVE  InKernel'
  <2>1. UNCHANGED <<pk, inbox, outbox, pend>>
    BY <1>9 DEF TakeAnswer
  <2> QED
    BY <1>1, <2>1 DEF Unread, Sent, Pended
<1>10. CASE EndIntake \/ Decide
  <2>1. UNCHANGED <<pk, inbox, outbox, pend>>
    BY <1>10 DEF EndIntake, Decide
  <2> QED
    BY <1>1, <2>1 DEF Unread, Sent, Pended
<1>11. ASSUME NEW d \in decided, Tell(d), ~Fail
       PROVE  InKernel'
  <2> DEFINE v == Verdict(d.held, d.allow /\ snap[Program[d.held.launch]] # "deny")
             h == d.held
  <2>1. /\ h \in pend /\ Send({v}) /\ pend' = pend \ {h} /\ UNCHANGED <<inbox, pk>>
    BY <1>11 DEF Tell, Fresh
  <2>2. v.packet = h.packet
    BY DEF Verdict
  <2> HIDE DEF v, h
  <2>3. {w.packet : w \in {v}} = {k.packet : k \in {h}} /\ {h} \in SUBSET pend
    BY <2>1, <2>2
  <2> QED
    BY <1>6, <2>1, <2>3
<1>12. CASE DecideRound /\ ~Fail
  <2> DEFINE vs == {Verdict(d.held, d.allow) : d \in decisions}
  <2>1. /\ Settling \subseteq pend /\ Send(vs) /\ pend' = pend \ Settling /\ UNCHANGED <<inbox, pk>>
    BY <1>12 DEF DecideRound, Fresh, Settling
  <2>2. \A d : Verdict(d.held, d.allow).packet = d.held.packet
    BY DEF Verdict
  <2>3. {v.packet : v \in vs} = {h.packet : h \in Settling}
    BY <2>2 DEF Settling
  <2> HIDE DEF vs
  <2> QED
    BY <1>6, <2>1, <2>3
<1> QED
  BY <1>2, <1>3, <1>4, <1>5, <1>7, <1>8, <1>9, <1>10, <1>11, <1>12, Steps DEF HandsLie

LEMMA NextHonest ==
    ASSUME TypeInv, StageInv, InKernel, Honest, Next
    PROVE  Honest'
<1> SUFFICES ASSUME faults' = 0, ~failed'
             PROVE  \A m \in Range(inbox') : m.kind = "ack" => m.ok
  BY DEF Honest, Range
<1> USE DEF worldVars, kernelVars, cacheVars, driverVars, askerVars, turnVars, outerVars, boundVars
<1>0. ~Fail /\ (\A kind : ~Fault(kind)) /\ \A m \in Range(inbox) : m.kind = "ack" => m.ok
  BY FaultsStay DEF Honest
<1>1. ASSUME NEW t \in kmap, Offer(t)
      PROVE  \A m \in Range(inbox') : m.kind = "ack" => m.ok
  BY <1>0, <1>1, OfferedPacket
<1>2. ASSUME NEW v \in outbox, Apply(v)
      PROVE  \A m \in Range(inbox') : m.kind = "ack" => m.ok
  <2>1. pk[v.packet].st = "held"
    BY DEF InKernel, HeldByKernel, Sent
  <2> QED
    BY <1>0, <1>2, <2>1, AppliedMessage
<1>3. CASE HandsLie /\ ~(\E t \in kmap : Offer(t)) /\ ~(\E v \in outbox : Apply(v))
  BY <1>0, <1>3, StagesLie
<1>4. CASE FlushOne \/ IntakeOne
  <2>1. inbox # <<>> /\ inbox' = Tail(inbox)
    BY <1>4, Reading DEF HearAck, HearPacket
  <2>2. Range(inbox') \subseteq Range(inbox)
    BY <2>1, OfTail DEF TypeInv, KernelTypes
  <2> QED
    BY <1>0, <2>2
<1>5. CASE ChangePolicy \/ Renew
  BY <1>0, <1>5 DEF ChangePolicy, Renew
<1>6. CASE Rotate
  BY <1>6 DEF Rotate, Close, Range
<1>7. ASSUME NEW a \in answers, TakeAnswer(a)
      PROVE  inbox' = inbox
  BY <1>7 DEF TakeAnswer
<1>8. EndIntake \/ Decide \/ DecideRound \/ (\E d \in decided : Tell(d)) => inbox' = inbox
  BY <1>0 DEF EndIntake, Decide, DecideRound, Tell
<1> QED
  BY <1>0, <1>1, <1>2, <1>3, <1>4, <1>5, <1>6, <1>7, <1>8, Steps DEF HandsLie

LEMMA NextAnswering ==
    ASSUME TypeInv, TicketInv, StageInv, Answering, Next
    PROVE  Answering'
<1> USE DEF worldVars, kernelVars, cacheVars, driverVars, askerVars, turnVars, outerVars, boundVars
<1>1. CASE Fail
  BY <1>1 DEF Fail, CancelAll, CancelQuestions, Answering
<1>2. CASE ChangePolicy \/ Renew \/ Rotate
  <2>1. pc = "poll" /\ decided' = decided /\ waiting' = {}
    BY <1>2 DEF ChangePolicy, Renew, Rotate, CancelAll, CancelQuestions
  <2>2. decided = {}
    BY <2>1 DEF TicketInv, InPhase
  <2> QED
    BY <2>1, <2>2 DEF Answering
<1>3. CASE HandsLie /\ ~Fail
  BY <1>3, HandsStay DEF Answering
<1>4. CASE FlushOne \/ IntakeOne
  BY <1>4, Reading DEF Answering
<1>5. ASSUME NEW a \in answers, TakeAnswer(a)
      PROVE  Answering'
  <2> DEFINE mine == {h \in waiting : h.scope = a.scope}
  <2>1. waiting' = waiting \ mine /\ pending' = pending
    BY <1>5 DEF TakeAnswer
  <2>2. PICK verdict : decided' = decided \cup {[held |-> h, allow |-> verdict] : h \in mine}
    BY <1>5 DEF TakeAnswer
  <2>3. mine \subseteq waiting
    OBVIOUS
  <2> HIDE DEF mine
  <2>4. \A d \in decided' : \/ d \in decided
                            \/ d.held \in mine /\ d = [held |-> d.held, allow |-> verdict]
    BY <2>2
  <2> QED
    BY <2>1, <2>3, <2>4 DEF Answering
<1>6. ASSUME NEW d \in decided, Tell(d), ~Fail
      PROVE  Answering'
  <2>1. decided' = decided \ {d} /\ pending' = pending \ {d.held} /\ waiting' = waiting
    BY <1>6 DEF Tell
  <2> QED
    BY <2>1 DEF Answering
<1>7. CASE EndIntake \/ (DecideRound /\ ~Fail)
  BY <1>7 DEF EndIntake, DecideRound, Answering
<1>8. CASE Decide
  <2>1. decided = {} /\ decided' = decided
    BY <1>8 DEF Decide, TicketInv, InPhase
  <2>2. \/ waiting' = waiting /\ pending' = pending
        \/ \E h : waiting' = waiting \cup {h} /\ pending' = pending \cup {h}
    BY <1>8 DEF Decide, Decided, Wait
  <2> QED
    BY <2>1, <2>2 DEF Answering
<1> QED
  BY <1>1, <1>2, <1>3, <1>4, <1>5, <1>6, <1>7, <1>8, Steps DEF HandsLie

\* The steps that close it, where nothing fails.
LEMMA ClosingSteps ==
    ASSUME TypeInv, Next, ~failed, failed', faults' = 0
    PROVE  /\ faults = 0 /\ \A kind : ~Fault(kind)
           /\ \/ FlushBreaks \/ IntakeBreaks
              \/ \E d \in decided : Tell(d)
              \/ DecideRound \/ Enlist
              \/ \E l \in Launches : Register(l)
<1> USE DEF worldVars, kernelVars, cacheVars, driverVars, askerVars, turnVars, outerVars, boundVars
<1>1. faults \in Nat
  BY DEF TypeInv, PlainTypes
<1>2. \A kind : ~Fault(kind)
  BY <1>1 DEF Fault
<1>3. Fail
  BY OpenStays
<1>4. ~((\E t \in kmap : Offer(t)) \/ (\E v \in outbox : Apply(v)) \/ World)
  BY DEF Offer, Apply, World, Edit, Answer, Ends
<1>5. ~(Begin \/ ChangePolicy \/ PolicyChanged \/ FlushOne \/ IntakeOne)
  BY DEF Begin, ChangePolicy, PolicyChanged, FlushOne, IntakeOne
<1>6. \A a \in answers : ~(Stale(a) \/ TakeAnswer(a))
  BY DEF Stale, TakeAnswer
<1>7. ~(Answered \/ Told \/ StartIntake \/ EndIntake \/ Decide)
  BY DEF Answered, Told, StartIntake, EndIntake, Decide
<1>8. ~(Renew \/ SealFails \/ Drained \/ Renewed \/ Rotate)
  BY DEF Renew, SealFails, Drained, Renewed, Rotate
<1>9. ~((\E l \in Launches : RegisterBreaks(l)) \/ RenewBreaks \/ RotateBreaks)
  BY <1>2 DEF RegisterBreaks, RenewBreaks, RotateBreaks
<1>10. \/ FlushBreaks \/ IntakeBreaks
       \/ \E d \in decided : Tell(d)
       \/ DecideRound \/ Enlist
       \/ \E l \in Launches : Register(l)
  BY <1>4, <1>5, <1>6, <1>7, <1>8, <1>9 DEF Next, Kernel, Turn, Keeper
<1>11. faults' = faults
  BY <1>2, <1>10 DEF FlushBreaks, IntakeBreaks, Broken, NoFault, Tell, DecideRound, Enlist, Register
<1> QED
  BY <1>2, <1>10, <1>11

\* One verdict more is too many only where acks is at its limit.
LEMMA OneMore ==
    ASSUME TypeInv, NEW v, ~CanSend({v})
    PROVE  Cardinality(acks) >= MaxAcks
<1>1. IsFiniteSet(acks)
  <2>1. acks \in SUBSET (1 .. Len(pk)) /\ Len(pk) \in Nat
    BY LenProperties DEF TypeInv, KernelTypes, Packets
  <2>2. IsFiniteSet(1 .. Len(pk))
    BY <2>1, FS_Interval
  <2> QED
    BY <2>1, <2>2, FS_Subset
<1>2. Cardinality(acks) \in Nat /\ Cardinality({v}) = 1
  BY <1>1, FS_CardinalityType, FS_Singleton
<1>3. MaxAcks \in Nat
  BY QueueAssumption
<1> QED
  BY <1>2, <1>3 DEF CanSend

ClosesBySize == ~failed /\ failed' /\ faults' = 0 => SizeReached

LEMMA ClosesStep ==
    ASSUME TypeInv, TicketInv, StageInv, Honest, Answering, Next
    PROVE  ClosesBySize
<1> SUFFICES ASSUME ~failed, failed', faults' = 0
             PROVE  SizeReached
  BY DEF ClosesBySize
<1> USE DEF worldVars, kernelVars, cacheVars, driverVars, askerVars, turnVars, outerVars, boundVars
<1>0. faults = 0 /\ \A kind : ~Fault(kind)
  BY ClosingSteps
<1>1. \A v : ~CanSend({v}) => SizeReached
  BY OneMore DEF SizeReached
<1>2. next = Len(arch) + 1
  BY DEF TypeInv, CacheOrder
<1>3. ~Issuable => SizeReached
  BY <1>2 DEF Issuable, SizeReached
<1>4. \A h \in Hands : Current(h.scope)
  BY DEF TicketInv, Rightful
<1>5. pend = InHand
  BY DEF StageInv, Apart
<1>6. ASSUME inbox # <<>>, Unheard
      PROVE  SizeReached
  <2> DEFINE m == Head(inbox)
  <2>1. m \in Range(inbox)
    BY <1>6, OfTail DEF TypeInv, KernelTypes
  <2>2. ~(m.kind = "ack" /\ ~(m.ok /\ m.packet \in acks))
    <3> SUFFICES ASSUME m.kind = "ack" PROVE m.ok /\ m.packet \in acks
      OBVIOUS
    <3> HIDE DEF m
    <3>1. m.ok
      BY <1>0, <2>1 DEF Honest
    <3>2. m.packet \in acks
      BY <2>1 DEF StageInv, OneStage, Acked
    <3> QED
      BY <3>1, <3>2
  <2>3. ~CacheRoom \/ ~CanSend({DropOf(m.packet)})
    BY <1>6, <2>2 DEF Unheard
  <2> QED
    BY <1>1, <2>3 DEF SizeReached
<1>7. CASE FlushBreaks \/ IntakeBreaks
  <2>1. \/ inbox # <<>> /\ Unheard
        \/ pc \in Flushing /\ left = 0 /\ acks # {}
    BY <1>0, <1>7 DEF FlushBreaks, IntakeBreaks, Broken
  <2> QED
    BY <1>6, <2>1 DEF SizeReached
<1>8. ASSUME NEW d \in decided, Tell(d)
      PROVE  SizeReached
  <2>1. Fresh(d.held)
    BY <1>4, <1>5 DEF Fresh, Hands, Answering, InHand
  <2>2. ~CanSend({Verdict(d.held, d.allow /\ snap[Program[d.held.launch]] # "deny")})
    BY <1>8, <2>1 DEF Tell
  <2> QED
    BY <1>1, <2>2
<1>9. CASE DecideRound
  <2>1. \A h \in {d.held : d \in decisions} : Fresh(h)
    BY <1>4, <1>5 DEF Fresh, Hands, InHand
  <2>2. ~CanSend({Verdict(d.held, d.allow) : d \in decisions})
    BY <1>9, <2>1 DEF DecideRound
  <2> QED
    BY <2>2 DEF SizeReached
<1>10. CASE Enlist
  BY <1>3, <1>10 DEF Enlist
<1>11. ASSUME NEW l \in Launches, Register(l)
       PROVE  SizeReached
  BY <1>3, <1>11 DEF Register
<1> QED
  BY <1>7, <1>8, <1>9, <1>10, <1>11, ClosingSteps

OpenInv == InKernel /\ Honest /\ Answering

\* Where nothing has failed, the network is closed by one of its sizes only: no
\* ticket goes stale before its verdict is sent, no acknowledgement comes out of
\* turn or with an error, and no token is issued that the archive has not
\* (netqueue.rs, netqueue/driver.rs, strict_network.rs).
THEOREM SizesAloneClose == Spec => ClosesOnlyBySize
<1>1. Init => OpenInv
  <2> SUFFICES ASSUME Init PROVE OpenInv
    OBVIOUS
  <2>1. InKernel
    BY DEF Init, InKernel, Unread, Sent, Pended
  <2>2. Honest /\ Answering
    BY DEF Init, Honest, Answering, Range
  <2> QED
    BY <2>1, <2>2 DEF OpenInv
<1>2. QueueInv /\ OpenInv /\ [Next]_vars => OpenInv'
  <2> SUFFICES ASSUME QueueInv, OpenInv, [Next]_vars PROVE OpenInv'
    OBVIOUS
  <2> USE DEF QueueInv, OpenInv
  <2>1. CASE Next
    BY <2>1, NextInKernel, NextHonest, NextAnswering
  <2>2. CASE UNCHANGED vars
    <3>1. UNCHANGED <<pk, inbox, outbox, pend, waiting, pending, decided, failed, faults>>
      BY <2>2 DEF vars, kernelVars, driverVars, askerVars, turnVars, boundVars
    <3>2. InKernel'
      BY <3>1 DEF InKernel, HeldByKernel, Packets, Unread, Sent, Pended
    <3>3. Honest' /\ Answering'
      BY <3>1 DEF Honest, Answering, Range
    <3> QED
      BY <3>2, <3>3
  <2> QED
    BY <2>1, <2>2
<1>3. QueueInv /\ OpenInv /\ [Next]_vars => [ClosesBySize]_vars
  BY ClosesStep DEF QueueInv, OpenInv
<1>4. [ClosesBySize]_vars => [~failed /\ failed' /\ faults' = 0 => SizeReached]_vars
  BY DEF ClosesBySize
<1> QED
  BY <1>1, <1>2, <1>3, <1>4, QueueInvariant, PTL DEF Spec, ClosesOnlyBySize
=============================================================================
