--------------------------- MODULE ClipStoreProofs --------------------------
(***************************************************************************)
(* What holds of ClipStore for every set of contents, every size of a seal *)
(* and of a merge, and every bound: whatever the power's loss brings back  *)
(* of a seal or of a merge, the history opens; what the open history       *)
(* answers is what its files would; and the store implements ClipHistory:  *)
(* what would last of it changes only as the abstract history does.        *)
(***************************************************************************)
EXTENDS ClipStore, SeqLemmas

---------------------------------------------------------------------------
(* What the parts of a history answer. *)

Live(parts) == {e \in Held(parts) : e.id \notin Dead(parts)}
NotedOf(parts, id) == {x \in Noted(parts) : x.id = id}
AnswerOf(live, noted, id) == Answer({e \in live : e.id = id}, noted)

LEMMA AnswersAre ==
    ASSUME NEW P
    PROVE  Answers(P) = [id \in IdsIn(Live(P)) |-> AnswerOf(Live(P), NotedOf(P, id), id)]
<1>1. IdsIn(Held(P)) \ Dead(P) = IdsIn(Live(P))
  BY DEF IdsIn, Live
<1>2. ASSUME NEW id \in IdsIn(Live(P))
      PROVE  Of(Held(P), id) = {e \in Live(P) : e.id = id} /\ Of(Noted(P), id) = NotedOf(P, id)
  BY <1>2 DEF IdsIn, Live, Of, NotedOf
<1> QED
  BY <1>1, <1>2 DEF Answers, AnswerOf

\* Parts with the same live entries and the same events of them answer alike.
LEMMA SameAnswers ==
    ASSUME NEW P, NEW Q, Live(P) = Live(Q),
           \A id \in IdsIn(Live(P)) : NotedOf(P, id) = NotedOf(Q, id)
    PROVE  Answers(P) = Answers(Q)
<1>1. Answers(P) = [id \in IdsIn(Live(P)) |-> AnswerOf(Live(P), NotedOf(P, id), id)]
  BY AnswersAre
<1>2. Answers(Q) = [id \in IdsIn(Live(P)) |-> AnswerOf(Live(P), NotedOf(Q, id), id)]
  BY AnswersAre
<1> QED
  BY <1>1, <1>2

\* A segment written of some parts R of a history S \cup R, the tombstones of
\* entries in S kept, answers for R: no deleted entry comes back, and none that
\* lives is less.
LEMMA WrittenAnswers ==
    ASSUME NEW S, NEW R, NEW T, NEW outside,
           outside = IdsIn(Held(S)), T = Written(R, Dead(S \cup R), outside)
    PROVE  Answers(S \cup {T}) = Answers(S \cup R)
<1> DEFINE P == S \cup R
           Q == S \cup {T}
<1>1. /\ T.entries = {e \in Held(R) : e.id \notin Dead(P)}
      /\ T.events = {e \in Noted(R) : e.id \notin Dead(P)}
      /\ T.tombs = Dead(R) \cap outside
  BY DEF Written, Noted
<1>2. /\ Held(P) = Held(S) \cup Held(R) /\ Held(Q) = Held(S) \cup T.entries
      /\ Dead(P) = Dead(S) \cup Dead(R) /\ Dead(Q) = Dead(S) \cup T.tombs
      /\ Noted(P) = Noted(S) \cup Noted(R) /\ Noted(Q) = Noted(S) \cup T.events
  BY DEF Held, Dead, Noted
<1>3. \A e \in Held(S) : e.id \in outside
  BY DEF IdsIn
<1> HIDE DEF P, Q
<1>4. ASSUME NEW e PROVE e \in Live(P) <=> e \in Live(Q)
  BY <1>1, <1>2, <1>3 DEF Live
<1>5. Live(P) = Live(Q)
  BY <1>4 DEF Live
<1>6. ASSUME NEW id \in IdsIn(Live(P)) PROVE NotedOf(P, id) = NotedOf(Q, id)
  <2>1. id \notin Dead(P)
    BY <1>6 DEF IdsIn, Live
  <2> QED
    BY <2>1, <1>1, <1>2 DEF NotedOf
<1>7. Answers(P) = Answers(Q)
  BY <1>5, <1>6, SameAnswers
<1> QED
  BY <1>7 DEF P, Q

\* A log with no record says nothing.
LEMMA EmptyAnswers ==
    ASSUME NEW P, NEW p, p.entries = {}, p.events = {}, p.tombs = {}
    PROVE  Answers(P \cup {p}) = Answers(P)
<1>1. /\ Held(P \cup {p}) = Held(P) /\ Dead(P \cup {p}) = Dead(P)
      /\ Noted(P \cup {p}) = Noted(P)
  BY DEF Held, Dead, Noted
<1>2. Live(P \cup {p}) = Live(P) /\ \A id : NotedOf(P \cup {p}, id) = NotedOf(P, id)
  BY <1>1 DEF Live, NotedOf
<1> QED
  BY <1>2, SameAnswers

LEMMA EmptyPart ==
    PartOf(<<>>) = [entries |-> {}, events |-> {}, tombs |-> {}]
<1>1. Range(<<>>) = {}
  BY DEF Range
<1> QED
  BY <1>1 DEF PartOf, OfKind, IdsIn

LEMMA AnswersOf == ASSUME NEW P PROVE DOMAIN Answers(P) = IdsIn(Live(P))
BY AnswersAre

---------------------------------------------------------------------------
(* Numbers, sequences and functions. *)

LEMMA MinIn ==
    ASSUME NEW S, S \subseteq Nat, S # {}
    PROVE  Min(S) \in S /\ \A y \in S : Min(S) <= y
<1>1. \E x \in S : \A y \in S : x <= y
  BY Least
<1> QED
  BY <1>1 DEF Min

LEMMA MaxIn ==
    ASSUME NEW S, S \subseteq Nat, S # {}, NEW b \in Nat, \A y \in S : y <= b
    PROVE  Max(S) \in S /\ \A y \in S : y <= Max(S)
<1> DEFINE T == {b - y : y \in S}
<1>1. T \subseteq Nat /\ T # {}
  <2>1. \A y \in S : b - y \in Nat
    OBVIOUS
  <2>2. PICK y \in S : TRUE
    OBVIOUS
  <2> QED
    BY <2>1, <2>2
<1>2. PICK t \in T : \A u \in T : t <= u
  BY <1>1, Least
<1>3. PICK x \in S : t = b - x
  BY <1>2
<1>4. ASSUME NEW y \in S PROVE x >= y
  <2>1. t <= b - y
    BY <1>2
  <2> QED
    BY <2>1, <1>3
<1>5. \E z \in S : \A y \in S : z >= y
  BY <1>3, <1>4
<1>6. Max(S) \in S /\ \A y \in S : Max(S) >= y
  BY <1>5 DEF Max
<1> QED
  BY <1>6

LEMMA MinOfTwo ==
    ASSUME NEW a \in Nat, NEW b \in Nat
    PROVE  Min({a, b}) \in Nat /\ Min({a, b}) = IF a <= b THEN a ELSE b
<1>1. Min({a, b}) \in {a, b} /\ \A y \in {a, b} : Min({a, b}) <= y
  BY MinIn
<1> QED
  BY <1>1

LEMMA FirstOf ==
    ASSUME NEW S, NEW s \in Seq(S), NEW n \in 0 .. Len(s)
    PROVE  /\ First(s, n) \in Seq(S) /\ Len(First(s, n)) = n
           /\ \A i \in 1 .. n : First(s, n)[i] = s[i]
<1>1. Len(s) \in Nat /\ DOMAIN s = 1 .. Len(s) /\ \A i \in 1 .. Len(s) : s[i] \in S
  BY LenProperties, ElementOfSeq
<1>2. /\ SubSeq(s, 1, n) \in Seq(S)
      /\ Len(SubSeq(s, 1, n)) = IF 1 <= n THEN n - 1 + 1 ELSE 0
      /\ \A i \in 1 .. n - 1 + 1 : SubSeq(s, 1, n)[i] = s[1 + i - 1]
  BY <1>1, SubSeqProperties
<1>3. Len(SubSeq(s, 1, n)) = n
  BY <1>1, <1>2
<1>4. ASSUME NEW i \in 1 .. n PROVE SubSeq(s, 1, n)[i] = s[i]
  <2>1. i \in 1 .. n - 1 + 1 /\ 1 + i - 1 = i
    BY <1>1
  <2> QED
    BY <2>1, <1>2
<1> QED
  BY <1>2, <1>3, <1>4 DEF First

---------------------------------------------------------------------------
(* Types. *)

Ids   == 1 .. MaxId
Counts == 0 .. MaxCalls
EntryRec == [kind : {"entry"}, id : Ids, contents : Contents, at : Stamps]
EventRec == [kind : {"copied", "pasted"}, id : Ids, at : Stamps]
TombRec  == [kind : {"delete"}, id : Ids]
Rec      == EntryRec \cup EventRec \cup TombRec

\* A part of a history, whose entries are each copied once at least.
PartType ==
    {p \in [entries : SUBSET EntryRec, events : SUBSET EventRec, tombs : SUBSET Ids] :
        \A e \in p.entries : \E x \in p.events : x.kind = "copied" /\ x.id = e.id}

LogType == {l \in [frames : Seq(Rec), safe : Nat, accepted : Nat] :
                l.safe <= Len(l.frames) /\ l.accepted <= Len(l.frames)}
LogFuns == UNION {[D -> LogType] : D \in SUBSET Nat}
SegFuns == UNION {[D -> PartType] : D \in SUBSET Nat}

ManType == [active : Nat, segments : Seq(Nat), nextFile : Nat, nextId : Nat]
MemType == [active : Nat, len : Nat, segments : Seq(Nat), nextFile : Nat, nextId : Nat]
DirType == [logs : SUBSET Nat, segs : SegFuns, man : ManType]
CallType == [todo : Seq(Rec), compact : {"no", "seal", "all"}]

LEMMA FunOf ==
    ASSUME NEW T, NEW f
    PROVE  f \in UNION {[D -> T] : D \in SUBSET Nat}
              <=> /\ DOMAIN f \subseteq Nat /\ f = [x \in DOMAIN f |-> f[x]]
                  /\ \A x \in DOMAIN f : f[x] \in T
<1>1. ASSUME f \in UNION {[D -> T] : D \in SUBSET Nat}
      PROVE  /\ DOMAIN f \subseteq Nat /\ f = [x \in DOMAIN f |-> f[x]]
             /\ \A x \in DOMAIN f : f[x] \in T
  <2>1. PICK D \in SUBSET Nat : f \in [D -> T]
    BY <1>1
  <2> QED
    BY <2>1
<1>2. ASSUME DOMAIN f \subseteq Nat, f = [x \in DOMAIN f |-> f[x]],
             \A x \in DOMAIN f : f[x] \in T
      PROVE  f \in UNION {[D -> T] : D \in SUBSET Nat}
  <2>1. f \in [DOMAIN f -> T]
    BY <1>2
  <2> QED
    BY <1>2, <2>1
<1> QED
  BY <1>1, <1>2

LEMMA LogOf ==
    ASSUME NEW f \in LogFuns
    PROVE  /\ DOMAIN f \subseteq Nat /\ f = [x \in DOMAIN f |-> f[x]]
           /\ \A x \in DOMAIN f : f[x] \in LogType
BY FunOf DEF LogFuns

LEMMA SegOf ==
    ASSUME NEW f \in SegFuns
    PROVE  DOMAIN f \subseteq Nat /\ \A x \in DOMAIN f : f[x] \in PartType
BY FunOf DEF SegFuns

\* A file added, or written anew.
LEMMA AddedSeg ==
    ASSUME NEW f \in SegFuns, NEW n \in Nat, NEW v \in PartType
    PROVE  With(f, n, v) \in SegFuns
<1> DEFINE g == With(f, n, v)
<1>1. DOMAIN f \subseteq Nat /\ \A x \in DOMAIN f : f[x] \in PartType
  BY FunOf DEF SegFuns
<1>2. /\ DOMAIN g = DOMAIN f \cup {n} /\ g[n] = v /\ \A x \in DOMAIN f : x # n => g[x] = f[x]
      /\ g = [x \in DOMAIN g |-> g[x]]
  BY DEF With
<1> HIDE DEF g
<1>3. DOMAIN g \subseteq Nat /\ \A x \in DOMAIN g : g[x] \in PartType
  BY <1>1, <1>2
<1>4. g \in SegFuns
  BY <1>2, <1>3, FunOf DEF SegFuns
<1> QED
  BY <1>4 DEF g

LEMMA AddedLog ==
    ASSUME NEW f \in LogFuns, NEW n \in Nat, NEW v \in LogType
    PROVE  With(f, n, v) \in LogFuns
<1> DEFINE g == With(f, n, v)
<1>1. DOMAIN f \subseteq Nat /\ \A x \in DOMAIN f : f[x] \in LogType
  BY FunOf DEF LogFuns
<1>2. /\ DOMAIN g = DOMAIN f \cup {n} /\ g[n] = v /\ \A x \in DOMAIN f : x # n => g[x] = f[x]
      /\ g = [x \in DOMAIN g |-> g[x]]
  BY DEF With
<1> HIDE DEF g
<1>3. DOMAIN g \subseteq Nat /\ \A x \in DOMAIN g : g[x] \in LogType
  BY <1>1, <1>2
<1>4. g \in LogFuns
  BY <1>2, <1>3, FunOf DEF LogFuns
<1> QED
  BY <1>4 DEF g

LEMMA RestrictedSegs ==
    ASSUME NEW f \in SegFuns, NEW S \in SUBSET DOMAIN f
    PROVE  /\ Restrict(f, S) \in SegFuns
           /\ DOMAIN Restrict(f, S) = S /\ \A x \in S : Restrict(f, S)[x] = f[x]
<1> DEFINE g == Restrict(f, S)
<1>1. DOMAIN f \subseteq Nat /\ \A x \in DOMAIN f : f[x] \in PartType
  BY FunOf DEF SegFuns
<1>2. DOMAIN g = S /\ (\A x \in S : g[x] = f[x]) /\ g = [x \in DOMAIN g |-> g[x]]
  BY DEF Restrict
<1> HIDE DEF g
<1>3. DOMAIN g \subseteq Nat /\ \A x \in DOMAIN g : g[x] \in PartType
  BY <1>1, <1>2
<1>4. g \in SegFuns
  BY <1>2, <1>3, FunOf DEF SegFuns
<1> QED
  BY <1>2, <1>4 DEF g

LEMMA PartOfType ==
    ASSUME NEW frames \in Seq(Rec)
    PROVE  PartOf(frames) \in PartType
<1> DEFINE S == Range(frames)
           E == OfKind(S, {"entry"})
           C == {Event("copied", e.id, e.at) : e \in E}
<1>1. S \subseteq Rec
  BY OfRange
<1>2. E \subseteq EntryRec
  BY <1>1 DEF OfKind, Rec, EntryRec, EventRec, TombRec
<1>3. C \subseteq EventRec /\ \A e \in E : \E x \in C : x.kind = "copied" /\ x.id = e.id
  <2>1. ASSUME NEW e \in E
        PROVE  /\ Event("copied", e.id, e.at) \in EventRec
               /\ Event("copied", e.id, e.at).kind = "copied"
               /\ Event("copied", e.id, e.at).id = e.id
    <3>1. e.id \in Ids /\ e.at \in Stamps
      BY <1>2, <2>1 DEF EntryRec
    <3> QED
      BY <3>1 DEF Event, EventRec
  <2> HIDE DEF E
  <2>2. C \subseteq EventRec
    BY <2>1
  <2>3. ASSUME NEW e \in E PROVE \E x \in C : x.kind = "copied" /\ x.id = e.id
    <3>1. Event("copied", e.id, e.at) \in C
      OBVIOUS
    <3> QED
      BY <3>1, <2>1
  <2> QED
    BY <2>2, <2>3
<1>4. OfKind(S, {"copied", "pasted"}) \subseteq EventRec
  BY <1>1 DEF OfKind, Rec, EntryRec, EventRec, TombRec
<1>5. IdsIn(OfKind(S, {"delete"})) \subseteq Ids
  BY <1>1 DEF OfKind, IdsIn, Rec, EntryRec, EventRec, TombRec
<1>6. PartOf(frames) = [entries |-> E, events |-> OfKind(S, {"copied", "pasted"}) \cup C,
                        tombs |-> IdsIn(OfKind(S, {"delete"}))]
  BY DEF PartOf
<1> HIDE DEF E, C, S
<1> QED
  BY <1>2, <1>3, <1>4, <1>5, <1>6 DEF PartType

LEMMA WrittenType ==
    ASSUME NEW R, R \subseteq PartType, NEW dead, NEW outside
    PROVE  Written(R, dead, outside) \in PartType
<1> DEFINE E == {e \in Held(R) : e.id \notin dead}
           N == {e \in Noted(R) : e.id \notin dead}
           D == Dead(R) \cap outside
<1>1. E \subseteq EntryRec /\ N \subseteq EventRec /\ D \subseteq Ids
  BY DEF Held, Noted, Dead, PartType
<1>2. ASSUME NEW e \in E PROVE \E x \in N : x.kind = "copied" /\ x.id = e.id
  <2>1. PICK p \in R : e \in p.entries
    BY <1>2 DEF Held
  <2>2. PICK x \in p.events : x.kind = "copied" /\ x.id = e.id
    BY <2>1 DEF PartType
  <2> QED
    BY <2>1, <2>2 DEF Noted
<1>3. Written(R, dead, outside) = [entries |-> E, events |-> N, tombs |-> D]
  BY DEF Written, Noted
<1> HIDE DEF E, N, D
<1> QED
  BY <1>1, <1>2, <1>3 DEF PartType

\* What a history of such parts answers: of ids there are, copied once at least.
LEMMA AnswersType ==
    ASSUME NEW P, P \subseteq PartType
    PROVE  LET A == Answers(P)
           IN  /\ DOMAIN A \subseteq Ids
               /\ \A id \in DOMAIN A :
                     /\ A[id].events \subseteq [kind : {"copied", "pasted"}, at : Stamps]
                     /\ \E e \in A[id].events : e.kind = "copied"
<1> DEFINE A == Answers(P)
<1>1. /\ DOMAIN A = IdsIn(Live(P))
      /\ \A id \in DOMAIN A : A[id] = AnswerOf(Live(P), NotedOf(P, id), id)
  BY AnswersAre
<1>2. Held(P) \subseteq EntryRec /\ Noted(P) \subseteq EventRec
  BY DEF Held, Noted, PartType
<1> HIDE DEF A
<1>3. DOMAIN A \subseteq Ids
  BY <1>1, <1>2 DEF IdsIn, Live, EntryRec
<1>4. ASSUME NEW id \in DOMAIN A
      PROVE  /\ A[id].events \subseteq [kind : {"copied", "pasted"}, at : Stamps]
             /\ \E e \in A[id].events : e.kind = "copied"
  <2>1. A[id].events = {[kind |-> e.kind, at |-> e.at] : e \in NotedOf(P, id)}
    BY <1>1 DEF AnswerOf, Answer
  <2>2. NotedOf(P, id) \subseteq EventRec
    BY <1>2 DEF NotedOf
  <2>3. PICK e \in Live(P) : e.id = id
    BY <1>1 DEF IdsIn
  <2>4. PICK p \in P : e \in p.entries
    BY <2>3 DEF Live, Held
  <2>5. PICK x \in p.events : x.kind = "copied" /\ x.id = e.id
    BY <2>4 DEF PartType
  <2>6. x \in NotedOf(P, id)
    BY <2>3, <2>4, <2>5 DEF NotedOf, Noted
  <2>7. [kind |-> x.kind, at |-> x.at] \in A[id].events
    BY <2>1, <2>6
  <2>8. A[id].events \subseteq [kind : {"copied", "pasted"}, at : Stamps]
    BY <2>1, <2>2 DEF EventRec
  <2> QED
    BY <2>5, <2>7, <2>8
<1> QED
  BY <1>3, <1>4 DEF A

---------------------------------------------------------------------------
(* A call's records. *)

LEMMA StampsFinite == IsFiniteSet(Stamps)
<1> DEFINE A == 0 .. MaxMs
           B == 0 .. (2 * MaxCalls + 1)
           P == A \X B
<1>1. MaxMs \in Nat /\ 2 * MaxCalls + 1 \in Nat
  BY StoreAssumption
<1>2. IsFiniteSet(A) /\ IsFiniteSet(B)
  BY <1>1, FS_Interval
<1> HIDE DEF A, B
<1>3. IsFiniteSet(P)
  BY <1>2, FS_Product
<1> DEFINE f == [p \in P |-> [ms |-> p[1], no |-> p[2]]]
<1>4. f \in Surjection(P, Stamps)
  <2>1. \A p \in P : f[p] \in Stamps
    BY DEF Stamps, A, B
  <2>2. ASSUME NEW x \in Stamps PROVE \E p \in P : f[p] = x
    <3>1. <<x.ms, x.no>> \in P /\ x = [ms |-> x.ms, no |-> x.no]
      BY DEF Stamps, A, B
    <3> QED
      BY <3>1
  <2> HIDE DEF P
  <2> QED
    BY <2>1, <2>2 DEF Surjection
<1> HIDE DEF P, f
<1> QED
  BY <1>3, <1>4, FS_Surjection

\* Of some times one is the last.
LEMMA LastIn ==
    ASSUME NEW R, R \subseteq Stamps, R # {}
    PROVE  \E m \in R : \A y \in R : y = m \/ Before(y, m)
<1>1. \A x \in R : x.ms \in Nat /\ x.no \in Nat /\ x.ms <= MaxMs /\ x.no <= 2 * MaxCalls + 1
                 /\ x = [ms |-> x.ms, no |-> x.no]
  BY StoreAssumption DEF Stamps
<1>2. MaxMs \in Nat /\ 2 * MaxCalls + 1 \in Nat
  BY StoreAssumption
<1> DEFINE M == {x.ms : x \in R}
<1>3. Max(M) \in M /\ \A y \in M : y <= Max(M)
  <2>1. M \subseteq Nat /\ M # {} /\ \A y \in M : y <= MaxMs
    BY <1>1
  <2> HIDE DEF M
  <2> QED
    BY <1>2, <2>1, MaxIn
<1> DEFINE hi == Max(M)
           N == {x.no : x \in {y \in R : y.ms = hi}}
<1>4. Max(N) \in N /\ \A y \in N : y <= Max(N)
  <2>1. \E x \in R : x.ms = hi
    BY <1>3
  <2> HIDE DEF hi
  <2>2. N \subseteq Nat /\ N # {} /\ \A y \in N : y <= 2 * MaxCalls + 1
    BY <1>1, <2>1
  <2> HIDE DEF N
  <2> QED
    BY <1>2, <2>2, MaxIn
<1>5. PICK m \in R : m.ms = hi /\ m.no = Max(N)
  BY <1>4
<1>6. ASSUME NEW y \in R PROVE y = m \/ Before(y, m)
  <2>1. y.ms <= m.ms
    BY <1>3, <1>5
  <2>2. y.ms = m.ms => y.no <= m.no
    <3>1. y.ms = hi => y.no \in N
      OBVIOUS
    <3> HIDE DEF hi, N
    <3> QED
      BY <1>4, <1>5, <3>1
  <2> HIDE DEF hi, N
  <2> QED
    BY <1>1, <2>1, <2>2 DEF Before
<1> QED
  BY <1>6

LEMMA StampNumbers == \A x \in Stamps : x.ms \in Nat /\ x.no \in Nat
BY StoreAssumption DEF Stamps

LEMMA BeforeOnce == \A x \in Stamps : ~Before(x, x)
BY StoreAssumption DEF Before, Stamps

LEMMA InOrderIn ==
    ASSUME NEW S, S \subseteq Stamps
    PROVE  /\ Cardinality(S) \in Nat /\ InOrder(S) \in [1 .. Cardinality(S) -> S]
           /\ \A i, j \in 1 .. Cardinality(S) : i < j => Before(InOrder(S)[i], InOrder(S)[j])
           /\ IsFiniteSet(S)
<1> DEFINE Ordered(R, n) == \E s \in [1 .. n -> R] :
                               \A i, j \in 1 .. n : i < j => Before(s[i], s[j])
           T == {n \in Nat : \A R \in SUBSET Stamps : Cardinality(R) = n => Ordered(R, n)}
<1>2. \A R \in SUBSET Stamps : IsFiniteSet(R) /\ Cardinality(R) \in Nat
  BY StampsFinite, FS_Subset, FS_CardinalityType
<1>3. 0 \in T
  <2>1. ASSUME NEW R \in SUBSET Stamps, Cardinality(R) = 0 PROVE Ordered(R, 0)
    <3>1. R = {}
      BY <1>2, <2>1, FS_EmptySet
    <3>2. PICK s \in [1 .. 0 -> R] : TRUE
      <4>1. [i \in 1 .. 0 |-> i] \in [1 .. 0 -> R]
        OBVIOUS
      <4> QED
        BY <4>1
    <3>3. \A i, j \in 1 .. 0 : i < j => Before(s[i], s[j])
      OBVIOUS
    <3> QED
      BY <3>2, <3>3
  <2> QED
    BY <2>1
<1>4. ASSUME NEW n \in Nat, n \in T PROVE n + 1 \in T
  <2>1. ASSUME NEW R \in SUBSET Stamps, Cardinality(R) = n + 1 PROVE Ordered(R, n + 1)
    <3>1. R # {}
      <4>1. R = {} => Cardinality(R) = 0
        BY FS_EmptySet
      <4> QED
        BY <2>1, <4>1
    <3>2. PICK m \in R : \A y \in R : y = m \/ Before(y, m)
      BY <3>1, LastIn
    <3> DEFINE Q == R \ {m}
    <3>3. Q \in SUBSET Stamps /\ Cardinality(Q) = n
      <4>1. Cardinality(Q) = Cardinality(R) - 1
        BY <1>2, <3>2, FS_RemoveElement
      <4> QED
        BY <2>1, <4>1
    <3>4. PICK s \in [1 .. n -> Q] : \A i, j \in 1 .. n : i < j => Before(s[i], s[j])
      BY <1>4, <3>3
    <3> DEFINE t == [i \in 1 .. n + 1 |-> IF i <= n THEN s[i] ELSE m]
    <3>5. ASSUME NEW i \in 1 .. n + 1
          PROVE  /\ t[i] \in R /\ (i <= n => i \in 1 .. n /\ t[i] = s[i] /\ Before(t[i], m))
                 /\ (~(i <= n) => i = n + 1 /\ t[i] = m)
      <4>1. CASE i <= n
        <5>1. i \in 1 .. n
          BY <4>1
        <5>2. s[i] \in Q /\ t[i] = s[i]
          BY <5>1, <3>4, <4>1
        <5>3. s[i] \in R /\ s[i] # m
          BY <5>2
        <5> QED
          BY <5>1, <5>2, <5>3, <3>2, <4>1
      <4>2. CASE ~(i <= n)
        BY <4>2, <3>2
      <4> QED
        BY <4>1, <4>2
    <3>6. t \in [1 .. n + 1 -> R]
      <4> HIDE DEF Q
      <4> QED
        BY <3>5
    <3> HIDE DEF t
    <3>8. ASSUME NEW i \in 1 .. n + 1, NEW j \in 1 .. n + 1, i < j PROVE Before(t[i], t[j])
      <4>1. i <= n
        BY <3>8
      <4>2. CASE j <= n
        BY <3>4, <3>5, <3>8, <4>1, <4>2
      <4>3. CASE ~(j <= n)
        BY <3>5, <4>1, <4>3
      <4> QED
        BY <4>2, <4>3
    <3> QED
      BY <3>6, <3>8
  <2> QED
    BY <2>1
<1>5. Nat \subseteq T
  <2> HIDE DEF T
  <2> QED
    BY <1>3, <1>4, Inductive
<1>6. Cardinality(S) \in Nat /\ Ordered(S, Cardinality(S)) /\ IsFiniteSet(S)
  BY <1>2, <1>5
<1> QED
  BY <1>6 DEF InOrder

\* All the times, each once, are in their order.
LEMMA InOrderSeq ==
    ASSUME NEW S, S \subseteq Stamps
    PROVE  /\ InOrder(S) \in Seq(S) /\ Range(InOrder(S)) = S
           /\ \A i, j \in 1 .. Len(InOrder(S)) : i < j => Before(InOrder(S)[i], InOrder(S)[j])
<1> DEFINE n == Cardinality(S)
           f == InOrder(S)
<1>1. /\ n \in Nat /\ f \in [1 .. n -> S] /\ IsFiniteSet(S)
      /\ \A i, j \in 1 .. n : i < j => Before(f[i], f[j])
  BY InOrderIn, Zenon
<1> HIDE DEF n, f
<1>2. f \in Seq(S) /\ Len(f) = n
  BY <1>1, SeqDef, LenProperties
<1>3. ASSUME NEW i \in 1 .. n, NEW j \in 1 .. n, f[i] = f[j] PROVE i = j
  <2>1. f[i] \in Stamps
    BY <1>1
  <2>2. ~(i < j) /\ ~(j < i)
    BY <1>1, <1>3, <2>1, BeforeOnce
  <2> QED
    BY <1>1, <2>2
<1>4. IsFiniteSet(1 .. n) /\ Cardinality(1 .. n) = n
  BY <1>1, FS_Interval
<1>5. ASSUME NEW x \in S PROVE \E i \in 1 .. n : f[i] = x
  <2>1. SUFFICES ASSUME \A i \in 1 .. n : f[i] # x PROVE FALSE
    OBVIOUS
  <2> DEFINE U == 1 .. n
             V == S \ {x}
  <2>2. f \in [U -> V]
    BY <1>1, <2>1
  <2>3. IsFiniteSet(V) /\ Cardinality(V) = n - 1
    BY <1>1, <1>5, FS_RemoveElement DEF n
  <2>4. IsFiniteSet(U) /\ Cardinality(V) < Cardinality(U)
    BY <1>1, <1>4, <2>3
  <2>5. \A i, j \in U : f[i] = f[j] => i = j
    BY <1>3
  <2> HIDE DEF U, V
  <2>6. \E i, j \in U : i # j /\ f[i] = f[j]
    BY ONLY <2>2, <2>3, <2>4, FS_PigeonHole
  <2> QED
    BY <2>5, <2>6
<1>6. Range(f) = S
  BY <1>1, <1>5 DEF Range
<1> QED
  BY <1>1, <1>2, <1>6 DEF f

LEMMA Records ==
    /\ \A id \in Ids, c \in Contents, at \in Stamps : Entry(id, c, at) \in Rec
    /\ \A kind \in {"copied", "pasted"}, id \in Ids, at \in Stamps : Event(kind, id, at) \in Rec
    /\ \A id \in Ids : Tombstone(id) \in Rec
BY DEF Entry, Event, Tombstone, Rec, EntryRec, EventRec, TombRec

\* A call's time, of its number.
LEMMA StampIn ==
    ASSUME calls \in Counts, calls < MaxCalls, NEW ms \in 0 .. MaxMs, NEW n \in {0, 1}
    PROVE  Stamp(ms, n) \in Stamps
BY StoreAssumption DEF Stamp, Stamps, Counts

\* The copies and the pastes that are noted of an entry.
Notes(id) == {x \in Rec : x.kind \in {"copied", "pasted"} /\ x.id = id}

\* What a replace writes: the new entry, in the place of the old one's first copy;
\* the old one's other copies and its pastes; its tombstone.
LEMMA ReplacementIs ==
    ASSUME Mine \subseteq PartType, NEW id \in DOMAIN Mirror, NEW c \in Contents, mem.nextId \in Ids
    PROVE  /\ id \in Ids
           /\ \E at \in Stamps, t1 \in Seq(Notes(mem.nextId)), t2 \in Seq(Notes(mem.nextId)) :
                 /\ Replacement(id, c) =
                       <<Entry(mem.nextId, c, at)>> \o t1 \o t2 \o <<Tombstone(id)>>
                 /\ \A e \in Mirror[id].events :
                       \/ StandsFor([kind |-> "copied", at |-> at], e, Mirror[id].events)
                       \/ \E x \in Range(t1) \cup Range(t2) : e = [kind |-> x.kind, at |-> x.at]
<1> DEFINE old == Mirror[id].events
           C == {e.at : e \in OfKind(old, {"copied"})}
           P == {e.at : e \in OfKind(old, {"pasted"})}
           copies == InOrder(C)
           pastes == InOrder(P)
           next == mem.nextId
           Events(kind, s) == [i \in DOMAIN s |-> Event(kind, next, s[i])]
           at == [ms |-> CopiedAt(id).ms, no |-> copies[1].no]
           t1 == Events("copied", Tail(copies))
           t2 == Events("pasted", pastes)
<1>1. /\ id \in Ids /\ old \subseteq [kind : {"copied", "pasted"}, at : Stamps]
      /\ \E e \in old : e.kind = "copied"
  BY AnswersType DEF Mirror
<1>2. C \subseteq Stamps /\ P \subseteq Stamps /\ C # {}
  <2> HIDE DEF old
  <2> QED
    BY <1>1 DEF OfKind
<1>3. CopiedAt(id) \in Stamps
  <2>1. DOMAIN Mirror = IdsIn(Live(Mine))
    BY AnswersOf DEF Mirror
  <2>2. PICK e \in Live(Mine) : e.id = id
    BY <2>1 DEF IdsIn
  <2>3. Of(Held(Mine), id) # {} /\ Of(Held(Mine), id) \subseteq EntryRec
    BY <2>2 DEF Of, Live, Held, PartType
  <2>4. (CHOOSE x \in Of(Held(Mine), id) : TRUE) \in EntryRec
    BY <2>3
  <2> QED
    BY <2>4 DEF CopiedAt, EntryRec
<1>4. /\ copies \in Seq(Stamps) /\ Range(copies) = C
      /\ \A i, j \in 1 .. Len(copies) : i < j => Before(copies[i], copies[j])
      /\ pastes \in Seq(Stamps) /\ Range(pastes) = P
  <2>1. \A S : S \subseteq Stamps => Seq(S) \subseteq Seq(Stamps)
    OBVIOUS
  <2> HIDE DEF C, P
  <2> QED
    BY <1>2, <2>1, InOrderSeq
<1> HIDE DEF copies, pastes
<1>5. /\ copies # <<>> /\ Len(copies) \in Nat /\ 1 <= Len(copies) /\ DOMAIN copies = 1 .. Len(copies)
      /\ copies[1] \in Stamps /\ Head(copies) = copies[1] /\ Tail(copies) \in Seq(Stamps)
      /\ Range(copies) = {copies[1]} \cup Range(Tail(copies))
  <2> DEFINE none == <<>>
  <2>n. none = <<>> /\ DOMAIN none = {}
    OBVIOUS
  <2> HIDE DEF none, C
  <2>r. Range(none) = {}
    BY <2>n DEF Range
  <2>1. copies # <<>>
    BY ONLY <1>2, <1>4, <2>n, <2>r
  <2>2. Len(copies) \in Nat /\ Len(copies) # 0 /\ DOMAIN copies = 1 .. Len(copies)
    BY <1>4, <2>1, EmptySeq, LenProperties
  <2> QED
    BY <1>4, <2>1, <2>2, OfTail, ElementOfSeq
<1>6. \A x \in C : copies[1].ms <= x.ms
  <2>1. ASSUME NEW i \in 1 .. Len(copies) PROVE copies[1].ms <= copies[i].ms
    <3>1. copies[i] \in Stamps /\ copies[i].ms \in Nat /\ copies[1].ms \in Nat
      <4>1. copies[i] \in Stamps
        BY <1>4, <2>1, ElementOfSeq
      <4> QED
        BY <1>5, <4>1, StampNumbers
    <3>2. 1 \in 1 .. Len(copies) /\ (i = 1 \/ 1 < i)
      BY <1>5
    <3> QED
      BY <1>4, <3>1, <3>2 DEF Before
  <2> QED
    BY <1>4, <1>5, <2>1 DEF Range
<1>7. ASSUME NEW kind \in {"copied", "pasted"}, NEW s \in Seq(Stamps)
      PROVE  /\ Events(kind, s) \in Seq(Notes(next))
             /\ \A x \in Range(s) : \E e \in Range(Events(kind, s)) : e.kind = kind /\ e.at = x
  <2>1. DOMAIN s = 1 .. Len(s) /\ Len(s) \in Nat /\ \A i \in 1 .. Len(s) : s[i] \in Stamps
    BY <1>7, LenProperties, ElementOfSeq
  <2>2. \A i \in 1 .. Len(s) : Event(kind, next, s[i]) \in Notes(next)
    BY <1>7, <2>1, Records DEF Notes, Event
  <2>3. Events(kind, s) \in [1 .. Len(s) -> Notes(next)]
    BY <2>1, <2>2
  <2> PICK v : v = Events(kind, s)
    OBVIOUS
  <2>4. ASSUME NEW i \in 1 .. Len(s) PROVE v[i] \in Range(v) /\ v[i].kind = kind /\ v[i].at = s[i]
    <3>1. v[i] = Event(kind, next, s[i]) /\ v[i] \in Range(v)
      BY <2>1, <2>3 DEF Range
    <3> QED
      BY <3>1 DEF Event
  <2> HIDE DEF Events
  <2>5. v \in Seq(Notes(next))
    BY <2>1, <2>3, SeqDef
  <2>6. \A x \in Range(s) : \E e \in Range(v) : e.kind = kind /\ e.at = x
    BY <2>1, <2>4 DEF Range
  <2> QED
    BY <2>5, <2>6
<1>8. /\ t1 \in Seq(Notes(next)) /\ t2 \in Seq(Notes(next))
      /\ \A x \in Range(Tail(copies)) : \E e \in Range(t1) : e.kind = "copied" /\ e.at = x
      /\ \A x \in P : \E e \in Range(t2) : e.kind = "pasted" /\ e.at = x
  <2>1. /\ t1 \in Seq(Notes(next))
        /\ \A x \in Range(Tail(copies)) : \E e \in Range(t1) : e.kind = "copied" /\ e.at = x
    <3> PICK u \in Seq(Stamps) : u = Tail(copies)
      BY <1>5
    <3> HIDE DEF Events
    <3> QED
      BY <1>7
  <2>2. /\ t2 \in Seq(Notes(next))
        /\ \A x \in Range(pastes) : \E e \in Range(t2) : e.kind = "pasted" /\ e.at = x
    <3> HIDE DEF Events
    <3> QED
      BY <1>4, <1>7
  <2> QED
    BY <1>4, <2>1, <2>2
<1>9. at \in Stamps
  BY <1>3, <1>5 DEF Stamps
<1>10. Replacement(id, c) = <<Entry(next, c, at)>> \o t1 \o t2 \o <<Tombstone(id)>>
  BY DEF Replacement, copies, pastes
<1> HIDE DEF t1, t2, at, Events
<1>11. ASSUME NEW e \in old
       PROVE  \/ StandsFor([kind |-> "copied", at |-> at], e, old)
              \/ \E x \in Range(t1) \cup Range(t2) : e = [kind |-> x.kind, at |-> x.at]
  <2>1. e.kind \in {"copied", "pasted"} /\ e = [kind |-> e.kind, at |-> e.at]
    BY <1>1
  <2>2. CASE e.kind = "copied"
    <3>1. e.at \in C
      BY <2>2 DEF OfKind
    <3>2. CASE e.at \in Range(Tail(copies))
      BY <1>8, <2>1, <2>2, <3>2
    <3>3. CASE e.at = copies[1]
      <4>1. \A x \in OfKind(old, {"copied"}) : e.at.ms <= x.at.ms
        BY <1>6, <3>3
      <4>2. at.no = e.at.no
        BY <3>3 DEF at
      <4> QED
        BY <2>2, <4>1, <4>2 DEF StandsFor
    <3> HIDE DEF C
    <3> QED
      BY <1>4, <1>5, <3>1, <3>2, <3>3
  <2>3. CASE e.kind = "pasted"
    <3>1. e.at \in P
      BY <2>3 DEF OfKind
    <3> HIDE DEF P
    <3> QED
      BY <1>8, <2>1, <2>3, <3>1
  <2> QED
    BY <2>1, <2>2, <2>3
<1>12. at \in Stamps /\ t1 \in Seq(Notes(mem.nextId)) /\ t2 \in Seq(Notes(mem.nextId))
  BY <1>8, <1>9
<1>13. Replacement(id, c) = <<Entry(mem.nextId, c, at)>> \o t1 \o t2 \o <<Tombstone(id)>>
  BY <1>10
<1> DEFINE Keeps(a, u1, u2) ==
              \A e \in Mirror[id].events :
                 \/ StandsFor([kind |-> "copied", at |-> a], e, Mirror[id].events)
                 \/ \E x \in Range(u1) \cup Range(u2) : e = [kind |-> x.kind, at |-> x.at]
           Is(a, u1, u2) ==
              Replacement(id, c) = <<Entry(mem.nextId, c, a)>> \o u1 \o u2 \o <<Tombstone(id)>>
<1>14. Keeps(at, t1, t2) /\ Is(at, t1, t2)
  BY <1>11, <1>13
<1> HIDE DEF Keeps, Is
<1>15. \E a \in Stamps, u1 \in Seq(Notes(mem.nextId)), u2 \in Seq(Notes(mem.nextId)) :
          Is(a, u1, u2) /\ Keeps(a, u1, u2)
  BY <1>12, <1>14
<1>16. id \in Ids
  BY <1>1
<1> QED
  BY ONLY <1>15, <1>16 DEF Is, Keeps

LEMMA ReplacementType ==
    ASSUME Mine \subseteq PartType, NEW id \in DOMAIN Mirror, NEW c \in Contents, mem.nextId \in Ids
    PROVE  Replacement(id, c) \in Seq(Rec) /\ id \in Ids
<1>1. id \in Ids
  BY ReplacementIs
<1>2. PICK at \in Stamps, t1 \in Seq(Notes(mem.nextId)), t2 \in Seq(Notes(mem.nextId)) :
         Replacement(id, c) = <<Entry(mem.nextId, c, at)>> \o t1 \o t2 \o <<Tombstone(id)>>
  BY ReplacementIs
<1>3. Entry(mem.nextId, c, at) \in Rec /\ Tombstone(id) \in Rec /\ Notes(mem.nextId) \subseteq Rec
  BY <1>1, Records DEF Notes
<1>4. t1 \in Seq(Rec) /\ t2 \in Seq(Rec)
  BY <1>3
<1>5. <<Entry(mem.nextId, c, at)>> \in Seq(Rec) /\ <<Tombstone(id)>> \in Seq(Rec)
  BY ONLY <1>3
<1>6. \A a, b \in Seq(Rec) : a \o b \in Seq(Rec)
  BY OfConcat
<1> QED
  BY ONLY <1>1, <1>2, <1>4, <1>5, <1>6, Zenon

LEMMA FirstRecordType ==
    ASSUME NEW P, P \subseteq PartType, Mirror = Answers(P), NEW c \in Contents,
           NEW ms \in 0 .. MaxMs, mem.nextId \in Ids, calls \in Counts, calls < MaxCalls
    PROVE  FirstRecord(c, ms) \in Rec /\ FirstRecord(c, ms).id \in Ids
<1>1. Twins(c) \subseteq Ids
  <2>1. DOMAIN Mirror \subseteq Ids
    BY AnswersType
  <2> QED
    BY <2>1 DEF Twins
<1>s. Stamp(ms, 0) \in Stamps
  BY StampIn
<1>2. CASE Twins(c) = {}
  BY <1>2, <1>s, Records DEF FirstRecord, Entry
<1>3. CASE Twins(c) # {}
  <2>1. Max(Twins(c)) \in Ids
    <3>1. MaxId \in Nat
      BY StoreAssumption
    <3>2. Twins(c) \subseteq Nat /\ \A y \in Twins(c) : y <= MaxId
      BY <1>1, <3>1 DEF Ids
    <3>3. Max(Twins(c)) \in Twins(c)
      BY <1>3, <3>1, <3>2, MaxIn
    <3> QED
      BY <1>1, <3>3
  <2>2. FirstRecord(c, ms) = Event("copied", Max(Twins(c)), Stamp(ms, 0))
    BY <1>3 DEF FirstRecord
  <2> QED
    BY <1>s, <2>1, <2>2, Records DEF Event
<1> QED
  BY <1>2, <1>3

LEMMA GoodType ==
    ASSUME NEW frames \in Seq(Rec)
    PROVE  Good(frames) \in Seq(Rec)
<1> DEFINE S == {n \in 0 .. Len(frames) : Ascends(frames, n)}
<1>1. Len(frames) \in Nat
  BY LenProperties
<1>2. 0 \in S
  BY <1>1 DEF Ascends
<1>3. S \subseteq Nat /\ \A n \in S : n <= Len(frames)
  BY <1>1
<1>4. Max(S) \in S
  BY <1>1, <1>2, <1>3, MaxIn
<1> QED
  BY <1>4, FirstOf DEF Good

LEMMA NextIdType ==
    ASSUME NEW d \in DirType, NEW frames \in Seq(Rec), Range(d.man.segments) \subseteq DOMAIN d.segs
    PROVE  NextId(d, frames) \in Nat /\ 0 < NextId(d, frames)
<1> DEFINE F == {f.id + 1 : f \in OfKind(Range(frames), {"entry"})}
           H == Held({d.segs[i] : i \in Range(d.man.segments)})
           E == {e.id + 1 : e \in H}
           S == {1, d.man.nextId} \cup F \cup E
           b == d.man.nextId + MaxId + 1
<1>1. MaxId \in Nat /\ d.man.nextId \in Nat /\ d.segs \in SegFuns
  BY StoreAssumption DEF DirType, ManType
<1>2. Range(frames) \subseteq Rec
  BY OfRange
<1>3. F \subseteq Nat /\ \A x \in F : x <= b
  <2>1. \A f \in OfKind(Range(frames), {"entry"}) : f.id \in Ids
    BY <1>2 DEF OfKind, Rec, EntryRec, EventRec, TombRec
  <2>2. \A k \in Ids : k + 1 \in Nat /\ k + 1 <= b
    BY <1>1 DEF Ids
  <2> QED
    BY <2>1, <2>2
<1>4. E \subseteq Nat /\ \A x \in E : x <= b
  <2>1. \A i \in Range(d.man.segments) : d.segs[i] \in PartType
    BY <1>1, SegOf
  <2>2. \A e \in H : e.id \in Ids
    BY <2>1 DEF Held, PartType, EntryRec
  <2>3. \A k \in Ids : k + 1 \in Nat /\ k + 1 <= b
    BY <1>1 DEF Ids
  <2> HIDE DEF H, b
  <2> QED
    BY <2>2, <2>3
<1>5. b \in Nat /\ 1 <= b /\ d.man.nextId <= b
  BY <1>1
<1>6. NextId(d, frames) = Max(S)
  BY DEF NextId
<1> HIDE DEF F, E, b
<1>7. S \subseteq Nat /\ S # {} /\ 1 \in S /\ \A x \in S : x <= b
  <2>1. {1, d.man.nextId} \subseteq Nat /\ \A x \in {1, d.man.nextId} : x <= b
    BY <1>1, <1>5
  <2> QED
    BY ONLY <1>3, <1>4, <2>1
<1> HIDE DEF S
<1>8. Max(S) \in S /\ 1 <= Max(S)
  BY <1>5, <1>7, MaxIn
<1>9. \A x \in Nat : 1 <= x => 0 < x
  OBVIOUS
<1> QED
  BY ONLY <1>6, <1>7, <1>8, <1>9


---------------------------------------------------------------------------
(* The inductive invariant. *)

Plain ==
    /\ logs \in LogFuns /\ call \in CallType /\ calls \in Counts /\ unsure \in BOOLEAN
    /\ pc \in {"closed", "idle", "append", "sync", "seal", "newlog", "manifest", "sealed",
               "tiers", "compact", "merge", "mergeman", "merged"}
    /\ past \subseteq DirType /\ dir \in past /\ synced \in past

\* A manifest's numbers, or the process's: no file is named twice, and the next
\* name is new.
Numbered(m) ==
    /\ 0 < m.active /\ m.active < m.nextFile /\ 0 < m.nextId
    /\ \A i \in Range(m.segments) : i < m.nextFile
    /\ Once(m.segments)

\* Whichever directory comes back, its files are there.
Past == \A d \in past : Numbered(d.man) /\ Openable(d) /\ d.man.active \in DOMAIN logs

\* The process's files are there, and its log has the records it mirrors.
Process ==
    pc # "closed" =>
        /\ mem \in MemType /\ Numbered(mem)
        /\ mem.active \in dir.logs /\ mem.active \in DOMAIN logs
        /\ Range(mem.segments) \subseteq DOMAIN dir.segs
        /\ mem.len <= Len(logs[mem.active].frames)
        /\ logs[mem.active].accepted = mem.len

\* What a call has made so far.
NewSegment == mem.nextFile \in DOMAIN dir.segs /\ dir.segs[mem.nextFile] = Sealed
MadeLog ==
    LET n == mem.nextFile + 1
    IN  n \in dir.logs /\ n \in DOMAIN logs /\ logs[n] = EmptyLog
MergedSegment == mem.nextFile \in DOMAIN dir.segs /\ dir.segs[mem.nextFile] = Merged
Stage ==
    /\ pc = "sync" => call.todo # <<>> /\ Len(logs[mem.active].frames) = mem.len + 1
    /\ pc \in {"newlog", "manifest", "sealed"} => NewSegment
    /\ pc \in {"manifest", "sealed"} => MadeLog
    /\ pc = "sealed" =>
          dir.man = Manifest(mem.nextFile + 2, Append(mem.segments, mem.nextFile),
                             mem.nextFile + 1)
    /\ pc \in {"merge", "mergeman", "merged"} => mem.segments # <<>>
    /\ pc \in {"mergeman", "merged"} => MergedSegment
    /\ pc = "merged" => dir.man = Manifest(mem.nextFile + 1, AfterMerge, mem.active)

\* A directory has the history that m names.
Agree(d, m) ==
    /\ d.man.active = m.active /\ d.man.segments = m.segments
    /\ \A i \in Range(m.segments) : d.segs[i] = dir.segs[i]
\* All that may come back have one history, but for the manifest renamed last.
Agreed ==
    ~unsure =>
       \A d \in past :
          IF pc = "closed" THEN Agree(d, dir.man)
          ELSE Agree(d, mem) \/ (pc \in {"sealed", "merged"} /\ d = dir)

\* There is no history yet.
New ==
    /\ pc = "closed" /\ dir.man = NoMan /\ past = {dir} /\ DOMAIN logs = {}
Made == Past /\ Process /\ Stage /\ Agreed
Core == Plain /\ (New \/ Made)

\* The ids that last are ids.
Lasts == given \subseteq Ids /\ DOMAIN shown \subseteq given /\ (New => given = {})

IInv == Core /\ Lasts

---------------------------------------------------------------------------
(* Changes of a log, of a directory, and what they leave. *)

LEMMA LogSet ==
    ASSUME NEW f \in LogFuns, NEW n \in DOMAIN f, NEW v \in LogType
    PROVE  LET g == [f EXCEPT ![n] = v]
           IN  /\ g \in LogFuns /\ DOMAIN g = DOMAIN f /\ g[n] = v
               /\ \A x \in DOMAIN f : x # n => g[x] = f[x]
<1> DEFINE g == [f EXCEPT ![n] = v]
<1>1. DOMAIN f \subseteq Nat /\ \A x \in DOMAIN f : f[x] \in LogType
  BY LogOf
<1>2. g = [x \in DOMAIN f |-> IF x = n THEN v ELSE f[x]]
  OBVIOUS
<1>3. /\ DOMAIN g = DOMAIN f /\ g = [x \in DOMAIN g |-> g[x]]
      /\ \A x \in DOMAIN f : g[x] = IF x = n THEN v ELSE f[x]
  BY <1>2
<1> HIDE DEF g
<1>4. \A x \in DOMAIN g : g[x] \in LogType
  BY <1>1, <1>3
<1>5. g \in LogFuns
  BY <1>1, <1>3, <1>4, FunOf DEF LogFuns
<1> QED
  BY <1>3, <1>5 DEF g

LEMMA DirSet ==
    ASSUME NEW d \in DirType
    PROVE  /\ d.logs \in SUBSET Nat /\ d.segs \in SegFuns /\ d.man \in ManType
           /\ \A L \in SUBSET Nat :
                 LET e == [d EXCEPT !.logs = L]
                 IN  e \in DirType /\ e.logs = L /\ e.segs = d.segs /\ e.man = d.man
           /\ \A s \in SegFuns :
                 LET e == [d EXCEPT !.segs = s]
                 IN  e \in DirType /\ e.logs = d.logs /\ e.segs = s /\ e.man = d.man
           /\ \A m \in ManType :
                 LET e == [d EXCEPT !.man = m]
                 IN  e \in DirType /\ e.logs = d.logs /\ e.segs = d.segs /\ e.man = m
BY DEF DirType

LEMMA EmptyLogType == EmptyLog \in LogType /\ EmptyLog.frames = <<>> /\ EmptyLog.accepted = 0
BY DEF EmptyLog, LogType

\* The parts a directory has of a history, and the process its own, are parts.
LEMMA PartsType ==
    ASSUME NEW d \in DirType, logs \in LogFuns, Openable(d), d.man.active \in DOMAIN logs,
           NEW n \in 0 .. Len(logs[d.man.active].frames)
    PROVE  Parts(d.man, d, n) \subseteq PartType
<1>1. logs[d.man.active] \in LogType
  BY LogOf
<1>2. logs[d.man.active].frames \in Seq(Rec)
  BY <1>1 DEF LogType
<1>3. PartOf(First(logs[d.man.active].frames, n)) \in PartType
  BY <1>2, FirstOf, PartOfType
<1>4. \A i \in Range(d.man.segments) : d.segs[i] \in PartType
  BY SegOf DEF Openable, DirType
<1> QED
  BY <1>3, <1>4 DEF Parts

LEMMA MineType ==
    ASSUME Plain, Process, pc # "closed"
    PROVE  /\ Log \in PartType /\ Segs \subseteq PartType /\ Mine \subseteq PartType
           /\ \A i \in Range(mem.segments) : dir.segs[i] \in PartType
<1>1. logs[mem.active] \in LogType /\ mem.len \in Nat
  BY LogOf DEF Plain, Process, MemType
<1>2. logs[mem.active].frames \in Seq(Rec) /\ mem.len \in 0 .. Len(logs[mem.active].frames)
  BY <1>1, LenProperties DEF LogType, Process
<1>3. Log \in PartType
  BY <1>2, FirstOf, PartOfType DEF Log
<1>4. \A i \in Range(mem.segments) : dir.segs[i] \in PartType
  BY SegOf DEF Plain, Process, DirType
<1> QED
  BY <1>3, <1>4 DEF Segs, Mine

\* What the process answers from, and what a seal and a merge would write of it,
\* stays as long as its own records and segments do.
LEMMA Steady ==
    ASSUME mem' = mem, call' = call,
           First(logs[mem.active].frames, mem.len)' = First(logs[mem.active].frames, mem.len),
           \A i \in Range(mem.segments) : dir'.segs[i] = dir.segs[i],
           mem.segments \in Seq(Nat), mem.segments # <<>> => MergeFrom \in 1 .. Len(mem.segments)
    PROVE  /\ Log' = Log /\ Segs' = Segs /\ Sealed' = Sealed
           /\ MergeFrom' = MergeFrom /\ AfterMerge' = AfterMerge
           /\ mem.segments # <<>> => Taken' = Taken /\ Merged' = Merged
<1> DEFINE segs == mem.segments
           n == Len(segs)
<1>1. n \in Nat /\ \A i \in 1 .. n : segs[i] \in Range(segs) /\ dir'.segs[segs[i]] = dir.segs[segs[i]]
  BY LenProperties DEF Range
<1>2. Log' = Log
  BY DEF Log
<1>3. Segs' = Segs
  BY DEF Segs
<1>4. Mine' = Mine
  BY <1>2, <1>3 DEF Mine
<1>5. Sealed' = Sealed
  BY <1>2, <1>3, <1>4 DEF Sealed
<1>6. RunStart' = RunStart
  <2> DEFINE S == {lo \in 1 .. n : \A i \in lo .. n :
                      Tier(Size(dir.segs[segs[i]])) = Tier(Size(dir.segs[segs[n]]))}
             U == {lo \in 1 .. n : \A i \in lo .. n :
                      Tier(Size(dir'.segs[segs[i]])) = Tier(Size(dir'.segs[segs[n]]))}
  <2>1. RunStart = Min(S)
    BY DEF RunStart
  <2>2. RunStart' = Min(U)
    BY DEF RunStart, Tier, Halves, Size
  <2>3. S = U
    <3>1. ASSUME NEW lo \in 1 .. n PROVE lo \in S <=> lo \in U
      <4>1. n \in 1 .. n /\ \A i \in lo .. n : i \in 1 .. n
        BY <1>1
      <4> QED
        BY <1>1, <4>1
    <3> QED
      BY <3>1
  <2> QED
    BY <2>1, <2>2, <2>3
<1>7. MergeFrom' = MergeFrom /\ AfterMerge' = AfterMerge
  BY <1>6 DEF MergeFrom, AfterMerge, First
<1>8. ASSUME segs # <<>> PROVE Taken' = Taken /\ Merged' = Merged
  <2>1. Taken' = Taken
    BY <1>7 DEF Taken
  <2>2. Taken \subseteq Range(segs)
    <3>1. \A i \in MergeFrom .. n : i \in 1 .. n
      BY <1>1, <1>8
    <3> QED
      BY <1>1, <3>1 DEF Taken
  <2>3. {dir.segs[i] : i \in Taken}' = {dir.segs[i] : i \in Taken}
    BY <2>1, <2>2
  <2>4. {dir.segs[i] : i \in Range(mem.segments) \ Taken}'
            = {dir.segs[i] : i \in Range(mem.segments) \ Taken}
    BY <2>1
  <2>5. Outside' = Outside
    BY <1>2, <2>4 DEF Outside
  <2> QED
    BY <1>4, <2>1, <2>3, <2>5 DEF Merged
<1> QED
  BY <1>2, <1>3, <1>5, <1>7, <1>8

\* A merge begins at one of the segments.
LEMMA MergeFromIn ==
    ASSUME mem.segments \in Seq(Nat), mem.segments # <<>>
    PROVE  MergeFrom \in 1 .. Len(mem.segments)
<1> DEFINE n == Len(mem.segments)
           S == {lo \in 1 .. n : \A i \in lo .. n :
                    Tier(Size(dir.segs[mem.segments[i]])) = Tier(Size(dir.segs[mem.segments[n]]))}
<1>1. n \in Nat /\ 1 <= n
  BY EmptySeq, LenProperties
<1>2. RunStart = Min(S)
  BY DEF RunStart
<1>3. n \in S
  <2>1. \A i \in n .. n : i = n
    BY <1>1
  <2> QED
    BY <1>1, <2>1
<1>4. S \subseteq Nat
  BY <1>1
<1> HIDE DEF S
<1>5. Min(S) \in S
  BY <1>3, <1>4, MinIn
<1>6. S \subseteq 1 .. n
  BY DEF S
<1>7. RunStart \in 1 .. n
  BY <1>2, <1>5, <1>6, Zenon
<1>8. 1 \in 1 .. n
  BY <1>1
<1> HIDE DEF n
<1>9. MergeFrom \in 1 .. n
  BY <1>7, <1>8 DEF MergeFrom
<1> QED
  BY <1>9 DEF n

\* What is of the process, named.
LEMMA MemParts ==
    ASSUME Process, pc # "closed"
    PROVE  /\ mem \in MemType /\ Numbered(mem)
           /\ mem.active \in Nat /\ mem.len \in Nat /\ mem.segments \in Seq(Nat)
           /\ mem.nextFile \in Nat /\ mem.nextId \in Nat
           /\ mem.segments # <<>> => MergeFrom \in 1 .. Len(mem.segments)
           /\ mem.nextFile \notin Range(mem.segments) /\ mem.active # mem.nextFile + 1
<1>1. /\ mem.active \in Nat /\ mem.len \in Nat /\ mem.segments \in Seq(Nat)
      /\ mem.nextFile \in Nat /\ mem.nextId \in Nat
  BY DEF Process, MemType
<1>2. mem.segments # <<>> => MergeFrom \in 1 .. Len(mem.segments)
  BY <1>1, MergeFromIn
<1>3. mem.nextFile \notin Range(mem.segments) /\ mem.active # mem.nextFile + 1
  BY <1>1 DEF Process, Numbered
<1> QED
  BY <1>1, <1>2, <1>3 DEF Process

\* A step within a call that changes no file.
LEMMA Quiet ==
    ASSUME Plain, Made, pc # "closed", UNCHANGED <<logs, dir, synced, past, mem>>,
           pc' \in {"idle", "append", "seal", "tiers", "compact", "merge"},
           pc' = "merge" => mem.segments # <<>>,
           call' \in CallType, calls' \in Counts,
           unsure' = TRUE \/ (unsure' = unsure /\ pc \notin {"sealed", "merged"})
    PROVE  Plain' /\ Made'
<1>1. Plain'
  BY DEF Plain
<1>2. Past' /\ Process'
  BY DEF Made, Past, Process, Openable
<1>3. Stage'
  BY DEF Stage
<1>4. Agreed'
  BY DEF Made, Agreed, Agree
<1> QED
  BY <1>1, <1>2, <1>3, <1>4 DEF Made

---------------------------------------------------------------------------
(* The calls, and the steps that change no file. *)

LEMMA AskStep ==
    ASSUME Plain, Made, pc = "idle", calls < MaxCalls, NEW todo \in Seq(Rec), Ask(todo)
    PROVE  Plain' /\ Made'
<1>1. calls' \in Counts
  BY StoreAssumption DEF Plain, Ask, Counts
<1>2. call' \in CallType
  BY DEF Ask, CallType
<1>3. /\ UNCHANGED <<logs, dir, synced, past, mem>> /\ pc' = "append" /\ unsure' = unsure
  BY DEF Ask
<1> QED
  BY <1>1, <1>2, <1>3, Quiet

LEMMA CallStep ==
    ASSUME Plain, Made, Call
    PROVE  Plain' /\ Made'
<1>1. pc = "idle" /\ calls < MaxCalls
  BY DEF Call
<1>2. Mine \subseteq PartType /\ Mirror = Answers(Mine) /\ DOMAIN Mirror \subseteq Ids
  <2>1. Mine \subseteq PartType /\ Mirror = Answers(Mine)
    BY <1>1, MineType DEF Made, Mirror
  <2> QED
    BY <2>1, AnswersType
<1>3. mem.nextId \in Nat /\ 0 < mem.nextId /\ calls \in Counts
  BY <1>1, MemParts DEF Made, Numbered, Plain
<1>4. mem.nextId <= MaxId => mem.nextId \in Ids
  BY <1>3, StoreAssumption DEF Ids
<1>5. \A a \in Rec : <<a>> \in Seq(Rec)
  OBVIOUS
<1>6. ASSUME NEW c \in Contents, NEW ms \in 0 .. MaxMs, Copy(c, ms) PROVE Plain' /\ Made'
  <2>1. FirstRecord(c, ms) \in Rec
    BY <1>1, <1>2, <1>3, <1>4, <1>6, FirstRecordType DEF Copy
  <2>2. <<FirstRecord(c, ms)>> \in Seq(Rec)
    BY <1>5, <2>1
  <2> QED
    BY <1>1, <1>6, <2>2, AskStep DEF Copy
<1>7. ASSUME NEW c \in Contents, NEW ms \in 0 .. MaxMs, Import(c, ms) PROVE Plain' /\ Made'
  <2> DEFINE first == FirstRecord(c, ms)
             copy == Event("copied", first.id, Stamp(ms, 1))
             paste == Event("pasted", first.id, Stamp(ms, 0))
  <2>1. first \in Rec /\ first.id \in Ids
    BY <1>1, <1>2, <1>3, <1>4, <1>7, FirstRecordType DEF Import
  <2>2. copy \in Rec /\ paste \in Rec
    <3>1. Stamp(ms, 1) \in Stamps /\ Stamp(ms, 0) \in Stamps
      BY <1>1, <1>3, StampIn
    <3> HIDE DEF first
    <3> QED
      BY <2>1, <3>1, Records
  <2> HIDE DEF first, copy, paste
  <2>3. <<first, paste>> \in Seq(Rec) /\ <<first, copy, paste>> \in Seq(Rec)
    BY ONLY <2>1, <2>2
  <2>4. \/ Ask(<<first, paste>>) \/ Ask(<<first, copy, paste>>)
    BY <1>7 DEF Import, first, copy, paste
  <2> QED
    BY <1>1, <2>3, <2>4, AskStep
<1>8. ASSUME NEW id \in DOMAIN Mirror, NEW kind \in {"copied", "pasted"}, NEW ms \in 0 .. MaxMs,
             Record(kind, id, ms)
      PROVE  Plain' /\ Made'
  <2>1. Event(kind, id, Stamp(ms, 0)) \in Rec
    BY <1>1, <1>2, <1>3, StampIn, Records
  <2>2. <<Event(kind, id, Stamp(ms, 0))>> \in Seq(Rec)
    BY <1>5, <2>1
  <2> QED
    BY <1>1, <1>8, <2>2, AskStep DEF Record
<1>9. ASSUME NEW id \in DOMAIN Mirror, Delete(id) PROVE Plain' /\ Made'
  <2>1. Tombstone(id) \in Rec
    BY <1>2, Records
  <2>2. <<Tombstone(id)>> \in Seq(Rec)
    BY <1>5, <2>1
  <2> QED
    BY <1>1, <1>9, <2>2, AskStep DEF Delete
<1>10. ASSUME NEW id \in DOMAIN Mirror, NEW c \in Contents, Replace(id, c) PROVE Plain' /\ Made'
  <2>1. Replacement(id, c) \in Seq(Rec)
    BY <1>2, <1>4, <1>10, ReplacementType DEF Replace
  <2> QED
    BY <1>1, <1>10, <2>1, AskStep DEF Replace
<1>11. ASSUME Compact PROVE Plain' /\ Made'
  <2>1. calls' \in Counts
    BY <1>1, <1>3, <1>11, StoreAssumption DEF Compact, Counts
  <2>2. call' \in CallType
    BY <1>11 DEF Compact, CallType
  <2>3. UNCHANGED <<logs, dir, synced, past, mem>> /\ pc' = "seal" /\ unsure' = unsure
    BY <1>11 DEF Compact
  <2> QED
    BY <1>1, <2>1, <2>2, <2>3, Quiet
<1> QED
  BY <1>6, <1>7, <1>8, <1>9, <1>10, <1>11 DEF Call

LEMMA NoCallType == NoCall \in CallType
BY DEF NoCall, CallType

LEMMA ReturnStep == ASSUME Plain, Made, Return PROVE Plain' /\ Made'
<1>1. /\ UNCHANGED <<logs, dir, synced, past, mem, calls, unsure>>
      /\ pc = "append" /\ pc' = "idle" /\ call' = NoCall
  BY DEF Return, Counters
<1>2. calls' \in Counts
  BY <1>1 DEF Plain
<1> QED
  BY <1>1, <1>2, NoCallType, Quiet

LEMMA TiersStep == ASSUME Plain, Made, Tiers PROVE Plain' /\ Made'
<1>1. /\ UNCHANGED <<logs, dir, synced, past, mem, calls, unsure>>
      /\ pc \in {"tiers", "compact"} /\ pc' \in {"append", "compact", "merge"}
  BY DEF Tiers, Counters
<1>2. call' \in CallType /\ calls' \in Counts
  BY <1>1 DEF Plain, Tiers, CallType
<1>3. ASSUME pc' = "merge" PROVE mem.segments # <<>>
  <2>1. CASE RunIsLong
    <3>1. Len(mem.segments) >= 2
      <4>1. Fanout \in Nat /\ Fanout >= 2 /\ mem.segments \in Seq(Nat)
        BY <1>1, StoreAssumption, MemParts DEF Made
      <4> QED
        BY <2>1, <4>1, LenProperties DEF RunIsLong
    <3>2. Len(<<>>) = 0
      BY EmptySeq
    <3> QED
      BY <3>1, <3>2
  <2>2. CASE Len(mem.segments) > 1 \/ \E seg \in Segs : seg.tombs # {}
    <3>1. Len(<<>>) = 0 /\ Range(<<>>) = {}
      BY EmptySeq DEF Range
    <3> QED
      BY <2>2, <3>1 DEF Segs
  <2> QED
    BY <1>3, <2>1, <2>2 DEF Tiers
<1> QED
  BY <1>1, <1>2, <1>3, Quiet

LEMMA LogExistsStep == ASSUME Plain, Made, LogExists PROVE Plain' /\ Made'
<1>1. /\ UNCHANGED <<logs, dir, synced, past, mem, calls, unsure>>
      /\ pc = "newlog" /\ pc' = "idle" /\ call' = NoCall
  BY DEF LogExists, Counters, GiveUp
<1>2. calls' \in Counts
  BY <1>1 DEF Plain
<1> QED
  BY <1>1, <1>2, NoCallType, Quiet

---------------------------------------------------------------------------
(* The steps that change a log. *)

LEMMA ActiveLog ==
    ASSUME Plain, Process, pc # "closed"
    PROVE  LET log == logs[mem.active]
           IN  /\ log \in LogType /\ log.frames \in Seq(Rec) /\ log.safe \in Nat
               /\ log.accepted = mem.len /\ mem.len \in 0 .. Len(log.frames)
               /\ First(log.frames, mem.len) \in Seq(Rec)
               /\ Len(First(log.frames, mem.len)) = mem.len
<1> DEFINE log == logs[mem.active]
<1>1. log \in LogType /\ mem.len \in Nat
  BY LogOf, MemParts DEF Plain, Process
<1>2. /\ log.frames \in Seq(Rec) /\ log.safe \in Nat /\ log.accepted = mem.len
      /\ mem.len <= Len(log.frames)
  BY <1>1 DEF LogType, Process
<1>3. mem.len \in 0 .. Len(log.frames)
  BY <1>1, <1>2, LenProperties
<1>4. First(log.frames, mem.len) \in Seq(Rec) /\ Len(First(log.frames, mem.len)) = mem.len
  BY <1>2, <1>3, FirstOf
<1> QED
  BY <1>1, <1>2, <1>3, <1>4

\* The process's log, written beyond the records it mirrors or cut to them.
LEMMA Rewritten ==
    ASSUME Plain, Made, pc = "append", NEW v \in LogType,
           logs' = [logs EXCEPT ![mem.active] = v],
           mem.len <= Len(v.frames), v.accepted = mem.len,
           UNCHANGED <<dir, synced, past, mem, calls, unsure>>,
           \/ pc' = "sync" /\ call' = call /\ call.todo # <<>> /\ Len(v.frames) = mem.len + 1
           \/ pc' = "idle" /\ call' = NoCall
    PROVE  Plain' /\ Made'
<1>1. /\ logs' \in LogFuns /\ DOMAIN logs' = DOMAIN logs /\ logs'[mem.active] = v
      /\ mem.active \in DOMAIN logs
  BY LogSet DEF Plain, Made, Process
<1>2. Plain'
  BY <1>1, NoCallType DEF Plain
<1>3. Past'
  BY <1>1 DEF Made, Past, Openable
<1>4. Process'
  BY <1>1 DEF Made, Process
<1>5. Stage'
  BY <1>1 DEF Stage
<1>6. Agreed'
  BY DEF Made, Agreed, Agree
<1> QED
  BY <1>2, <1>3, <1>4, <1>5, <1>6 DEF Made

\* v is the process's log after it.
Rewrites(v, frames, n) ==
    /\ LogWith(frames, n) = [logs EXCEPT ![mem.active] = v]
    /\ v.frames = frames /\ v.accepted = logs[mem.active].accepted

LEMMA LogWithType ==
    ASSUME NEW frames \in Seq(Rec), NEW n \in Nat, n <= Len(frames),
           logs[mem.active] \in LogType, logs[mem.active].accepted <= Len(frames)
    PROVE  \E v \in LogType : Rewrites(v, frames, n)
<1> DEFINE log == logs[mem.active]
           v == [frames |-> frames, safe |-> Min({log.safe, n}), accepted |-> log.accepted]
<1>1. log.safe \in Nat /\ log.accepted \in Nat
  BY DEF LogType
<1>2. Min({log.safe, n}) \in Nat /\ Min({log.safe, n}) <= Len(frames)
  BY <1>1, MinOfTwo, LenProperties
<1>3. v \in LogType /\ v.frames = frames /\ v.accepted = log.accepted
  BY <1>1, <1>2 DEF LogType
<1>4. LogWith(frames, n) = [logs EXCEPT ![mem.active] = v]
  BY DEF LogWith
<1> HIDE DEF v
<1> QED
  BY <1>3, <1>4 DEF Rewrites

LEMMA WriteStep == ASSUME Plain, Made, Write PROVE Plain' /\ Made'
<1> DEFINE log == logs[mem.active]
           frames == Append(First(log.frames, mem.len), Head(call.todo))
<1>1. pc = "append" /\ call.todo # <<>> /\ call' = call /\ pc' = "sync"
  BY DEF Write
<1>2. /\ log \in LogType /\ log.safe \in Nat /\ log.accepted = mem.len /\ mem.len \in Nat
      /\ First(log.frames, mem.len) \in Seq(Rec) /\ Len(First(log.frames, mem.len)) = mem.len
  BY <1>1, ActiveLog DEF Made
<1>3. Head(call.todo) \in Rec
  <2>1. call.todo \in Seq(Rec)
    BY DEF Plain, CallType
  <2> QED
    BY <1>1, <2>1, OfTail
<1>4. frames \in Seq(Rec) /\ Len(frames) = mem.len + 1
  BY <1>2, <1>3, AppendProperties
<1> HIDE DEF log, frames
<1>5. PICK v \in LogType : Rewrites(v, frames, mem.len)
  <2>1. log.accepted <= Len(frames) /\ mem.len <= Len(frames) /\ log = logs[mem.active]
    BY <1>2, <1>4 DEF log
  <2> QED
    BY <1>2, <1>4, <2>1, LogWithType
<1>6. mem.len <= Len(v.frames) /\ Len(v.frames) = mem.len + 1
  BY <1>2, <1>4, <1>5 DEF Rewrites
<1>7. logs' = [logs EXCEPT ![mem.active] = v] /\ v.accepted = mem.len
  BY <1>2, <1>5 DEF Write, Rewrites, frames, log
<1>8. UNCHANGED <<dir, synced, past, mem, calls, unsure>>
  BY DEF Write, Counters
<1> QED
  BY <1>1, <1>2, <1>5, <1>6, <1>7, <1>8, Rewritten

LEMMA WritebackStep == ASSUME Plain, Made, Writeback PROVE Plain' /\ Made'
<1>1. PICK n \in DOMAIN logs : /\ logs[n].safe < Len(logs[n].frames)
                               /\ logs' = [logs EXCEPT ![n].safe = @ + 1]
  BY DEF Writeback
<1>2. UNCHANGED <<dir, synced, past, mem, pc, call, calls, unsure>>
  BY DEF Writeback, Counters
<1> DEFINE v == [logs[n] EXCEPT !.safe = @ + 1]
<1>3. logs[n] \in LogType
  BY LogOf DEF Plain
<1>4. /\ v \in LogType /\ v.frames = logs[n].frames /\ v.accepted = logs[n].accepted
  <2>1. logs[n].safe + 1 <= Len(logs[n].frames)
    BY <1>1, <1>3, LenProperties DEF LogType
  <2> QED
    BY <1>3, <2>1 DEF LogType
<1>5. logs' = [logs EXCEPT ![n] = v]
  BY <1>1
<1> HIDE DEF v
<1>6. /\ logs' \in LogFuns /\ DOMAIN logs' = DOMAIN logs /\ logs'[n] = v
      /\ \A x \in DOMAIN logs : x # n => logs'[x] = logs[x]
  BY <1>4, <1>5, LogSet DEF Plain
<1>7. \A x \in DOMAIN logs : /\ logs'[x].frames = logs[x].frames
                             /\ logs'[x].accepted = logs[x].accepted
  BY <1>4, <1>6
<1>8. \A x \in DOMAIN logs : logs[x] = EmptyLog => logs'[x] = logs[x]
  <2>1. logs[n] # EmptyLog
    BY <1>1, EmptySeq DEF EmptyLog
  <2> QED
    BY <1>6, <2>1
<1>9. Plain'
  BY <1>2, <1>6 DEF Plain
<1>10. Past' /\ Agreed'
  BY <1>2, <1>6 DEF Made, Past, Openable, Agreed, Agree
<1>11. Process'
  BY <1>2, <1>6, <1>7 DEF Made, Process
<1>12. Stage'
  <2>1. CASE pc = "closed"
    BY <1>2, <2>1 DEF Stage
  <2>2. CASE pc # "closed"
    <3>1. /\ mem.active \in DOMAIN logs /\ mem.segments \in Seq(Nat)
          /\ mem.segments # <<>> => MergeFrom \in 1 .. Len(mem.segments)
      BY <2>2, MemParts DEF Made, Process
    <3>2. /\ Sealed' = Sealed /\ AfterMerge' = AfterMerge
          /\ mem.segments # <<>> => Merged' = Merged
      BY <1>2, <1>7, <3>1, Steady
    <3>3. Stage
      BY DEF Made
    <3>4. /\ (NewSegment => NewSegment') /\ (MadeLog => MadeLog')
          /\ (mem.segments # <<>> /\ MergedSegment => MergedSegment')
      BY <1>2, <1>6, <1>8, <3>2 DEF NewSegment, MadeLog, MergedSegment
    <3> QED
      BY <1>2, <1>7, <3>1, <3>2, <3>3, <3>4 DEF Stage, Manifest
  <2> QED
    BY <2>1, <2>2
<1> QED
  BY <1>9, <1>10, <1>11, <1>12 DEF Made

LEMMA SyncStep == ASSUME Plain, Made, Sync PROVE Plain' /\ Made'
<1> DEFINE log == logs[mem.active]
           n == mem.len + 1
           v == [log EXCEPT !.safe = n, !.accepted = n]
<1>1. /\ pc = "sync" /\ pc' \in {"seal", "append"} /\ call' = [call EXCEPT !.todo = Tail(@)]
      /\ UNCHANGED <<dir, synced, past, calls, unsure>>
  BY DEF Sync, Counters
<1>2. /\ log \in LogType /\ mem.len \in Nat /\ log.frames \in Seq(Rec)
      /\ call.todo # <<>> /\ Len(log.frames) = n
  BY <1>1, ActiveLog DEF Made, Stage
<1>3. v \in LogType /\ v.frames = log.frames /\ v.accepted = n
  <2>1. log \in [frames : Seq(Rec), safe : Nat, accepted : Nat] /\ n \in Nat /\ n <= n
    BY <1>2 DEF LogType
  <2>2. Len(log.frames) = n
    BY <1>2
  <2> HIDE DEF n, log
  <2>3. /\ v \in [frames : Seq(Rec), safe : Nat, accepted : Nat]
        /\ v.frames = log.frames /\ v.safe = n /\ v.accepted = n
    BY <2>1
  <2> HIDE DEF v
  <2> QED
    BY <2>1, <2>2, <2>3 DEF LogType
<1>4. logs' = [logs EXCEPT ![mem.active] = v]
  BY DEF Sync, Synced
<1>5. /\ logs' \in LogFuns /\ DOMAIN logs' = DOMAIN logs /\ logs'[mem.active] = v
      /\ mem.active \in DOMAIN logs
  <2>1. logs \in LogFuns /\ mem.active \in DOMAIN logs
    BY <1>1 DEF Plain, Made, Process
  <2> HIDE DEF v
  <2> QED
    BY <1>3, <1>4, <2>1, LogSet
<1>6. /\ mem \in MemType /\ mem.nextId \in Nat /\ 0 < mem.nextId
  BY <1>1, MemParts DEF Made, Numbered
<1>7. /\ mem' \in MemType /\ mem'.active = mem.active /\ mem'.len = n
      /\ mem'.segments = mem.segments /\ mem'.nextFile = mem.nextFile
      /\ mem'.nextId \in Nat /\ 0 < mem'.nextId
  <2>1. PICK k \in {mem.nextId, mem.nextId + 1} : mem' = [mem EXCEPT !.len = n, !.nextId = k]
    BY DEF Sync, Applied
  <2>2. k \in Nat /\ 0 < k /\ n \in Nat
    BY <1>2, <1>6, <2>1
  <2> HIDE DEF n
  <2>3. LET r == [mem EXCEPT !.len = n, !.nextId = k]
        IN  /\ r \in MemType /\ r.active = mem.active /\ r.len = n
            /\ r.segments = mem.segments /\ r.nextFile = mem.nextFile /\ r.nextId = k
    BY <1>6, <2>2 DEF MemType
  <2> QED
    BY <2>1, <2>2, <2>3
<1>8. call' \in CallType
  <2>1. call.todo \in Seq(Rec) /\ call.compact \in {"no", "seal", "all"}
    BY DEF Plain, CallType
  <2>2. Tail(call.todo) \in Seq(Rec)
    BY <1>2, <2>1, OfTail
  <2> QED
    BY <1>1, <2>1, <2>2 DEF Plain, CallType
<1>9. Plain'
  BY <1>1, <1>5, <1>8 DEF Plain
<1>10. Past'
  BY <1>1, <1>5 DEF Made, Past, Openable
<1>11. Process'
  <2>1. Numbered(mem')
    BY <1>1, <1>7 DEF Made, Process, Numbered
  <2> QED
    <3>1. Len(v.frames) = n /\ n <= n
      BY <1>2, <1>3
    <3> HIDE DEF v, n, log
    <3> QED
      BY <1>1, <1>3, <1>5, <1>7, <2>1, <3>1 DEF Made, Process
<1>12. Stage'
  BY <1>1 DEF Stage
<1>13. Agreed'
  BY <1>1, <1>7 DEF Made, Agreed, Agree
<1> QED
  BY <1>9, <1>10, <1>11, <1>12, <1>13 DEF Made

---------------------------------------------------------------------------
(* The steps that change the directory. *)

\* A file more, or a manifest; what the process answers from is left alone.
LEMMA DirStep ==
    ASSUME Plain, Made, pc \notin {"closed", "sealed", "merged"}, NEW d \in DirType, Change(d),
           mem' = mem, unsure' = unsure, calls' = calls, call' \in CallType,
           pc' \in {"idle", "newlog", "manifest", "sealed", "mergeman", "merged"},
           logs' \in LogFuns, DOMAIN logs \subseteq DOMAIN logs',
           logs'[mem.active] = logs[mem.active],
           \A i \in Range(mem.segments) : d.segs[i] = dir.segs[i],
           dir.logs \subseteq d.logs, DOMAIN dir.segs \subseteq DOMAIN d.segs,
           \/ d.man = dir.man
           \/ /\ pc' \in {"sealed", "merged"}
              /\ Numbered(d.man) /\ Openable(d) /\ d.man.active \in DOMAIN logs
    PROVE  Plain' /\ Past' /\ Process' /\ Agreed'
<1>1. dir' = d /\ past' = past \cup {d} /\ synced' = synced
  BY DEF Change
<1>2. Plain'
  BY <1>1 DEF Plain
<1>3. Numbered(d.man) /\ Openable(d) /\ d.man.active \in DOMAIN logs
  <2>1. Numbered(dir.man) /\ Openable(dir) /\ dir.man.active \in DOMAIN logs
    BY DEF Plain, Made, Past
  <2> QED
    BY <2>1 DEF Openable
<1>4. Past'
  <2>1. \A x \in past : Numbered(x.man) /\ Openable(x) /\ x.man.active \in DOMAIN logs'
    BY DEF Made, Past
  <2>2. \A x \in past' : Numbered(x.man) /\ Openable(x) /\ x.man.active \in DOMAIN logs'
    BY <1>1, <1>3, <2>1
  <2> QED
    BY <2>2 DEF Past, Openable, Numbered
<1>5. Process'
  BY <1>1 DEF Made, Process, Numbered
<1>6. Agreed'
  <2> SUFFICES ASSUME ~unsure, NEW x \in past' PROVE
          Agree(x, mem)' \/ (pc' \in {"sealed", "merged"} /\ x = dir')
    BY DEF Agreed
  <2>1. \A y \in past : Agree(y, mem)
    BY DEF Made, Agreed
  <2>2. \A y \in past : Agree(y, mem)'
    BY <1>1, <2>1 DEF Agree
  <2>3. CASE x \in past
    BY <2>2, <2>3
  <2>4. CASE x = d /\ d.man = dir.man
    <3>1. Agree(dir, mem)
      BY <2>1 DEF Plain
    <3> QED
      BY <1>1, <2>4, <3>1 DEF Agree
  <2>5. CASE x = d /\ pc' \in {"sealed", "merged"}
    BY <1>1, <2>5
  <2> QED
    BY <1>1, <2>3, <2>4, <2>5
<1> QED
  BY <1>2, <1>4, <1>5, <1>6

\* A segment more.
LEMMA SegmentStep ==
    ASSUME Plain, Made, pc \notin {"closed", "sealed", "merged"}, NEW seg \in PartType,
           Change([dir EXCEPT !.segs = With(@, mem.nextFile, seg)]),
           UNCHANGED <<logs, mem, call, calls, unsure>>, pc' \in {"newlog", "mergeman"}
    PROVE  /\ Plain' /\ Past' /\ Process' /\ Agreed'
           /\ mem.nextFile \in DOMAIN dir'.segs /\ dir'.segs[mem.nextFile] = seg
           /\ Sealed' = Sealed /\ (mem.segments # <<>> => Merged' = Merged)
<1> DEFINE segs == With(dir.segs, mem.nextFile, seg)
           d == [dir EXCEPT !.segs = segs]
<1>1. dir \in DirType /\ dir.segs \in SegFuns /\ mem.nextFile \in Nat
  BY MemParts, DirSet DEF Plain, Made
<1>2. /\ segs \in SegFuns /\ DOMAIN segs = DOMAIN dir.segs \cup {mem.nextFile}
      /\ segs[mem.nextFile] = seg
      /\ \A x \in DOMAIN dir.segs : x # mem.nextFile => segs[x] = dir.segs[x]
  <2>1. segs \in SegFuns
    BY ONLY <1>1, AddedSeg
  <2>2. /\ DOMAIN segs = DOMAIN dir.segs \cup {mem.nextFile} /\ segs[mem.nextFile] = seg
        /\ \A x \in DOMAIN dir.segs : x # mem.nextFile => segs[x] = dir.segs[x]
    BY ONLY TRUE DEF With
  <2> QED
    BY ONLY <2>1, <2>2
<1> HIDE DEF segs
<1>3. d \in DirType /\ d.logs = dir.logs /\ d.segs = segs /\ d.man = dir.man
  BY <1>1, <1>2, DirSet
<1>4. Change(d) /\ dir' = d
  BY DEF Change, segs
<1> HIDE DEF d
<1>5. \A i \in Range(mem.segments) : i \in DOMAIN dir.segs /\ i # mem.nextFile
  BY MemParts DEF Made, Process
<1>6. \A i \in Range(mem.segments) : d.segs[i] = dir.segs[i]
  BY <1>2, <1>3, <1>5
<1>7. Plain' /\ Past' /\ Process' /\ Agreed'
  <2>1. call' \in CallType /\ logs' \in LogFuns
    BY DEF Plain
  <2> QED
    BY <1>2, <1>3, <1>4, <1>6, <2>1, DirStep
<1>8. Sealed' = Sealed /\ (mem.segments # <<>> => Merged' = Merged)
  BY <1>4, <1>6, MemParts, Steady DEF Made
<1> QED
  BY <1>2, <1>3, <1>4, <1>7, <1>8

LEMMA SealStep == ASSUME Plain, Made, Seal PROVE Plain' /\ Made'
<1>1. pc = "seal" /\ UNCHANGED <<logs, mem, call, calls, unsure>>
  BY DEF Seal, Counters
<1>2. CASE mem.len = 0
  <2>1. pc' = "compact" /\ UNCHANGED <<dir, synced, past>>
    BY <1>2 DEF Seal
  <2>2. call' \in CallType /\ calls' \in Counts
    BY <1>1 DEF Plain
  <2> QED
    BY <1>1, <2>1, <2>2, Quiet
<1>3. CASE mem.len # 0
  <2>1. pc' = "newlog" /\ Change([dir EXCEPT !.segs = With(@, mem.nextFile, Sealed)])
    BY <1>3 DEF Seal
  <2>2. Sealed \in PartType
    <3>1. {Log} \subseteq PartType
      BY <1>1, MineType DEF Made
    <3> QED
      BY <3>1, WrittenType DEF Sealed
  <2>3. /\ Plain' /\ Past' /\ Process' /\ Agreed'
        /\ mem.nextFile \in DOMAIN dir'.segs /\ dir'.segs[mem.nextFile] = Sealed
        /\ Sealed' = Sealed
    BY <1>1, <2>1, <2>2, SegmentStep
  <2>4. Stage'
    BY <1>1, <2>1, <2>3 DEF Stage, NewSegment
  <2> QED
    BY <2>3, <2>4 DEF Made
<1> QED
  BY <1>2, <1>3

LEMMA TakenOf ==
    ASSUME mem \in MemType, Numbered(mem), mem.segments # <<>>
    PROVE  LET r == AfterMerge
           IN  /\ r \in Seq(Nat) /\ Once(r) /\ Taken \subseteq Range(mem.segments)
               /\ Range(r) = (Range(mem.segments) \ Taken) \cup {mem.nextFile}
               /\ mem.nextFile \notin Taken
<1> DEFINE segs == mem.segments
           m == MergeFrom - 1
           s == SubSeq(segs, 1, m)
<1>1. segs \in Seq(Nat) /\ mem.nextFile \in Nat /\ Once(segs)
  BY DEF MemType, Numbered
<1>2. MergeFrom \in 1 .. Len(segs) /\ Len(segs) \in Nat /\ DOMAIN segs = 1 .. Len(segs)
  BY <1>1, MergeFromIn, LenProperties
<1>3. m \in 0 .. Len(segs) /\ m + 1 = MergeFrom
  BY <1>2
<1>4. /\ s \in Seq(Nat) /\ Range(s) = {segs[i] : i \in 1 .. m} /\ Once(s)
  <2>1. 1 \in 1 .. Len(segs) + 1
    BY <1>2
  <2> HIDE DEF m, segs
  <2> QED
    BY <1>1, <1>3, <2>1, OfSubSeq DEF s
<1>5. Range(segs) = {segs[i] : i \in 1 .. Len(segs)}
  BY <1>2 DEF Range
<1>6. Taken \subseteq Range(segs)
  <2>1. \A i \in MergeFrom .. Len(segs) : i \in 1 .. Len(segs)
    BY <1>2
  <2> QED
    BY <1>5, <2>1 DEF Taken
<1>7. Range(s) = Range(segs) \ Taken
  <2>1. ASSUME NEW x \in Range(s) PROVE x \in Range(segs) /\ x \notin Taken
    <3>1. PICK i \in 1 .. m : x = segs[i]
      BY <1>4, <2>1
    <3>2. i \in 1 .. Len(segs) /\ i < MergeFrom
      BY <1>2, <1>3, <3>1
    <3>3. ASSUME NEW j \in MergeFrom .. Len(segs), segs[j] = x PROVE FALSE
      <4>1. j \in 1 .. Len(segs) /\ i # j
        BY <1>2, <3>2
      <4> QED
        BY <1>1, <1>2, <3>1, <3>2, <3>3, <4>1 DEF Once
    <3> QED
      BY <1>5, <3>1, <3>2, <3>3 DEF Taken
  <2>2. ASSUME NEW x \in Range(segs), x \notin Taken PROVE x \in Range(s)
    <3>1. PICK i \in 1 .. Len(segs) : x = segs[i]
      BY <1>5
    <3>2. i \notin MergeFrom .. Len(segs)
      BY <2>2, <3>1 DEF Taken
    <3>3. i \in 1 .. m
      BY <1>2, <1>3, <3>1, <3>2
    <3> QED
      BY <1>4, <3>1, <3>3
  <2> QED
    BY <2>1, <2>2
<1>8. mem.nextFile \notin Range(segs)
  BY <1>1 DEF Numbered
<1>9. AfterMerge = Append(s, mem.nextFile)
  BY DEF AfterMerge, First
<1> HIDE DEF s
<1>10. mem.nextFile \notin Range(s) /\ mem.nextFile \notin Taken
  BY <1>6, <1>7, <1>8
<1>11. /\ AfterMerge \in Seq(Nat) /\ Range(AfterMerge) = Range(s) \cup {mem.nextFile}
       /\ Once(AfterMerge)
  <2>1. s \in Seq(Nat) /\ mem.nextFile \in Nat /\ Once(s) /\ mem.nextFile \notin Range(s)
    BY <1>1, <1>4, <1>10
  <2>2. /\ Append(s, mem.nextFile) \in Seq(Nat)
        /\ Range(Append(s, mem.nextFile)) = Range(s) \cup {mem.nextFile}
        /\ Once(Append(s, mem.nextFile))
    BY ONLY <2>1, OfAppend
  <2> QED
    BY <1>9, <2>2
<1> QED
  BY <1>6, <1>7, <1>10, <1>11

LEMMA MergeStep == ASSUME Plain, Made, Merge PROVE Plain' /\ Made'
<1>1. /\ pc = "merge" /\ pc' = "mergeman" /\ UNCHANGED <<logs, mem, call, calls, unsure>>
      /\ Change([dir EXCEPT !.segs = With(@, mem.nextFile, Merged)])
  BY DEF Merge, Counters
<1>2. mem.segments # <<>> /\ Taken \subseteq Range(mem.segments)
  <2>1. mem.segments # <<>>
    BY <1>1 DEF Made, Stage
  <2> QED
    BY <1>1, <2>1, TakenOf DEF Made, Process
<1>3. Merged \in PartType
  <2>1. {dir.segs[i] : i \in Taken} \subseteq PartType
    BY <1>1, <1>2, MineType DEF Made
  <2> QED
    BY <2>1, WrittenType DEF Merged
<1>4. /\ Plain' /\ Past' /\ Process' /\ Agreed'
      /\ mem.nextFile \in DOMAIN dir'.segs /\ dir'.segs[mem.nextFile] = Merged
      /\ Merged' = Merged
  BY <1>1, <1>2, <1>3, SegmentStep
<1>5. Stage'
  BY <1>1, <1>2, <1>4 DEF Stage, MergedSegment
<1> QED
  BY <1>4, <1>5 DEF Made

\* A new log; of a call that failed at it the file may be there.
LEMMA NewFile ==
    ASSUME Plain, Made, pc = "newlog", pc' \in {"manifest", "idle"}, call' \in CallType,
           logs' = With(logs, mem.nextFile + 1, EmptyLog),
           Change([dir EXCEPT !.logs = @ \cup {mem.nextFile + 1}]),
           UNCHANGED <<mem, calls, unsure>>
    PROVE  /\ Plain' /\ Past' /\ Process' /\ Agreed' /\ MadeLog'
           /\ (call' = call => Sealed' = Sealed) /\ dir'.segs = dir.segs
<1> DEFINE n == mem.nextFile + 1
           d == [dir EXCEPT !.logs = dir.logs \cup {n}]
<1>1. dir \in DirType /\ dir.logs \in SUBSET Nat /\ n \in Nat /\ n # mem.active
  BY MemParts, DirSet DEF Plain, Made
<1>2. d \in DirType /\ d.logs = dir.logs \cup {n} /\ d.segs = dir.segs /\ d.man = dir.man
  <2>1. dir.logs \cup {n} \in SUBSET Nat
    BY <1>1
  <2> HIDE DEF n
  <2> QED
    BY <1>1, <2>1, DirSet
<1>3. Change(d) /\ dir' = d
  BY DEF Change
<1>4. /\ DOMAIN logs' = DOMAIN logs \cup {n} /\ logs'[n] = EmptyLog
      /\ \A x \in DOMAIN logs : x # n => logs'[x] = logs[x]
  BY DEF With
<1>5. logs' \in LogFuns
  <2>1. logs \in LogFuns
    BY DEF Plain
  <2> HIDE DEF n
  <2> QED
    BY <1>1, <2>1, EmptyLogType, AddedLog DEF n
<1>6. mem.active \in DOMAIN logs /\ logs'[mem.active] = logs[mem.active]
  <2>1. mem.active \in DOMAIN logs
    BY DEF Made, Process
  <2> HIDE DEF n
  <2> QED
    BY <1>1, <1>4, <2>1
<1> HIDE DEF d, n
<1>7. Plain' /\ Past' /\ Process' /\ Agreed'
  BY <1>2, <1>3, <1>4, <1>5, <1>6, DirStep
<1>8. MadeLog'
  <2>1. mem'.nextFile + 1 = n
    BY DEF n
  <2>2. n \in d.logs /\ n \in DOMAIN logs'
    BY <1>2, <1>4
  <2> QED
    BY <1>3, <1>4, <2>1, <2>2 DEF MadeLog, EmptyLog
<1>9. ASSUME call' = call PROVE Sealed' = Sealed
  BY <1>2, <1>3, <1>6, <1>9, MemParts, Steady DEF Made
<1> QED
  BY <1>2, <1>3, <1>7, <1>8, <1>9

LEMMA NewLogStep == ASSUME Plain, Made, NewLog PROVE Plain' /\ Made'
<1>1. /\ pc = "newlog" /\ pc' = "manifest" /\ UNCHANGED <<mem, call, calls, unsure>>
      /\ logs' = With(logs, mem.nextFile + 1, EmptyLog)
      /\ Change([dir EXCEPT !.logs = @ \cup {mem.nextFile + 1}])
  BY DEF NewLog, Counters
<1>2. call' \in CallType
  BY <1>1 DEF Plain
<1>3. /\ Plain' /\ Past' /\ Process' /\ Agreed' /\ MadeLog'
      /\ Sealed' = Sealed /\ dir'.segs = dir.segs
  BY <1>1, <1>2, NewFile
<1>4. NewSegment
  BY <1>1 DEF Made, Stage
<1>5. NewSegment'
  BY <1>1, <1>3, <1>4 DEF NewSegment
<1>6. Stage'
  BY <1>1, <1>3, <1>5 DEF Stage
<1> QED
  BY <1>3, <1>6 DEF Made

\* A manifest, renamed.
LEMMA ManStep ==
    ASSUME Plain, Made, pc \in {"manifest", "mergeman"}, NEW m \in ManType, Numbered(m),
           m.active \in dir.logs, m.active \in DOMAIN logs,
           Range(m.segments) \subseteq DOMAIN dir.segs,
           Change([dir EXCEPT !.man = m]), UNCHANGED <<logs, mem, call, calls, unsure>>,
           pc' \in {"sealed", "merged"}
    PROVE  /\ Plain' /\ Past' /\ Process' /\ Agreed'
           /\ Sealed' = Sealed /\ (mem.segments # <<>> => Merged' = Merged)
           /\ AfterMerge' = AfterMerge
           /\ dir'.man = m /\ dir'.segs = dir.segs /\ dir'.logs = dir.logs
<1> DEFINE d == [dir EXCEPT !.man = m]
<1>1. d \in DirType /\ d.logs = dir.logs /\ d.segs = dir.segs /\ d.man = m
  BY DirSet DEF Plain
<1>2. Change(d) /\ dir' = d
  BY DEF Change
<1> HIDE DEF d
<1>3. Openable(d)
  BY <1>1 DEF Openable
<1>4. Plain' /\ Past' /\ Process' /\ Agreed'
  <2>1. call' \in CallType /\ logs' \in LogFuns
    BY DEF Plain
  <2> QED
    BY <1>1, <1>2, <1>3, <2>1, DirStep
<1>5. /\ Sealed' = Sealed /\ (mem.segments # <<>> => Merged' = Merged)
      /\ AfterMerge' = AfterMerge
  BY <1>1, <1>2, MemParts, Steady DEF Made
<1> QED
  BY <1>1, <1>2, <1>4, <1>5

LEMMA RenameManifestStep == ASSUME Plain, Made, RenameManifest PROVE Plain' /\ Made'
<1> DEFINE n == mem.nextFile
           segs == Append(mem.segments, n)
           m == Manifest(n + 2, segs, n + 1)
<1>1. /\ pc = "manifest" /\ pc' = "sealed" /\ UNCHANGED <<logs, mem, call, calls, unsure>>
      /\ Change([dir EXCEPT !.man = m])
  BY DEF RenameManifest, Counters
<1>2. NewSegment /\ MadeLog
  BY <1>1 DEF Made, Stage
<1>3. /\ mem.segments \in Seq(Nat) /\ n \in Nat /\ mem.nextId \in Nat /\ 0 < mem.nextId
      /\ Once(mem.segments) /\ n \notin Range(mem.segments)
      /\ \A i \in Range(mem.segments) : i < n
  BY <1>1, MemParts DEF Made, Numbered
<1>4. segs \in Seq(Nat) /\ Once(segs) /\ Range(segs) = Range(mem.segments) \cup {n}
  <2> HIDE DEF n
  <2> QED
    BY <1>3, OfAppend
<1>5. /\ m.active = n + 1 /\ m.segments = segs /\ m.nextFile = n + 2 /\ m.nextId = mem.nextId
  BY DEF Manifest
<1>6. m \in ManType
  <2> HIDE DEF segs
  <2> QED
    BY <1>3, <1>4 DEF Manifest, ManType
<1>7. Numbered(m)
  <2>1. \A i \in Range(segs) : i < n + 2
    <3>1. \A i \in Range(mem.segments) : i < n + 2
      <4>1. Range(mem.segments) \subseteq Nat
        BY <1>3, OfRange
      <4> QED
        BY <1>3, <4>1
    <3> QED
      BY <1>3, <1>4, <3>1
  <2> HIDE DEF m, segs
  <2> QED
    BY <1>3, <1>4, <1>5, <2>1 DEF Numbered
<1> HIDE DEF m
<1>8. m.active \in dir.logs /\ m.active \in DOMAIN logs
  BY <1>2, <1>5 DEF MadeLog
<1>9. Range(m.segments) \subseteq DOMAIN dir.segs
  BY <1>1, <1>2, <1>4, <1>5 DEF NewSegment, Made, Process
<1>10. /\ Plain' /\ Past' /\ Process' /\ Agreed' /\ Sealed' = Sealed
       /\ dir'.man = m /\ dir'.segs = dir.segs /\ dir'.logs = dir.logs
  BY <1>1, <1>6, <1>7, <1>8, <1>9, ManStep
<1>11. NewSegment' /\ MadeLog'
  BY <1>1, <1>2, <1>10 DEF NewSegment, MadeLog, EmptyLog
<1>12. dir'.man = Manifest(mem.nextFile + 2, Append(mem.segments, mem.nextFile), mem.nextFile + 1)'
  BY <1>1, <1>10 DEF m, Manifest
<1>13. Stage'
  BY <1>1, <1>11, <1>12 DEF Stage
<1> QED
  BY <1>10, <1>13 DEF Made

LEMMA MergeManifestStep == ASSUME Plain, Made, MergeManifest PROVE Plain' /\ Made'
<1> DEFINE n == mem.nextFile
           segs == AfterMerge
           m == Manifest(n + 1, segs, mem.active)
<1>1. /\ pc = "mergeman" /\ pc' = "merged" /\ UNCHANGED <<logs, mem, call, calls, unsure>>
      /\ Change([dir EXCEPT !.man = m])
  BY DEF MergeManifest, Counters
<1>2. MergedSegment /\ mem.segments # <<>>
  BY <1>1 DEF Made, Stage
<1>3. /\ mem.segments \in Seq(Nat) /\ n \in Nat /\ mem.nextId \in Nat /\ 0 < mem.nextId
      /\ mem.active \in Nat /\ 0 < mem.active /\ mem.active < n
      /\ \A i \in Range(mem.segments) : i < n
  BY <1>1, MemParts DEF Made, Numbered
<1>4. segs \in Seq(Nat) /\ Once(segs) /\ Range(segs) \subseteq Range(mem.segments) \cup {n}
  BY <1>1, <1>2, TakenOf, MemParts DEF Made
<1>5. /\ m.active = mem.active /\ m.segments = segs /\ m.nextFile = n + 1 /\ m.nextId = mem.nextId
  BY DEF Manifest
<1>6. m \in ManType
  <2> HIDE DEF segs
  <2> QED
    BY <1>3, <1>4 DEF Manifest, ManType
<1>7. Numbered(m)
  <2>1. \A i \in Range(segs) : i < n + 1
    <3>1. \A i \in Range(mem.segments) : i < n + 1
      <4>1. Range(mem.segments) \subseteq Nat
        BY <1>3, OfRange
      <4> QED
        BY <1>3, <4>1
    <3>2. n < n + 1
      BY <1>3
    <3> HIDE DEF segs
    <3> QED
      BY <1>4, <3>1, <3>2
  <2>2. 0 < mem.active /\ mem.active < n + 1
    BY <1>3
  <2> HIDE DEF m, segs
  <2> QED
    BY <1>3, <1>4, <1>5, <2>1, <2>2 DEF Numbered
<1> HIDE DEF m, segs
<1>8. m.active \in dir.logs /\ m.active \in DOMAIN logs
  BY <1>1, <1>5 DEF Made, Process
<1>9. Range(m.segments) \subseteq DOMAIN dir.segs
  BY <1>1, <1>2, <1>4, <1>5 DEF MergedSegment, Made, Process
<1>10. /\ Plain' /\ Past' /\ Process' /\ Agreed' /\ Merged' = Merged /\ AfterMerge' = segs
       /\ dir'.man = m /\ dir'.segs = dir.segs /\ dir'.logs = dir.logs
  BY <1>1, <1>2, <1>6, <1>7, <1>8, <1>9, ManStep DEF segs
<1>11. MergedSegment'
  BY <1>1, <1>2, <1>10 DEF MergedSegment
<1>12. dir'.man = Manifest(mem.nextFile + 1, AfterMerge, mem.active)'
  BY <1>1, <1>10 DEF m, Manifest
<1>13. Stage'
  BY <1>1, <1>2, <1>11, <1>12 DEF Stage
<1> QED
  BY <1>10, <1>13 DEF Made

\* The directory is synced and files are removed that no manifest names.
LEMMA SyncedStep ==
    ASSUME Plain, Made, pc \in {"sealed", "merged"}, pc' \in {"tiers", "append"},
           NEW d \in DirType, SyncedThen(d), UNCHANGED <<logs, call, calls>>,
           d.man = dir.man, Openable(d), \A i \in Range(d.man.segments) : d.segs[i] = dir.segs[i],
           mem' \in MemType, mem'.active = d.man.active, mem'.segments = d.man.segments,
           mem'.nextFile = d.man.nextFile, mem'.nextId = d.man.nextId,
           logs[mem'.active].accepted = mem'.len
    PROVE  Plain' /\ Made'
<1>1. dir' = d /\ synced' = dir /\ past' = {dir, d} /\ unsure' = FALSE
  BY DEF SyncedThen
<1>2. /\ dir \in past /\ dir \in DirType /\ Numbered(dir.man) /\ Openable(dir)
      /\ dir.man.active \in DOMAIN logs
  BY DEF Plain, Made, Past
<1>3. Plain'
  BY <1>1, <1>2 DEF Plain
<1>4. Past'
  BY <1>1, <1>2 DEF Past, Openable, Numbered
<1>5. Process'
  <2>1. mem'.len <= Len(logs[mem'.active].frames)
    <3>1. logs[mem'.active] \in LogType
      BY <1>2, LogOf DEF Plain
    <3> QED
      BY <3>1 DEF LogType
  <2>2. Numbered(mem')
    BY <1>2 DEF Numbered
  <2>3. mem'.active \in d.logs /\ Range(mem'.segments) \subseteq DOMAIN d.segs
    BY DEF Openable
  <2> QED
    BY <1>1, <1>2, <2>1, <2>2, <2>3 DEF Process, Numbered
<1>6. Stage'
  BY DEF Stage
<1>7. Agreed'
  BY <1>1 DEF Agreed, Agree
<1> QED
  BY <1>3, <1>4, <1>5, <1>6, <1>7 DEF Made

LEMMA SyncSealStep == ASSUME Plain, Made, SyncSeal PROVE Plain' /\ Made'
<1> DEFINE n == mem.nextFile
           d == [dir EXCEPT !.logs = dir.logs \ {mem.active}]
<1>1. /\ pc = "sealed" /\ pc' = "tiers" /\ UNCHANGED <<logs, call, calls>> /\ SyncedThen(d)
      /\ mem' = [active |-> n + 1, len |-> 0, segments |-> Append(mem.segments, n),
                 nextFile |-> n + 2, nextId |-> mem.nextId]
  BY DEF SyncSeal, Counters
<1>2. /\ MadeLog /\ dir.man = Manifest(n + 2, Append(mem.segments, n), n + 1)
  BY <1>1 DEF Made, Stage
<1>3. /\ mem.segments \in Seq(Nat) /\ n \in Nat /\ mem.nextId \in Nat /\ mem.active # n + 1
  BY <1>1, MemParts DEF Made
<1>4. d \in DirType /\ d.logs = dir.logs \ {mem.active} /\ d.segs = dir.segs /\ d.man = dir.man
  <2>1. dir \in DirType /\ dir.logs \ {mem.active} \in SUBSET Nat
    BY DirSet DEF Plain
  <2> QED
    BY <2>1, DirSet
<1> HIDE DEF d
<1>5. Openable(dir)
  BY DEF Plain, Made, Past
<1>6. /\ dir.man.active = n + 1 /\ dir.man.segments = Append(mem.segments, n)
      /\ dir.man.nextFile = n + 2 /\ dir.man.nextId = mem.nextId
  BY <1>2 DEF Manifest
<1>7. Openable(d)
  BY <1>3, <1>4, <1>5, <1>6 DEF Openable
<1>8. Append(mem.segments, n) \in Seq(Nat)
  <2> HIDE DEF n
  <2> QED
    BY <1>3, AppendProperties
<1>9. /\ mem' \in MemType /\ mem'.active = n + 1 /\ mem'.len = 0
      /\ mem'.segments = Append(mem.segments, n) /\ mem'.nextFile = n + 2
      /\ mem'.nextId = mem.nextId
  BY <1>1, <1>3, <1>8 DEF MemType
<1>10. logs[mem'.active].accepted = mem'.len
  BY <1>2, <1>9 DEF MadeLog, EmptyLog
<1> QED
  BY <1>1, <1>4, <1>6, <1>7, <1>9, <1>10, SyncedStep

LEMMA SyncMergeStep == ASSUME Plain, Made, SyncMerge PROVE Plain' /\ Made'
<1> DEFINE segs == Restrict(dir.segs, DOMAIN dir.segs \ Taken)
           d == [dir EXCEPT !.segs = segs]
<1>1. /\ pc = "merged" /\ pc' \in {"tiers", "append"} /\ UNCHANGED <<logs, call, calls>>
      /\ SyncedThen(d)
      /\ mem' = [mem EXCEPT !.nextFile = @ + 1, !.segments = AfterMerge]
  BY DEF SyncMerge, Counters
<1>2. mem.segments # <<>> /\ dir.man = Manifest(mem.nextFile + 1, AfterMerge, mem.active)
  BY <1>1 DEF Made, Stage
<1>3. /\ mem \in MemType /\ mem.nextFile \in Nat /\ logs[mem.active].accepted = mem.len
      /\ AfterMerge \in Seq(Nat) /\ Range(AfterMerge) \cap Taken = {}
  BY <1>1, <1>2, MemParts, TakenOf DEF Made, Process
<1>4. /\ segs \in SegFuns /\ DOMAIN segs = DOMAIN dir.segs \ Taken
      /\ \A i \in DOMAIN dir.segs \ Taken : segs[i] = dir.segs[i]
  BY RestrictedSegs, DirSet DEF Plain
<1> HIDE DEF segs
<1>5. d \in DirType /\ d.logs = dir.logs /\ d.segs = segs /\ d.man = dir.man
  BY <1>4, DirSet DEF Plain
<1> HIDE DEF d
<1>6. Openable(dir)
  BY DEF Plain, Made, Past
<1>7. /\ dir.man.active = mem.active /\ dir.man.segments = AfterMerge
      /\ dir.man.nextFile = mem.nextFile + 1 /\ dir.man.nextId = mem.nextId
  BY <1>2 DEF Manifest
<1>8. Openable(d) /\ \A i \in Range(d.man.segments) : d.segs[i] = dir.segs[i]
  BY <1>3, <1>4, <1>5, <1>6, <1>7 DEF Openable
<1>9. /\ mem' \in MemType /\ mem'.active = mem.active /\ mem'.len = mem.len
      /\ mem'.segments = AfterMerge /\ mem'.nextFile = mem.nextFile + 1
      /\ mem'.nextId = mem.nextId
  <2> DEFINE am == AfterMerge
             k == mem.nextFile + 1
  <2>1. mem' = [mem EXCEPT !.nextFile = k, !.segments = am] /\ am \in Seq(Nat) /\ k \in Nat
    BY <1>1, <1>3
  <2> HIDE DEF am, k
  <2>2. LET r == [mem EXCEPT !.nextFile = k, !.segments = am]
        IN  /\ r \in MemType /\ r.active = mem.active /\ r.len = mem.len
            /\ r.segments = am /\ r.nextFile = k /\ r.nextId = mem.nextId
    BY ONLY <1>3, <2>1 DEF MemType
  <2> QED
    BY ONLY <2>1, <2>2 DEF am, k
<1> QED
  BY <1>1, <1>3, <1>5, <1>7, <1>8, <1>9, SyncedStep

---------------------------------------------------------------------------
(* What goes wrong, and the opens. *)

LEMMA FailsStep == ASSUME Plain, Made, Fails PROVE Plain' /\ Made'
<1>1. pc' = "idle" /\ call' = NoCall /\ UNCHANGED <<mem, calls>> /\ NoCall \in CallType
  BY NoCallType DEF Fails, GiveUp
<1>2. calls' \in Counts
  BY <1>1 DEF Plain
<1>3. CASE /\ pc = "append" /\ logs' = LogWith(First(logs[mem.active].frames, mem.len), mem.len)
           /\ UNCHANGED <<dir, synced, past, unsure>>
  <2> DEFINE frames == First(logs[mem.active].frames, mem.len)
  <2>1. /\ logs[mem.active] \in LogType /\ logs[mem.active].accepted = mem.len
        /\ mem.len \in Nat /\ frames \in Seq(Rec) /\ Len(frames) = mem.len
    BY <1>3, ActiveLog DEF Made
  <2> HIDE DEF frames
  <2>2. mem.len <= Len(frames) /\ logs[mem.active].accepted <= Len(frames)
    BY <2>1
  <2>3. PICK v \in LogType : Rewrites(v, frames, mem.len)
    BY <2>1, <2>2, LogWithType
  <2>4. logs' = [logs EXCEPT ![mem.active] = v] /\ v.accepted = mem.len /\ mem.len <= Len(v.frames)
    BY <1>3, <2>1, <2>2, <2>3 DEF Rewrites, frames
  <2> QED
    BY <1>1, <1>3, <2>4, Rewritten
<1>4. CASE /\ pc \in {"sync", "seal", "newlog", "manifest", "merge", "mergeman"}
           /\ UNCHANGED <<logs, dir, synced, past, unsure>>
  BY <1>1, <1>2, <1>4, Quiet
<1>5. CASE /\ pc = "newlog" /\ logs' = With(logs, mem.nextFile + 1, EmptyLog)
           /\ Change([dir EXCEPT !.logs = @ \cup {mem.nextFile + 1}]) /\ UNCHANGED unsure
  <2>1. Plain' /\ Past' /\ Process' /\ Agreed'
    BY <1>1, <1>5, NewFile
  <2>2. Stage'
    BY <1>1 DEF Stage
  <2> QED
    BY <2>1, <2>2 DEF Made
<1>6. CASE /\ pc \in {"sealed", "merged"} /\ unsure' = TRUE
           /\ UNCHANGED <<logs, dir, synced, past>>
  <2>1. pc # "closed" /\ pc' \in {"idle", "append", "seal", "tiers", "compact", "merge"}
        /\ pc' # "merge" /\ call' \in CallType
    BY <1>1, <1>6
  <2> QED
    BY <1>1, <1>2, <1>6, <2>1, Quiet
<1> QED
  BY <1>3, <1>4, <1>5, <1>6 DEF Fails

LEMMA KillStep == ASSUME Plain, Made, Kill PROVE Plain' /\ Made'
<1>1. /\ pc # "closed" /\ pc' = "closed" /\ call' = NoCall /\ NoCall \in CallType
      /\ unsure' = (unsure \/ pc \in {"sealed", "merged"})
      /\ UNCHANGED <<dir, synced, past, calls>>
  BY NoCallType DEF Kill
<1>2. PICK n \in mem.len .. Len(logs[mem.active].frames) :
         logs' = LogWith(First(logs[mem.active].frames, n), n)
  BY DEF Kill
<1> DEFINE frames == First(logs[mem.active].frames, n)
<1>3. /\ logs[mem.active] \in LogType /\ logs[mem.active].frames \in Seq(Rec)
      /\ logs[mem.active].accepted = mem.len /\ mem.len \in Nat
  BY <1>1, ActiveLog DEF Made
<1>4. n \in Nat /\ mem.len <= n /\ n \in 0 .. Len(logs[mem.active].frames)
  BY <1>3, LenProperties
<1>5. frames \in Seq(Rec) /\ Len(frames) = n
  BY <1>3, <1>4, FirstOf
<1> HIDE DEF frames
<1>6. PICK v \in LogType : Rewrites(v, frames, n)
  <2>1. n <= Len(frames) /\ logs[mem.active].accepted <= Len(frames)
    BY <1>3, <1>4, <1>5
  <2> QED
    BY <1>3, <1>4, <1>5, <2>1, LogWithType
<1>7. logs' = [logs EXCEPT ![mem.active] = v]
  BY <1>2, <1>6 DEF Rewrites, frames
<1>8. logs' \in LogFuns /\ DOMAIN logs' = DOMAIN logs
  <2>1. logs \in LogFuns /\ mem.active \in DOMAIN logs
    BY <1>1 DEF Plain, Made, Process
  <2> QED
    BY <1>7, <2>1, LogSet
<1>9. Plain'
  <2>1. unsure' \in BOOLEAN
    BY <1>1
  <2> QED
    BY <1>1, <1>8, <2>1 DEF Plain
<1>10. Past' /\ Process' /\ Stage'
  BY <1>1, <1>8 DEF Made, Past, Openable, Process, Stage
<1>11. Agreed'
  <2> SUFFICES ASSUME ~unsure, pc \notin {"sealed", "merged"}, NEW d \in past
               PROVE  Agree(d, dir.man)'
    BY <1>1 DEF Agreed
  <2>1. Agree(d, mem) /\ Agree(dir, mem)
    BY <1>1 DEF Made, Agreed, Plain
  <2> QED
    BY <1>1, <2>1 DEF Agree
<1> QED
  BY <1>9, <1>10, <1>11 DEF Made

\* What is safe of the logs.
LEMMA SafeLogs ==
    ASSUME NEW f \in LogFuns
    PROVE  [n \in DOMAIN f |->
              LET m == f[n].safe
              IN  [frames |-> First(f[n].frames, m), safe |-> m,
                   accepted |-> Min({m, f[n].accepted})]] \in LogFuns
<1> DEFINE v(n) == [frames |-> First(f[n].frames, f[n].safe), safe |-> f[n].safe,
                    accepted |-> Min({f[n].safe, f[n].accepted})]
           g == [n \in DOMAIN f |-> v(n)]
<1>1. DOMAIN f \subseteq Nat /\ \A n \in DOMAIN f : f[n] \in LogType
  BY FunOf DEF LogFuns
<1>2. ASSUME NEW n \in DOMAIN f PROVE v(n) \in LogType
  <2>1. /\ f[n].frames \in Seq(Rec) /\ f[n].safe \in Nat /\ f[n].accepted \in Nat
        /\ f[n].safe <= Len(f[n].frames)
    BY <1>1 DEF LogType
  <2>2. f[n].safe \in 0 .. Len(f[n].frames)
    BY <2>1, LenProperties
  <2>3. First(f[n].frames, f[n].safe) \in Seq(Rec) /\ Len(First(f[n].frames, f[n].safe)) = f[n].safe
    BY <2>1, <2>2, FirstOf
  <2>4. Min({f[n].safe, f[n].accepted}) \in Nat /\ Min({f[n].safe, f[n].accepted}) <= f[n].safe
    BY <2>1, MinOfTwo
  <2> DEFINE a == Min({f[n].safe, f[n].accepted})
             r == First(f[n].frames, f[n].safe)
             m == f[n].safe
  <2>5. a \in Nat /\ a <= m /\ m \in Nat /\ m <= m /\ r \in Seq(Rec) /\ Len(r) = m
    BY <2>1, <2>3, <2>4
  <2> HIDE DEF a, r, m
  <2>6. [frames |-> r, safe |-> m, accepted |-> a] \in LogType
    BY ONLY <2>5 DEF LogType
  <2> QED
    BY <2>6 DEF a, r, m
<1> HIDE DEF v
<1>3. DOMAIN g = DOMAIN f /\ g = [n \in DOMAIN g |-> g[n]] /\ \A n \in DOMAIN f : g[n] = v(n)
  OBVIOUS
<1> HIDE DEF g
<1>4. DOMAIN g \subseteq Nat /\ \A n \in DOMAIN g : g[n] \in LogType
  BY <1>1, <1>2, <1>3
<1>5. g \in LogFuns
  BY <1>3, <1>4, FunOf DEF LogFuns
<1> QED
  BY <1>5 DEF g, v

LEMMA PowerLossStep ==
    ASSUME Core, PowerLoss
    PROVE  Core' /\ (New' => New)
<1>1. /\ pc' = "closed" /\ call' = NoCall /\ NoCall \in CallType /\ unsure' = FALSE /\ calls' = calls
  BY NoCallType DEF PowerLoss
<1>2. PICK d \in past : dir' = d /\ synced' = d /\ past' = {d}
  BY DEF PowerLoss
<1>3. DOMAIN logs' = DOMAIN logs
  BY DEF PowerLoss
<1>4. logs' \in LogFuns
  BY SafeLogs DEF PowerLoss, Core, Plain
<1>5. Plain'
  BY <1>1, <1>2, <1>4 DEF Core, Plain
<1>6. CASE New
  BY <1>1, <1>2, <1>3, <1>5, <1>6 DEF Core, New
<1>7. CASE Made
  <2>1. Numbered(d.man) /\ Openable(d) /\ d.man.active \in DOMAIN logs
    BY <1>7 DEF Made, Past
  <2>2. Past'
    BY <1>2, <1>3, <2>1 DEF Past, Openable, Numbered
  <2>3. Process' /\ Stage'
    BY <1>1 DEF Process, Stage
  <2>4. Agreed'
    BY <1>1, <1>2 DEF Agreed, Agree
  <2>5. ~New'
    <3>1. 0 < d.man.active
      BY <2>1 DEF Numbered
    <3>2. NoMan.active = 0
      BY DEF NoMan
    <3> QED
      BY <1>2, <3>1, <3>2 DEF New
  <2> QED
    BY <1>5, <2>2, <2>3, <2>4, <2>5 DEF Core, Made
<1> QED
  BY <1>6, <1>7 DEF Core

LEMMA BeginStep == ASSUME Core, Begin PROVE Plain' /\ Made'
<1> DEFINE man == [active |-> 1, segments |-> <<>>, nextFile |-> 2, nextId |-> 1]
           d == [logs |-> {1}, segs |-> <<>>, man |-> man]
<1>1. /\ pc' = "idle" /\ logs' = [n \in {1} |-> EmptyLog] /\ dir' = d /\ synced' = dir'
      /\ past' = {dir'} /\ UNCHANGED <<call, calls, unsure>>
      /\ mem' = [active |-> 1, len |-> 0, segments |-> <<>>, nextFile |-> 2, nextId |-> 1]
  BY DEF Begin, Counters
<1>2. logs' \in LogFuns /\ DOMAIN logs' = {1} /\ logs'[1] = EmptyLog
  <2>1. logs' \in [{1} -> LogType] /\ {1} \in SUBSET Nat
    BY <1>1, EmptyLogType
  <2> QED
    BY <1>1, <2>1 DEF LogFuns
<1>3. DOMAIN <<>> = {} /\ Range(<<>>) = {} /\ <<>> \in Seq(Nat) /\ Once(<<>>)
  BY DEF Range, Once
<1>4. <<>> \in SegFuns
  <2>1. <<>> = [x \in DOMAIN <<>> |-> <<>>[x]]
    OBVIOUS
  <2> QED
    BY <1>3, <2>1, FunOf DEF SegFuns
<1>5. man \in ManType /\ Numbered(man)
  BY <1>3 DEF ManType, Numbered
<1>6. d \in DirType /\ d.man = man /\ d.logs = {1} /\ d.segs = <<>> /\ Openable(d)
  <2> HIDE DEF man
  <2>1. man.active = 1 /\ man.segments = <<>>
    BY DEF man
  <2> QED
    BY <1>3, <1>4, <1>5, <2>1 DEF DirType, Openable
<1>7. mem' \in MemType /\ Numbered(mem')
  BY <1>1, <1>3 DEF MemType, Numbered
<1>8. man.active = 1 /\ man.segments = <<>>
  OBVIOUS
<1>9. /\ mem'.active = 1 /\ mem'.segments = <<>> /\ mem'.len = 0
  BY <1>1
<1> HIDE DEF d, man
<1>10. Plain'
  BY <1>1, <1>2, <1>6 DEF Core, Plain
<1>11. Past'
  BY <1>1, <1>2, <1>5, <1>6, <1>8 DEF Past, Openable, Numbered
<1>12. Process'
  <2>1. Len(<<>>) = 0
    BY EmptySeq
  <2> QED
    BY <1>1, <1>2, <1>3, <1>6, <1>7, <1>9, <2>1, EmptyLogType DEF Process, Numbered
<1>13. Stage'
  BY <1>1 DEF Stage
<1>14. Agreed'
  BY <1>1, <1>6, <1>8, <1>9 DEF Agreed, Agree
<1> QED
  BY <1>10, <1>11, <1>12, <1>13, <1>14 DEF Made

LEMMA OpenStep == ASSUME Plain, Made, Open PROVE Plain' /\ Made'
<1> DEFINE man == dir.man
           frames == Good(logs[man.active].frames)
           segs == Restrict(dir.segs, Range(man.segments))
           d == [dir EXCEPT !.logs = {man.active}, !.segs = segs]
           v == [frames |-> frames, safe |-> Min({logs[man.active].safe, Len(frames)}),
                 accepted |-> Len(frames)]
<1>1. /\ pc = "closed" /\ pc' = "idle" /\ UNCHANGED <<call, calls, unsure>> /\ Change(d)
      /\ logs' = [logs EXCEPT ![man.active] = v]
      /\ mem' = [active |-> man.active, len |-> Len(frames), segments |-> man.segments,
                 nextFile |-> man.nextFile, nextId |-> NextId(dir, frames)]
  BY DEF Open, Counters
<1>2. /\ dir \in past /\ dir \in DirType /\ man \in ManType /\ Numbered(man) /\ Openable(dir)
      /\ man.active \in DOMAIN logs /\ logs \in LogFuns
  BY DirSet DEF Plain, Made, Past
<1>3. /\ man.active \in Nat /\ man.segments \in Seq(Nat) /\ man.nextFile \in Nat
  BY <1>2 DEF ManType
<1>4. logs[man.active] \in LogType /\ frames \in Seq(Rec) /\ Len(frames) \in Nat
  <2>1. logs[man.active] \in LogType
    BY <1>2, LogOf
  <2>2. logs[man.active].frames \in Seq(Rec)
    BY <2>1 DEF LogType
  <2> QED
    BY <2>1, <2>2, GoodType, LenProperties
<1>5. v \in LogType
  <2>1. logs[man.active].safe \in Nat
    BY <1>4 DEF LogType
  <2>2. /\ Min({logs[man.active].safe, Len(frames)}) \in Nat
        /\ Min({logs[man.active].safe, Len(frames)}) <= Len(frames)
    BY <1>4, <2>1, MinOfTwo
  <2> DEFINE s == Min({logs[man.active].safe, Len(frames)})
  <2>3. s \in Nat /\ s <= Len(frames) /\ frames \in Seq(Rec) /\ Len(frames) \in Nat
    BY <1>4, <2>2
  <2> HIDE DEF s, frames
  <2>4. [frames |-> frames, safe |-> s, accepted |-> Len(frames)] \in LogType
    BY ONLY <2>3 DEF LogType
  <2> QED
    BY <2>4 DEF s
<1>6. v.frames = frames /\ v.accepted = Len(frames)
  OBVIOUS
<1> HIDE DEF v
<1>7. logs' \in LogFuns /\ DOMAIN logs' = DOMAIN logs /\ logs'[man.active] = v
  BY <1>1, <1>2, <1>5, LogSet
<1>8. NextId(dir, frames) \in Nat /\ 0 < NextId(dir, frames)
  BY <1>2, <1>4, NextIdType DEF Openable
<1>9. /\ segs \in SegFuns /\ DOMAIN segs = Range(man.segments)
      /\ \A i \in Range(man.segments) : segs[i] = dir.segs[i]
  BY <1>2, RestrictedSegs, DirSet DEF Openable
<1> HIDE DEF segs
<1>10. d \in DirType /\ d.logs = {man.active} /\ d.segs = segs /\ d.man = man
  <2> DEFINE d1 == [dir EXCEPT !.logs = {man.active}]
  <2>1. {man.active} \in SUBSET Nat
    BY <1>3
  <2>2. d1 \in DirType /\ d1.logs = {man.active} /\ d1.segs = dir.segs /\ d1.man = man
    BY <1>2, <2>1, DirSet
  <2>3. d = [d1 EXCEPT !.segs = segs]
    OBVIOUS
  <2> HIDE DEF d1, d
  <2> QED
    BY <1>9, <2>2, <2>3, DirSet
<1> HIDE DEF d
<1>11. dir' = d /\ past' = past \cup {d} /\ synced' = synced
  BY <1>1 DEF Change
<1>12. Plain'
  BY <1>1, <1>7, <1>10, <1>11 DEF Plain
<1>13. Openable(d)
  BY <1>9, <1>10 DEF Openable
<1>14. Past'
  <2>1. \A x \in past' : Numbered(x.man) /\ Openable(x) /\ x.man.active \in DOMAIN logs'
    BY <1>2, <1>7, <1>10, <1>11, <1>13 DEF Made, Past
  <2> QED
    BY <2>1 DEF Past, Openable, Numbered
<1>15. /\ mem'.active = man.active /\ mem'.len = Len(frames) /\ mem'.segments = man.segments
       /\ mem'.nextFile = man.nextFile /\ mem'.nextId = NextId(dir, frames)
       /\ mem' \in MemType
  <2> DEFINE k == NextId(dir, frames)
  <2> HIDE DEF frames, man, k
  <2> QED
    BY <1>1, <1>3, <1>4, <1>8 DEF MemType, k
<1>16. Process'
  <2>1. Numbered(mem')
    BY <1>2, <1>8, <1>15 DEF Numbered
  <2>2. Len(frames) <= Len(frames)
    BY <1>4
  <2> HIDE DEF frames, man
  <2> QED
    BY <1>2, <1>6, <1>7, <1>9, <1>10, <1>11, <1>15, <2>1, <2>2 DEF Process, Numbered
<1>17. Stage'
  BY <1>1 DEF Stage
<1>18. Agreed'
  <2> SUFFICES ASSUME ~unsure, NEW x \in past' PROVE Agree(x, mem)'
    BY <1>1 DEF Agreed
  <2>1. \A y \in past : Agree(y, man)
    BY <1>1 DEF Made, Agreed
  <2>2. CASE x \in past
    BY <1>9, <1>10, <1>11, <1>15, <2>1, <2>2 DEF Agree
  <2>3. CASE x = d
    BY <1>10, <1>11, <1>15, <2>3 DEF Agree
  <2> QED
    BY <1>11, <2>2, <2>3
<1> QED
  BY <1>12, <1>14, <1>16, <1>17, <1>18 DEF Made

---------------------------------------------------------------------------
(* The theorems. *)

Move ==
    \/ Begin \/ Open \/ Call \/ Return \/ Work \/ Writeback
    \/ LogExists \/ Fails \/ Kill \/ PowerLoss

LEMMA Starts == ASSUME Init PROVE IInv
<1>1. DOMAIN <<>> = {} /\ Range(<<>>) = {} /\ <<>> \in Seq(Nat) /\ <<>> \in Seq(Rec)
  BY DEF Range
<1>2. <<>> \in SegFuns /\ <<>> \in LogFuns
  <2>1. <<>> = [x \in DOMAIN <<>> |-> <<>>[x]]
    OBVIOUS
  <2>2. <<>> \in SegFuns
    BY <1>1, <2>1, FunOf DEF SegFuns
  <2>3. <<>> \in LogFuns
    BY <1>1, <2>1, FunOf DEF LogFuns
  <2> QED
    BY <2>2, <2>3
<1>3. NoMan \in ManType
  BY <1>1 DEF NoMan, ManType
<1>4. dir \in DirType
  BY <1>2, <1>3 DEF Init, DirType
<1>5. calls \in Counts
  BY StoreAssumption DEF Init, Counts
<1>6. Plain
  BY <1>2, <1>4, <1>5, NoCallType DEF Init, Plain
<1>7. New
  BY <1>1 DEF Init, New
<1>8. Lasts
  BY <1>1 DEF Init, Lasts
<1> QED
  BY <1>6, <1>7, <1>8 DEF IInv, Core

\* Every step keeps the directory's part of the invariant, and once there is a
\* history there is one.
LEMMA MoveKeeps == ASSUME Core, Move PROVE Core' /\ (New' => New)
<1>1. ~(New /\ Made)
  <2>1. NoMan.active = 0
    BY DEF NoMan
  <2> QED
    BY <2>1 DEF New, Made, Past, Numbered
<1>2. ASSUME Plain', Made' PROVE Core' /\ ~New'
  <2>1. NoMan.active = 0
    BY DEF NoMan
  <2>2. 0 < dir'.man.active
    BY <1>2 DEF Made, Past, Numbered, Plain
  <2> QED
    BY <1>2, <2>1, <2>2 DEF Core, New
<1>3. CASE Begin
  BY <1>2, <1>3, BeginStep
<1>4. CASE PowerLoss
  BY <1>4, PowerLossStep
<1>5. CASE Move /\ ~Begin /\ ~PowerLoss
  <2>1. Made
    <3>1. CASE New
      <4>1. ~Open
        BY <3>1 DEF New, Open
      <4>2. ~Writeback
        BY <3>1 DEF New, Writeback
      <4>3. pc = "closed"
        BY <3>1 DEF New
      <4>4. ~Call /\ ~Return /\ ~LogExists /\ ~Fails /\ ~Kill
        BY <4>3 DEF Call, Return, LogExists, Fails, Kill
      <4>5. ~Work
        BY <4>3 DEF Work, Write, Sync, Seal, NewLog, RenameManifest, SyncSeal, Tiers, Merge,
                    MergeManifest, SyncMerge
      <4> QED
        BY <1>5, <4>1, <4>2, <4>4, <4>5 DEF Move
    <3> QED
      BY <3>1 DEF Core
  <2>2. Plain
    BY DEF Core
  <2>3. Work => Plain' /\ Made'
    BY <2>1, <2>2, WriteStep, SyncStep, SealStep, NewLogStep, RenameManifestStep, SyncSealStep,
       TiersStep, MergeStep, MergeManifestStep, SyncMergeStep DEF Work
  <2>4. Plain' /\ Made'
    BY <1>5, <2>1, <2>2, <2>3, OpenStep, CallStep, ReturnStep, WritebackStep, LogExistsStep,
       FailsStep, KillStep DEF Move
  <2> QED
    BY <1>2, <2>4
<1> QED
  BY <1>3, <1>4, <1>5 DEF Move

\* What lasts has ids of entries.
LEMMA LastingIds ==
    ASSUME Core, NEW d \in past
    PROVE  DOMAIN Lasting(d) \subseteq Ids /\ (New => DOMAIN Lasting(d) = {})
<1>1. CASE d.man = NoMan
  <2>1. Lasting(d) = <<>> /\ DOMAIN <<>> = {}
    BY <1>1 DEF Lasting
  <2> QED
    BY <2>1
<1>2. CASE d.man # NoMan
  <2>1. Made /\ ~New
    BY <1>2 DEF Core, New
  <2>2. d \in DirType /\ Openable(d) /\ d.man.active \in DOMAIN logs /\ logs \in LogFuns
    BY <2>1 DEF Core, Plain, Made, Past
  <2> DEFINE log == logs[d.man.active]
             n == Min({log.safe, log.accepted})
  <2>3. n \in 0 .. Len(log.frames)
    <3>1. log \in LogType
      BY <2>2, LogOf
    <3>2. log.safe \in Nat /\ log.accepted \in Nat /\ log.safe <= Len(log.frames)
          /\ Len(log.frames) \in Nat
      BY <3>1, LenProperties DEF LogType
    <3>3. n \in Nat /\ n <= log.safe
      BY <3>2, MinOfTwo
    <3> HIDE DEF n, log
    <3> QED
      BY <3>2, <3>3
  <2>4. Lasting(d) = Answers(Parts(d.man, d, n))
    BY <1>2 DEF Lasting
  <2> HIDE DEF n
  <2>5. Parts(d.man, d, n) \subseteq PartType
    BY <2>2, <2>3, PartsType
  <2> QED
    BY <2>1, <2>4, <2>5, AnswersType
<1> QED
  BY <1>1, <1>2

LastsOfIds == DOMAIN Lasting(synced) \subseteq Ids /\ (New => DOMAIN Lasting(synced) = {})
LEMMA SyncedIds == Core => LastsOfIds
BY LastingIds DEF Core, Plain, LastsOfIds

LEMMA NextKeeps == ASSUME IInv, [Next]_vars PROVE IInv'
<1>1. CASE Next
  <2>1. Move /\ shown' = Lasting(synced)'
        /\ given' = (IF unsure THEN {} ELSE given) \cup DOMAIN shown'
    BY <1>1 DEF Next, Move
  <2>2. Core' /\ (New' => New)
    BY <2>1, MoveKeeps DEF IInv
  <2>3. synced' \in past'
    BY <2>2 DEF Core, Plain
  <2>4. DOMAIN Lasting(synced)' \subseteq Ids /\ (New' => DOMAIN Lasting(synced)' = {})
    <3>1. Core' => LastsOfIds'
      BY SyncedIds, PTL
    <3> QED
      BY <2>2, <3>1 DEF LastsOfIds
  <2>5. Lasts'
    BY <2>1, <2>2, <2>4 DEF IInv, Lasts
  <2> QED
    BY <2>2, <2>5 DEF IInv
<1>2. CASE UNCHANGED vars
  <2>1. Core'
    <3>1. Plain /\ (New \/ Made)
      BY DEF IInv, Core
    <3>2. Plain' /\ (New => New')
      BY <1>2, <3>1 DEF vars, Plain, New
    <3>3. Sealed' = Sealed /\ AfterMerge' = AfterMerge /\ Merged' = Merged
      <4>1. Log' = Log /\ Segs' = Segs /\ Mine' = Mine
        BY <1>2 DEF vars, Log, Segs, Mine
      <4>2. MergeFrom' = MergeFrom
        BY <1>2 DEF vars, MergeFrom, RunStart, Tier, Halves, Size
      <4>3. Taken' = Taken
        BY <1>2, <4>2 DEF vars, Taken
      <4>4. Outside' = Outside
        BY <1>2, <4>1, <4>3 DEF vars, Outside
      <4> QED
        BY <1>2, <4>1, <4>2, <4>3, <4>4 DEF vars, Sealed, AfterMerge, Merged
    <3>4. ASSUME Made PROVE Made'
      <4>1. Past' /\ Process' /\ Agreed'
        BY <1>2, <3>4 DEF vars, Made, Past, Process, Agreed, Agree, Openable, Numbered
      <4>2. Stage'
        BY <1>2, <3>3, <3>4 DEF vars, Made, Stage, NewSegment, MadeLog, MergedSegment, Manifest, EmptyLog
      <4> QED
        BY <4>1, <4>2 DEF Made
    <3> QED
      BY <3>1, <3>2, <3>4 DEF Core
  <2>2. Lasts'
    BY <1>2 DEF IInv, Lasts, New, vars
  <2> QED
    BY <2>1, <2>2 DEF IInv
<1> QED
  BY <1>1, <1>2

\* ClipStore!TypeOK, of every set of contents and every bound: of each log no
\* more records are safe or taken than it has, the process mirrors no record its
\* log has not, and ids are given in their range.
THEOREM StoreTypes == Spec => []TypeOK
<1>1. Init => IInv
  BY Starts
<1>2. IInv /\ [Next]_vars => IInv'
  BY NextKeeps
<1>3. IInv => TypeOK
  <2> SUFFICES ASSUME IInv PROVE TypeOK
    OBVIOUS
  <2>1. ASSUME NEW n \in DOMAIN logs
        PROVE  {logs[n].safe, logs[n].accepted} \subseteq 0 .. Len(logs[n].frames)
    <3>1. logs[n] \in LogType
      BY LogOf DEF IInv, Core, Plain
    <3> QED
      BY <3>1, LenProperties DEF LogType
  <2>2. pc # "closed" => Made
    BY DEF IInv, Core, New
  <2>3. pc = "sync" => call.todo # <<>>
    BY <2>2 DEF Made, Stage
  <2>4. pc # "closed" => mem.len <= Len(logs[mem.active].frames)
    BY <2>2 DEF Made, Process
  <2> QED
    BY <2>1, <2>3, <2>4 DEF TypeOK, IInv, Core, Plain, Lasts, Ids
<1> QED
  BY <1>1, <1>2, <1>3, PTL DEF Spec

\* ClipStore!AlwaysOpens: whichever of the directory's states since its last sync
\* the power's loss brings back, the files its manifest names are there - after
\* any number of crashes and of failed writes, also while a manifest's sync has
\* failed (lib.rs 1115-1145, 1209-1251).
THEOREM StoreOpens == Spec => []AlwaysOpens
<1>1. Init => IInv
  BY Starts
<1>2. IInv /\ [Next]_vars => IInv'
  BY NextKeeps
<1>3. IInv => AlwaysOpens
  <2> SUFFICES ASSUME IInv, NEW d \in past
               PROVE  IF d.man = NoMan THEN given = {} ELSE Openable(d)
    BY DEF AlwaysOpens
  <2>1. CASE New
    BY <2>1 DEF IInv, Lasts, New
  <2>2. CASE Made
    <3>1. Numbered(d.man) /\ Openable(d)
      BY <2>2 DEF Made, Past
    <3>2. d.man # NoMan
      BY <3>1 DEF Numbered, NoMan
    <3> QED
      BY <3>1, <3>2
  <2> QED
    BY <2>1, <2>2 DEF IInv, Core
<1> QED
  BY <1>1, <1>2, <1>3, PTL DEF Spec

\* The two manifests of a seal answer alike, and the two of a merge.
LEMMA AfterSeal ==
    ASSUME Plain, Made, pc = "sealed"
    PROVE  Mirror = Answers(Parts(dir.man, dir, logs[dir.man.active].accepted))
<1> DEFINE n == mem.nextFile
           p == PartOf(<<>>)
<1>1. NewSegment /\ MadeLog /\ dir.man = Manifest(n + 2, Append(mem.segments, n), n + 1)
  BY DEF Made, Stage
<1>2. dir.man.active = n + 1 /\ dir.man.segments = Append(mem.segments, n)
  BY <1>1 DEF Manifest
<1>3. Range(dir.man.segments) = Range(mem.segments) \cup {n}
  <2>1. mem.segments \in Seq(Nat) /\ n \in Nat
    BY MemParts DEF Made
  <2> HIDE DEF n
  <2> QED
    BY <1>2, <2>1, OfAppend
<1>4. First(logs[n + 1].frames, 0) = <<>> /\ logs[n + 1].accepted = 0
  <2>1. logs[n + 1] = EmptyLog
    BY <1>1 DEF MadeLog
  <2>2. First(<<>>, 0) = <<>>
    <3>1. <<>> \in Seq(Nat) /\ Len(<<>>) = 0 /\ 0 \in 0 .. 0
      BY EmptySeq
    <3>2. First(<<>>, 0) \in Seq(Nat) /\ Len(First(<<>>, 0)) = 0
      BY <3>1, FirstOf
    <3> QED
      BY <3>2, EmptySeq
  <2> QED
    BY <2>1, <2>2, EmptyLogType
<1>5. Parts(dir.man, dir, logs[dir.man.active].accepted) = (Segs \cup {Sealed}) \cup {p}
  <2>1. {dir.segs[i] : i \in Range(dir.man.segments)} = Segs \cup {Sealed}
    BY <1>1, <1>3 DEF Segs, NewSegment
  <2> HIDE DEF p
  <2>2. PartOf(First(logs[dir.man.active].frames, logs[dir.man.active].accepted)) = p
    BY <1>2, <1>4 DEF p
  <2> QED
    BY <2>1, <2>2 DEF Parts
<1>6. p.entries = {} /\ p.events = {} /\ p.tombs = {}
  BY EmptyPart
<1> HIDE DEF p
<1>7. Answers((Segs \cup {Sealed}) \cup {p}) = Answers(Segs \cup {Sealed})
  BY <1>6, EmptyAnswers
<1>8. Answers(Segs \cup {Sealed}) = Answers(Segs \cup {Log})
  BY WrittenAnswers DEF Sealed, Mine
<1> QED
  BY <1>5, <1>7, <1>8 DEF Mirror, Mine

LEMMA AfterMerged ==
    ASSUME Plain, Made, pc = "merged"
    PROVE  Mirror = Answers(Parts(dir.man, dir, logs[dir.man.active].accepted))
<1> DEFINE R == {dir.segs[i] : i \in Taken}
           S == {dir.segs[i] : i \in Range(mem.segments) \ Taken} \cup {Log}
<1>1. /\ MergedSegment /\ mem.segments # <<>>
      /\ dir.man = Manifest(mem.nextFile + 1, AfterMerge, mem.active)
  BY DEF Made, Stage
<1>2. dir.man.active = mem.active /\ dir.man.segments = AfterMerge
  BY <1>1 DEF Manifest
<1>3. /\ Taken \subseteq Range(mem.segments)
      /\ Range(AfterMerge) = (Range(mem.segments) \ Taken) \cup {mem.nextFile}
      /\ logs[mem.active].accepted = mem.len
  BY <1>1, TakenOf DEF Made, Process
<1>4. Parts(dir.man, dir, logs[dir.man.active].accepted) = S \cup {Merged}
  BY <1>1, <1>2, <1>3 DEF Parts, Log, MergedSegment
<1>5. S \cup R = Mine
  BY <1>3 DEF Mine, Segs
<1>6. Outside = IdsIn(Held(S))
  BY DEF Outside, IdsIn, Held
<1>7. Merged = Written(R, Dead(S \cup R), Outside)
  BY <1>5 DEF Merged
<1> HIDE DEF R, S
<1>8. Answers(S \cup {Merged}) = Answers(S \cup R)
  BY <1>6, <1>7, WrittenAnswers
<1> QED
  BY <1>4, <1>5, <1>8 DEF Mirror

\* ClipStore!MemoryIsDisk: what the open history answers - at each step of a seal
\* and of a merge, and after each that failed - is what any directory that may
\* come back would, had every record it took been written.  No tombstone is
\* dropped too early and none kept too late (lib.rs 1122-1130, 1216-1230).
THEOREM StoreMirrors == Spec => []MemoryIsDisk
<1>1. Init => IInv
  BY Starts
<1>2. IInv /\ [Next]_vars => IInv'
  BY NextKeeps
<1>3. IInv => MemoryIsDisk
  <2> SUFFICES ASSUME IInv, pc # "closed", ~unsure, NEW d \in past
               PROVE  Mirror = Answers(Parts(d.man, d, logs[d.man.active].accepted))
    BY DEF MemoryIsDisk
  <2>1. Plain /\ Made
    BY DEF IInv, Core, New
  <2>2. CASE Agree(d, mem)
    <3>1. logs[mem.active].accepted = mem.len
      BY <2>1 DEF Made, Process
    <3>2. Parts(d.man, d, logs[d.man.active].accepted) = Mine
      BY <2>2, <3>1 DEF Agree, Parts, Mine, Segs, Log
    <3> QED
      BY <3>2 DEF Mirror
  <2>3. CASE pc = "sealed" /\ d = dir
    BY <2>1, <2>3, AfterSeal
  <2>4. CASE pc = "merged" /\ d = dir
    BY <2>1, <2>4, AfterMerged
  <2> QED
    BY <2>1, <2>2, <2>3, <2>4 DEF Made, Agreed
<1> QED
  BY <1>1, <1>2, <1>3, PTL DEF Spec

---------------------------------------------------------------------------
(* What one record more changes of the answers. *)

\* The ids a history's parts know of.
AllIds(P) == IdsIn(Held(P)) \cup IdsIn(Noted(P)) \cup Dead(P)

\* Answers with an entry more, and with an event more.
EntryAdded(A, r) ==
    [x \in DOMAIN A \cup {r.id} |->
        IF x = r.id THEN [contents |-> r.contents, events |-> {[kind |-> "copied", at |-> r.at]}]
                    ELSE A[x]]
EventAdded(A, r) ==
    IF r.id \in DOMAIN A
      THEN [A EXCEPT ![r.id].events = @ \cup {[kind |-> r.kind, at |-> r.at]}]
      ELSE A

\* What parts answer together with one more, and the ids they know of.
Said(S, p) == Answers(S \cup {p})
Known(S, p) == AllIds(S \cup {p})

\* A part with an entry more, with an event more, with a tombstone more.
EntryMade(p, q, r) ==
    /\ q.entries = p.entries \cup {r} /\ q.tombs = p.tombs
    /\ q.events = p.events \cup {Event("copied", r.id, r.at)}
EventMade(p, q, r) ==
    q.entries = p.entries /\ q.tombs = p.tombs /\ q.events = p.events \cup {r}
TombMade(p, q, id) ==
    q.entries = p.entries /\ q.events = p.events /\ q.tombs = p.tombs \cup {id}

LEMMA PartsMore ==
    ASSUME NEW S, NEW p
    PROVE  /\ Held(S \cup {p}) = Held(S) \cup p.entries
           /\ Noted(S \cup {p}) = Noted(S) \cup p.events
           /\ Dead(S \cup {p}) = Dead(S) \cup p.tombs
BY DEF Held, Noted, Dead

LEMMA EntryMore ==
    ASSUME NEW S, NEW p, NEW q, NEW r, r.id \notin Known(S, p), EntryMade(p, q, r)
    PROVE  Said(S, q) = EntryAdded(Said(S, p), r)
<1> DEFINE P == S \cup {p}
           Q == S \cup {q}
           A == Answers(P)
           ev == Event("copied", r.id, r.at)
<1>1. Held(Q) = Held(P) \cup {r} /\ Noted(Q) = Noted(P) \cup {ev} /\ Dead(Q) = Dead(P)
  <2>1. /\ Held(Q) = Held(S) \cup q.entries /\ Noted(Q) = Noted(S) \cup q.events
        /\ Dead(Q) = Dead(S) \cup q.tombs
    BY PartsMore
  <2>2. /\ Held(P) = Held(S) \cup p.entries /\ Noted(P) = Noted(S) \cup p.events
        /\ Dead(P) = Dead(S) \cup p.tombs
    BY PartsMore
  <2> HIDE DEF P, Q, ev
  <2> QED
    BY <2>1, <2>2 DEF ev, EntryMade
<1>2. ev.id = r.id /\ [kind |-> ev.kind, at |-> ev.at] = [kind |-> "copied", at |-> r.at]
  BY DEF Event
<1>3. /\ \A e \in Held(P) : e.id # r.id
      /\ \A e \in Noted(P) : e.id # r.id
      /\ r.id \notin Dead(P)
  BY DEF Known, AllIds, IdsIn
<1>4. A = [x \in IdsIn(Held(P)) \ Dead(P) |-> Answer(Of(Held(P), x), Of(Noted(P), x))]
  BY DEF Answers
<1>5. Answers(Q) = [x \in IdsIn(Held(Q)) \ Dead(Q) |-> Answer(Of(Held(Q), x), Of(Noted(Q), x))]
  BY DEF Answers
<1> HIDE DEF P, Q, A, ev
<1>6. IdsIn(Held(Q)) \ Dead(Q) = DOMAIN A \cup {r.id}
  BY <1>1, <1>3, <1>4 DEF IdsIn
<1>7. ASSUME NEW x \in DOMAIN A, x # r.id
      PROVE  Of(Held(Q), x) = Of(Held(P), x) /\ Of(Noted(Q), x) = Of(Noted(P), x)
  BY <1>1, <1>2, <1>7 DEF Of
<1>8. Of(Held(Q), r.id) = {r} /\ Of(Noted(Q), r.id) = {ev}
  BY <1>1, <1>2, <1>3 DEF Of
<1>9. Answer({r}, {ev}) = [contents |-> r.contents, events |-> {[kind |-> "copied", at |-> r.at]}]
  <2>1. (CHOOSE e \in {r} : TRUE) = r
    OBVIOUS
  <2>2. {[kind |-> e.kind, at |-> e.at] : e \in {ev}} = {[kind |-> "copied", at |-> r.at]}
    BY <1>2
  <2> QED
    BY <2>1, <2>2 DEF Answer
<1>10. \A x \in DOMAIN A : x # r.id => Answer(Of(Held(Q), x), Of(Noted(Q), x)) = A[x]
  BY <1>4, <1>7
<1> DEFINE B == [contents |-> r.contents, events |-> {[kind |-> "copied", at |-> r.at]}]
           G(x) == Answer(Of(Held(Q), x), Of(Noted(Q), x))
<1>11. G(r.id) = B
  BY <1>8, <1>9
<1>12. Answers(Q) = [x \in DOMAIN A \cup {r.id} |-> G(x)] /\ \A x \in DOMAIN A : x # r.id => G(x) = A[x]
  BY <1>5, <1>6, <1>10
<1> HIDE DEF G, B
<1>13. Answers(Q) = [x \in DOMAIN A \cup {r.id} |-> IF x = r.id THEN B ELSE A[x]]
  BY <1>11, <1>12
<1> QED
  BY <1>13 DEF P, Q, A, B, EntryAdded, Said

LEMMA EventMore ==
    ASSUME NEW S, NEW p, NEW q, NEW r, EventMade(p, q, r)
    PROVE  Said(S, q) = EventAdded(Said(S, p), r)
<1> DEFINE P == S \cup {p}
           Q == S \cup {q}
           A == Answers(P)
           B == Answers(Q)
<1>1. Held(Q) = Held(P) /\ Noted(Q) = Noted(P) \cup {r} /\ Dead(Q) = Dead(P)
  <2>1. /\ Held(Q) = Held(S) \cup q.entries /\ Noted(Q) = Noted(S) \cup q.events
        /\ Dead(Q) = Dead(S) \cup q.tombs
    BY PartsMore
  <2>2. /\ Held(P) = Held(S) \cup p.entries /\ Noted(P) = Noted(S) \cup p.events
        /\ Dead(P) = Dead(S) \cup p.tombs
    BY PartsMore
  <2> HIDE DEF P, Q
  <2> QED
    BY <2>1, <2>2 DEF EventMade
<1>2. A = [x \in IdsIn(Held(P)) \ Dead(P) |-> Answer(Of(Held(P), x), Of(Noted(P), x))]
  BY DEF Answers
<1>3. B = [x \in IdsIn(Held(Q)) \ Dead(Q) |-> Answer(Of(Held(Q), x), Of(Noted(Q), x))]
  BY DEF Answers
<1> HIDE DEF P, Q, A, B
<1>4. DOMAIN B = DOMAIN A /\ B = [x \in DOMAIN A |-> B[x]] /\ A = [x \in DOMAIN A |-> A[x]]
  BY <1>1, <1>2, <1>3
<1>5. ASSUME NEW x \in DOMAIN A, x # r.id PROVE B[x] = A[x]
  <2>1. Of(Noted(Q), x) = Of(Noted(P), x)
    BY <1>1, <1>5 DEF Of
  <2> QED
    BY <1>1, <1>2, <1>3, <2>1
<1>6. ASSUME r.id \in DOMAIN A
      PROVE  B[r.id] = [A[r.id] EXCEPT !.events = @ \cup {[kind |-> r.kind, at |-> r.at]}]
  <2> DEFINE c == (CHOOSE e \in Of(Held(P), r.id) : TRUE).contents
             E == {[kind |-> e.kind, at |-> e.at] : e \in Of(Noted(P), r.id)}
             F == {[kind |-> e.kind, at |-> e.at] : e \in Of(Noted(Q), r.id)}
  <2>1. Of(Noted(Q), r.id) = Of(Noted(P), r.id) \cup {r}
    BY <1>1 DEF Of
  <2>2. F = E \cup {[kind |-> r.kind, at |-> r.at]}
    BY <2>1
  <2>3. A[r.id] = [contents |-> c, events |-> E] /\ B[r.id] = [contents |-> c, events |-> F]
    BY <1>1, <1>2, <1>3, <1>6 DEF Answer
  <2> HIDE DEF c, E, F
  <2> QED
    BY <2>2, <2>3
<1> DEFINE C == [A EXCEPT ![r.id].events = @ \cup {[kind |-> r.kind, at |-> r.at]}]
<1>7. ASSUME r.id \in DOMAIN A PROVE B = C
  <2>1. C = [x \in DOMAIN A |-> IF x = r.id
               THEN [A[r.id] EXCEPT !.events = @ \cup {[kind |-> r.kind, at |-> r.at]}] ELSE A[x]]
    BY <1>4
  <2> HIDE DEF C
  <2> QED
    BY <1>4, <1>5, <1>6, <1>7, <2>1
<1>8. ASSUME r.id \notin DOMAIN A PROVE B = A
  BY <1>4, <1>5, <1>8
<1>9. B = IF r.id \in DOMAIN A THEN C ELSE A
  BY <1>7, <1>8
<1>10. B = EventAdded(A, r)
  BY <1>9 DEF EventAdded
<1> QED
  BY <1>10 DEF P, Q, A, B, Said

LEMMA TombMore ==
    ASSUME NEW S, NEW p, NEW q, NEW id, TombMade(p, q, id)
    PROVE  Said(S, q) = Restrict(Said(S, p), DOMAIN Said(S, p) \ {id})
<1> DEFINE P == S \cup {p}
           Q == S \cup {q}
           A == Answers(P)
           B == Answers(Q)
<1>1. Held(Q) = Held(P) /\ Noted(Q) = Noted(P) /\ Dead(Q) = Dead(P) \cup {id}
  <2>1. /\ Held(Q) = Held(S) \cup q.entries /\ Noted(Q) = Noted(S) \cup q.events
        /\ Dead(Q) = Dead(S) \cup q.tombs
    BY PartsMore
  <2>2. /\ Held(P) = Held(S) \cup p.entries /\ Noted(P) = Noted(S) \cup p.events
        /\ Dead(P) = Dead(S) \cup p.tombs
    BY PartsMore
  <2> HIDE DEF P, Q
  <2> QED
    BY <2>1, <2>2 DEF TombMade
<1>2. A = [x \in IdsIn(Held(P)) \ Dead(P) |-> Answer(Of(Held(P), x), Of(Noted(P), x))]
  BY DEF Answers
<1>3. B = [x \in IdsIn(Held(Q)) \ Dead(Q) |-> Answer(Of(Held(Q), x), Of(Noted(Q), x))]
  BY DEF Answers
<1> HIDE DEF P, Q, A, B
<1>4. DOMAIN B = DOMAIN A \ {id} /\ B = [x \in DOMAIN A \ {id} |-> A[x]]
  BY <1>1, <1>2, <1>3
<1>5. B = Restrict(A, DOMAIN A \ {id})
  BY <1>4 DEF Restrict
<1> QED
  BY <1>5 DEF P, Q, A, B, Said

---------------------------------------------------------------------------
(* A log's records, one after the other. *)

LEMMA RangeMore ==
    ASSUME NEW S, NEW f \in Seq(S), NEW n \in Nat, n + 1 <= Len(f)
    PROVE  Range(First(f, n + 1)) = Range(First(f, n)) \cup {f[n + 1]}
<1>1. Len(f) \in Nat /\ n \in 0 .. Len(f) /\ n + 1 \in 0 .. Len(f)
  BY LenProperties
<1>2. /\ Range(First(f, n)) = {f[i] : i \in 1 .. n}
      /\ Range(First(f, n + 1)) = {f[i] : i \in 1 .. n + 1}
  <2>1. 1 \in 1 .. Len(f) + 1
    BY <1>1
  <2> QED
    BY <1>1, <2>1, OfSubSeq DEF First
<1>3. 1 .. n + 1 = (1 .. n) \cup {n + 1}
  BY <1>1
<1> QED
  BY <1>2, <1>3

LEMMA PartMore ==
    ASSUME NEW f \in Seq(Rec), NEW n \in Nat, n + 1 <= Len(f)
    PROVE  LET p == PartOf(First(f, n))
               q == PartOf(First(f, n + 1))
               r == f[n + 1]
           IN  /\ r \in Rec
               /\ r.kind = "entry" => EntryMade(p, q, r)
               /\ r.kind \in {"copied", "pasted"} => EventMade(p, q, r)
               /\ r.kind = "delete" => TombMade(p, q, r.id)
<1> DEFINE r == f[n + 1]
           R == Range(First(f, n))
           T == Range(First(f, n + 1))
           p == PartOf(First(f, n))
           q == PartOf(First(f, n + 1))
           C(E) == {Event("copied", e.id, e.at) : e \in E}
<1>1. T = R \cup {r}
  BY RangeMore
<1>2. r \in Rec
  <2>1. n + 1 \in 1 .. Len(f)
    BY LenProperties
  <2> QED
    BY <2>1, ElementOfSeq
<1>3. /\ p.entries = OfKind(R, {"entry"})
      /\ p.events = OfKind(R, {"copied", "pasted"}) \cup C(OfKind(R, {"entry"}))
      /\ p.tombs = IdsIn(OfKind(R, {"delete"}))
  BY DEF PartOf
<1>4. /\ q.entries = OfKind(T, {"entry"})
      /\ q.events = OfKind(T, {"copied", "pasted"}) \cup C(OfKind(T, {"entry"}))
      /\ q.tombs = IdsIn(OfKind(T, {"delete"}))
  BY DEF PartOf
<1> HIDE DEF r, R, T, p, q
<1>5. /\ r.kind = "entry" => /\ OfKind(T, {"entry"}) = OfKind(R, {"entry"}) \cup {r}
                             /\ OfKind(T, {"copied", "pasted"}) = OfKind(R, {"copied", "pasted"})
                             /\ OfKind(T, {"delete"}) = OfKind(R, {"delete"})
      /\ r.kind \in {"copied", "pasted"} =>
                             /\ OfKind(T, {"entry"}) = OfKind(R, {"entry"})
                             /\ OfKind(T, {"copied", "pasted"}) = OfKind(R, {"copied", "pasted"}) \cup {r}
                             /\ OfKind(T, {"delete"}) = OfKind(R, {"delete"})
      /\ r.kind = "delete" => /\ OfKind(T, {"entry"}) = OfKind(R, {"entry"})
                              /\ OfKind(T, {"copied", "pasted"}) = OfKind(R, {"copied", "pasted"})
                              /\ OfKind(T, {"delete"}) = OfKind(R, {"delete"}) \cup {r}
  BY <1>1 DEF OfKind
<1>6. \A E : C(E \cup {r}) = C(E) \cup {Event("copied", r.id, r.at)}
  OBVIOUS
<1>7. \A E : IdsIn(E \cup {r}) = IdsIn(E) \cup {r.id}
  BY DEF IdsIn
<1> HIDE DEF C
<1>8. ASSUME r.kind = "entry"
      PROVE  /\ q.entries = p.entries \cup {r} /\ q.tombs = p.tombs
             /\ q.events = p.events \cup {Event("copied", r.id, r.at)}
  BY <1>3, <1>4, <1>5, <1>6, <1>8
<1>9. ASSUME r.kind \in {"copied", "pasted"}
      PROVE  q.entries = p.entries /\ q.tombs = p.tombs /\ q.events = p.events \cup {r}
  <2>1. q.events = (OfKind(R, {"copied", "pasted"}) \cup {r}) \cup C(OfKind(R, {"entry"}))
    BY <1>4, <1>5, <1>9
  <2> QED
    BY <1>3, <1>4, <1>5, <1>9, <2>1
<1>10. ASSUME r.kind = "delete"
      PROVE  q.entries = p.entries /\ q.events = p.events /\ q.tombs = p.tombs \cup {r.id}
  BY <1>3, <1>4, <1>5, <1>7, <1>10
<1> QED
  BY <1>2, <1>8, <1>9, <1>10 DEF p, q, r, EntryMade, EventMade, TombMade

\* The ids a log's first records know of are ids of theirs.
LEMMA LogIds ==
    ASSUME NEW f \in Seq(Rec), NEW n \in 0 .. Len(f)
    PROVE  AllIds({PartOf(First(f, n))}) \subseteq {f[j].id : j \in 1 .. n}
<1> DEFINE R == Range(First(f, n))
           p == PartOf(First(f, n))
<1>1. R = {f[j] : j \in 1 .. n}
  <2>1. 1 \in 1 .. Len(f) + 1
    BY LenProperties
  <2> QED
    BY <2>1, OfSubSeq DEF First
<1>2. /\ p.entries = OfKind(R, {"entry"})
      /\ p.events = OfKind(R, {"copied", "pasted"})
                       \cup {Event("copied", e.id, e.at) : e \in OfKind(R, {"entry"})}
      /\ p.tombs = IdsIn(OfKind(R, {"delete"}))
  BY DEF PartOf
<1>3. Held({p}) = p.entries /\ Noted({p}) = p.events /\ Dead({p}) = p.tombs
  BY DEF Held, Noted, Dead
<1> HIDE DEF R, p
<1>4. ASSUME NEW x \in AllIds({p}) PROVE \E e \in R : e.id = x
  <2>1. CASE x \in IdsIn(p.entries)
    BY <1>2, <2>1 DEF IdsIn, OfKind
  <2>2. CASE x \in IdsIn(p.events)
    <3>1. PICK e \in p.events : e.id = x
      BY <2>2 DEF IdsIn
    <3>2. CASE e \in OfKind(R, {"copied", "pasted"})
      BY <3>1, <3>2 DEF OfKind
    <3>3. CASE e \notin OfKind(R, {"copied", "pasted"})
      <4>1. PICK g \in OfKind(R, {"entry"}) : e = Event("copied", g.id, g.at)
        BY <1>2, <3>1, <3>3
      <4> QED
        BY <3>1, <4>1 DEF OfKind, Event
    <3> QED
      BY <3>2, <3>3
  <2>3. CASE x \in p.tombs
    BY <1>2, <2>3 DEF IdsIn, OfKind
  <2> QED
    BY <1>3, <1>4, <2>1, <2>2, <2>3 DEF AllIds
<1>5. ASSUME NEW e \in R PROVE e.id \in {f[j].id : j \in 1 .. n}
  BY <1>1, <1>5
<1>6. AllIds({p}) \subseteq {f[j].id : j \in 1 .. n}
  BY <1>4, <1>5
<1> QED
  BY <1>6 DEF p

\* In the order of ids: an entry's is above all before it, and above those of the
\* manifest; any other record is of an entry before it, or of one of those.
Logged(f, base) ==
    \A k \in 1 .. Len(f) :
        IF f[k].kind = "entry"
          THEN base <= f[k].id /\ \A j \in 1 .. k - 1 : f[j].id < f[k].id
          ELSE f[k].id < base \/ \E j \in 1 .. k - 1 : f[j].kind = "entry" /\ f[k].id <= f[j].id

\* The next id after the first n records.
Counted(f, n, base, next) ==
    base <= next /\ (base = next \/ \E j \in 1 .. n : f[j].kind = "entry" /\ f[j].id + 1 = next)

\* An id that is known to have been given.
Covered(f, base, n, id) ==
    id < base \/ \E j \in 1 .. n : f[j].kind = "entry" /\ id <= f[j].id

LEMMA LoggedFirst ==
    ASSUME NEW f \in Seq(Rec), NEW n \in 0 .. Len(f), NEW base, Logged(f, base)
    PROVE  Logged(First(f, n), base)
<1> DEFINE g == First(f, n)
<1>1. Len(f) \in Nat /\ Len(g) = n /\ \A i \in 1 .. n : g[i] = f[i]
  BY FirstOf, LenProperties
<1> HIDE DEF g
<1>2. \A k \in 1 .. n : k \in 1 .. Len(f) /\ \A j \in 1 .. k - 1 : j \in 1 .. n
  BY <1>1
<1>3. Logged(g, base)
  BY <1>1, <1>2 DEF Logged
<1> QED
  BY <1>3 DEF g

LEMMA RecIds == \A r \in Rec : r.id \in Ids /\ r.id \in Nat /\ r.kind \in {"entry", "copied", "pasted", "delete"}
BY StoreAssumption DEF Rec, EntryRec, EventRec, TombRec, Ids

LEMMA LoggedMore ==
    ASSUME NEW f \in Seq(Rec), NEW n \in 0 .. Len(f), NEW r \in Rec, NEW base \in Nat, NEW next \in Nat,
           Logged(f, base), Counted(f, n, base, next), \A j \in 1 .. n : f[j].id < next,
           IF r.kind = "entry" THEN r.id = next ELSE r.id < next
    PROVE  /\ Logged(Append(First(f, n), r), base)
           /\ \A m \in {IF r.kind = "entry" THEN next + 1 ELSE next} :
                 /\ Counted(Append(First(f, n), r), n + 1, base, m)
                 /\ \A j \in 1 .. n + 1 : Append(First(f, n), r)[j].id < m
<1> DEFINE p == First(f, n)
           g == Append(p, r)
           m == IF r.kind = "entry" THEN next + 1 ELSE next
<1>1. Len(f) \in Nat /\ p \in Seq(Rec) /\ Len(p) = n /\ (\A i \in 1 .. n : p[i] = f[i]) /\ n \in Nat
  <2>1. p \in Seq(Rec) /\ Len(p) = n /\ \A i \in 1 .. n : p[i] = f[i]
    BY FirstOf
  <2> HIDE DEF p
  <2> QED
    BY <2>1, LenProperties
<1>2. Logged(p, base)
  BY LoggedFirst
<1>3. g \in Seq(Rec) /\ Len(g) = n + 1 /\ g[n + 1] = r /\ \A i \in 1 .. n : g[i] = p[i]
  BY <1>1, AppendProperties
<1>4. \A i \in 1 .. n : f[i].id \in Nat
  BY <1>1, RecIds, ElementOfSeq
<1>5. r.id \in Nat
  BY RecIds
<1> HIDE DEF g, p
<1>6. ASSUME NEW k \in 1 .. n
      PROVE  IF g[k].kind = "entry"
               THEN base <= g[k].id /\ \A j \in 1 .. k - 1 : g[j].id < g[k].id
               ELSE g[k].id < base \/ \E j \in 1 .. k - 1 : g[j].kind = "entry" /\ g[k].id <= g[j].id
  <2>1. /\ g[k] = p[k] /\ \A j \in 1 .. k - 1 : g[j] = p[j]
    BY <1>1, <1>3
  <2>2. IF p[k].kind = "entry"
          THEN base <= p[k].id /\ \A j \in 1 .. k - 1 : p[j].id < p[k].id
          ELSE p[k].id < base \/ \E j \in 1 .. k - 1 : p[j].kind = "entry" /\ p[k].id <= p[j].id
    BY <1>1, <1>2 DEF Logged
  <2> QED
    BY ONLY <2>1, <2>2
<1>7. ASSUME r.kind = "entry" PROVE base <= r.id /\ \A j \in 1 .. n : g[j].id < r.id
  BY <1>1, <1>3, <1>7 DEF Counted
<1>8. ASSUME r.kind # "entry"
      PROVE  r.id < base \/ \E j \in 1 .. n : g[j].kind = "entry" /\ r.id <= g[j].id
  <2>1. CASE base = next
    BY <1>8, <2>1
  <2>2. CASE base # next
    <3>1. PICK j \in 1 .. n : f[j].kind = "entry" /\ f[j].id + 1 = next
      BY <2>2 DEF Counted
    <3>2. r.id <= f[j].id
      BY <1>4, <1>5, <1>8, <3>1
    <3> QED
      BY <1>1, <1>3, <3>1, <3>2
  <2> QED
    BY <2>1, <2>2
<1>9. Logged(g, base)
  <2>1. \A k \in 1 .. n + 1 : k \in 1 .. n \/ k = n + 1
    BY <1>1
  <2>2. n + 1 - 1 = n
    BY <1>1
  <2> QED
    BY <1>3, <1>6, <1>7, <1>8, <2>1, <2>2 DEF Logged
<1>10. \A j \in 1 .. n + 1 : j \in 1 .. n \/ j = n + 1
  BY <1>1
<1>11. Counted(g, n + 1, base, m)
  <2>1. CASE r.kind = "entry"
    <3>1. n + 1 \in 1 .. n + 1 /\ g[n + 1].kind = "entry" /\ g[n + 1].id + 1 = m /\ base <= m
      BY <1>1, <1>3, <2>1 DEF Counted
    <3> QED
      BY <3>1 DEF Counted
  <2>2. CASE r.kind # "entry"
    <3>1. \A j \in 1 .. n : j \in 1 .. n + 1 /\ g[j] = f[j]
      BY <1>1, <1>3
    <3> QED
      BY <2>2, <3>1 DEF Counted
  <2> QED
    BY <2>1, <2>2
<1>12. \A j \in 1 .. n + 1 : g[j].id < m
  BY <1>1, <1>3, <1>4, <1>5, <1>10
<1> QED
  BY <1>9, <1>11, <1>12 DEF g, p

---------------------------------------------------------------------------
(* One record more is one operation of the promise, or none. *)

LEMMA BothIds ==
    ASSUME NEW P, NEW Q
    PROVE  AllIds(P \cup Q) = AllIds(P) \cup AllIds(Q)
<1>1. /\ Held(P \cup Q) = Held(P) \cup Held(Q) /\ Noted(P \cup Q) = Noted(P) \cup Noted(Q)
      /\ Dead(P \cup Q) = Dead(P) \cup Dead(Q)
  BY DEF Held, Noted, Dead
<1>2. \A X, Y : IdsIn(X \cup Y) = IdsIn(X) \cup IdsIn(Y)
  BY DEF IdsIn
<1>3. /\ IdsIn(Held(P \cup Q)) = IdsIn(Held(P)) \cup IdsIn(Held(Q))
      /\ IdsIn(Noted(P \cup Q)) = IdsIn(Noted(P)) \cup IdsIn(Noted(Q))
  BY <1>1, <1>2
<1> QED
  BY <1>1, <1>3 DEF AllIds

LEMMA RecordMore ==
    ASSUME NEW S, NEW f \in Seq(Rec), NEW k \in Nat, k + 1 <= Len(f), NEW base \in Nat,
           \A id \in AllIds(S) : id < base, Logged(f, base),
           shown = Said(S, PartOf(First(f, k))),
           shown' = Said(S, PartOf(First(f, k + 1))),
           given' = given \cup DOMAIN shown', DOMAIN shown \subseteq given, given \subseteq Ids,
           \A id \in given : Covered(f, base, k, id)
    PROVE  Promise!Operation \/ UNCHANGED <<shown, given>>
<1> DEFINE p == PartOf(First(f, k))
           q == PartOf(First(f, k + 1))
           r == f[k + 1]
           A == Said(S, p)
           B == Said(S, q)
<1>1. Len(f) \in Nat /\ k \in 0 .. Len(f) /\ k + 1 \in 1 .. Len(f) /\ k + 1 - 1 = k
  BY LenProperties
<1>2. r \in Rec /\ r.id \in Ids /\ r.id \in Nat /\ r.kind \in {"entry", "copied", "pasted", "delete"}
  BY PartMore, RecIds
<1>3. shown = A /\ shown' = B
  OBVIOUS
<1>4. ASSUME r.kind = "entry" PROVE Promise!Operation
  <2>1. base <= r.id /\ \A j \in 1 .. k : f[j].id < r.id
    BY <1>1, <1>4 DEF Logged
  <2>2. \A j \in 1 .. k : f[j].id \in Nat
    <3>1. \A j \in 1 .. k : j \in 1 .. Len(f)
      BY <1>1
    <3> QED
      BY <3>1, ElementOfSeq, RecIds
  <2>3. ASSUME NEW old \in given PROVE old < r.id
    <3>1. old \in Nat
      BY DEF Ids
    <3>2. CASE old < base
      BY <1>2, <2>1, <3>1, <3>2
    <3>3. CASE \E j \in 1 .. k : f[j].kind = "entry" /\ old <= f[j].id
      BY <1>2, <2>1, <2>2, <3>1, <3>3
    <3> QED
      BY <3>2, <3>3 DEF Covered
  <2>4. r.id \notin Known(S, p)
    <3>1. r.id \notin AllIds(S)
      BY <1>2, <2>1
    <3>2. r.id \notin AllIds({p})
      <4>1. AllIds({p}) \subseteq {f[j].id : j \in 1 .. k}
        BY <1>1, LogIds
      <4>2. \A j \in 1 .. k : f[j].id # r.id
        BY <1>2, <2>1, <2>2
      <4> HIDE DEF p, r
      <4> QED
        BY <4>1, <4>2
    <3> QED
      BY <3>1, <3>2, BothIds DEF Known
  <2>5. EntryMade(p, q, r)
    BY <1>4, PartMore
  <2> HIDE DEF p, q, r
  <2>6. B = EntryAdded(A, r)
    BY <2>4, <2>5, EntryMore
  <2> HIDE DEF A, B
  <2>10. shown' = EntryAdded(shown, r)
    BY <1>3, <2>6
  <2>7. given' = given \cup {r.id}
    <3>1. DOMAIN shown' = DOMAIN shown \cup {r.id}
      BY <2>10 DEF EntryAdded
    <3> QED
      BY <3>1
  <2>8. r.contents \in Contents /\ r.at \in Stamps
    BY <1>2, <1>4 DEF Rec, EntryRec, EventRec, TombRec
  <2>9. Promise!Add(r.id, r.contents, r.at)
    BY ONLY <2>3, <2>7, <2>10 DEF Promise!Add, EntryAdded
  <2> QED
    BY <1>2, <2>8, <2>9 DEF Promise!Operation, Ids
<1>5. ASSUME r.kind # "entry", DOMAIN shown' \subseteq DOMAIN shown PROVE given' = given
  BY <1>5
<1>6. ASSUME r.kind \in {"copied", "pasted"} PROVE Promise!Operation \/ UNCHANGED <<shown, given>>
  <2>1. EventMade(p, q, r)
    BY <1>6, PartMore
  <2> HIDE DEF p, q, r
  <2>2. B = EventAdded(A, r)
    BY <2>1, EventMore
  <2> HIDE DEF A, B
  <2>3. CASE r.id \notin DOMAIN shown
    <3>1. shown' = shown
      BY <1>3, <2>2, <2>3 DEF EventAdded
    <3> QED
      BY <1>5, <1>6, <3>1
  <2>4. CASE r.id \in DOMAIN shown
    <3>1. shown' = [shown EXCEPT ![r.id].events = @ \cup {[kind |-> r.kind, at |-> r.at]}]
      BY <1>3, <2>2, <2>4 DEF EventAdded
    <3>2. given' = given
      <4>1. DOMAIN shown' = DOMAIN shown
        BY <3>1
      <4> QED
        BY <1>5, <1>6, <4>1
    <3>3. r.at \in Stamps
      BY <1>2, <1>6 DEF Rec, EntryRec, EventRec, TombRec
    <3>4. Promise!Note(r.id, r.kind, r.at)
      BY <2>4, <3>1, <3>2 DEF Promise!Note
    <3> QED
      BY <1>2, <1>6, <3>3, <3>4 DEF Promise!Operation, Ids
  <2> QED
    BY <2>3, <2>4
<1>7. ASSUME r.kind = "delete" PROVE Promise!Operation \/ UNCHANGED <<shown, given>>
  <2>1. TombMade(p, q, r.id)
    BY <1>7, PartMore
  <2> HIDE DEF p, q, r
  <2>2. B = Restrict(A, DOMAIN A \ {r.id})
    BY <2>1, TombMore
  <2>3. A = [x \in DOMAIN A |-> A[x]]
    BY DEF Said, Answers
  <2> HIDE DEF A, B
  <2>4. DOMAIN B = DOMAIN A \ {r.id} /\ B = [x \in DOMAIN A \ {r.id} |-> A[x]]
    BY <2>2 DEF Restrict
  <2>5. given' = given
    BY <1>3, <1>5, <1>7, <2>4
  <2>6. CASE r.id \notin DOMAIN shown
    <3>1. DOMAIN A \ {r.id} = DOMAIN A
      BY <1>3, <2>6
    <3>2. B = A
      BY <2>3, <2>4, <3>1
    <3> QED
      BY <1>3, <2>5, <3>2
  <2>7. CASE r.id \in DOMAIN shown
    <3>1. Promise!Delete(r.id)
      <4>1. shown' = Restrict(shown, DOMAIN shown \ {r.id})
        BY <1>3, <2>2
      <4> QED
        BY <2>5, <2>7, <4>1 DEF Promise!Delete, Promise!Restrict, Restrict
    <3> QED
      BY <1>2, <3>1 DEF Promise!Operation, Ids
  <2> QED
    BY <2>6, <2>7
<1> QED
  BY <1>2, <1>4, <1>6, <1>7

---------------------------------------------------------------------------
(* What the promise rests on. *)

SegsOf(d) == {d.segs[i] : i \in Range(d.man.segments)}
FramesOf(d) == logs[d.man.active].frames
Sure(n) == Min({logs[n].safe, logs[n].accepted})

\* A log has one record at most that was not taken; a log that is sealed lasts
\* as the process mirrors it, and one that was is empty.  No process, no call.
Sized ==
    /\ \A n \in DOMAIN logs : Len(logs[n].frames) <= logs[n].accepted + 1
    /\ pc \in {"newlog", "manifest", "sealed"} => mem.len <= logs[mem.active].safe
    /\ pc \in {"tiers", "compact", "merge", "mergeman", "merged"} => mem.len = 0
    /\ pc = "closed" => call = NoCall

\* The ids of a directory's history: below the manifest's next those of its
\* segments, from there on, in their order, those of its log.
PastOrder ==
    \A d \in past :
        /\ \A id \in AllIds(SegsOf(d)) : id < d.man.nextId
        /\ Logged(FramesOf(d), d.man.nextId)
        /\ d.man.nextFile <= dir.man.nextFile
        /\ \A e \in past : e.man.active = d.man.active => e.man.nextId = d.man.nextId

\* The records a call has still to write fit the log's.
Fits(todo, next) ==
    \A i \in 1 .. Len(todo) :
        IF todo[i].kind = "entry"
          THEN i = 1 /\ todo[i].id = next
          ELSE todo[i].id < next \/ (todo[1].kind = "entry" /\ todo[i].id <= next)

\* The process numbers files as the manifest does, or, after a manifest whose
\* directory's sync failed, its next segment is one the manifest names.
InStep ==
    /\ dir.man.nextFile = mem.nextFile /\ dir.man.active = mem.active
    /\ dir.man.segments = mem.segments
OutOfStep ==
    /\ pc \notin {"newlog", "manifest", "mergeman"}
    /\ mem.nextFile \in Range(dir.man.segments) /\ mem.nextFile < dir.man.nextFile

MemOrder ==
    pc # "closed" =>
        /\ \A id \in AllIds(Segs) : id < mem.nextId
        /\ \A j \in 1 .. mem.len : logs[mem.active].frames[j].id < mem.nextId
        /\ \A d \in past : d.man.active = mem.active =>
              Counted(logs[mem.active].frames, mem.len, d.man.nextId, mem.nextId)
        /\ Fits(call.todo, mem.nextId)
        /\ pc = "sync" => logs[mem.active].frames[mem.len + 1] = Head(call.todo)
        /\ InStep \/ OutOfStep

\* Every id given is one that any directory knows was given.
GivenFits ==
    \A d \in past : \A id \in given :
        Covered(FramesOf(d), d.man.nextId, Sure(d.man.active), id)

---------------------------------------------------------------------------
(* What lasts of a directory. *)

LEMMA SameFirst ==
    ASSUME NEW S, NEW f \in Seq(S), NEW g \in Seq(S), NEW k \in Nat, k <= Len(f), k <= Len(g),
           \A i \in 1 .. k : f[i] = g[i]
    PROVE  First(f, k) = First(g, k)
<1>1. k \in 0 .. Len(f) /\ k \in 0 .. Len(g)
  BY LenProperties
<1>2. /\ First(f, k) \in Seq(S) /\ Len(First(f, k)) = k /\ \A i \in 1 .. k : First(f, k)[i] = f[i]
      /\ First(g, k) \in Seq(S) /\ Len(First(g, k)) = k /\ \A i \in 1 .. k : First(g, k)[i] = g[i]
  BY <1>1, FirstOf
<1>3. \A i \in 1 .. Len(First(f, k)) : First(f, k)[i] = First(g, k)[i]
  BY <1>2
<1> QED
  BY <1>2, <1>3, SeqEqual

LogFacts ==
    \A n \in DOMAIN logs :
        LET log == logs[n]
        IN  /\ log.frames \in Seq(Rec) /\ Len(log.frames) \in Nat
            /\ log.safe \in Nat /\ log.safe <= Len(log.frames)
            /\ log.accepted \in Nat /\ log.accepted <= Len(log.frames)
            /\ Sure(n) = IF log.safe <= log.accepted THEN log.safe ELSE log.accepted
LEMMA LogsAre == Plain => LogFacts
<1> SUFFICES ASSUME Plain, NEW n \in DOMAIN logs
             PROVE  LET log == logs[n]
                    IN  /\ log.frames \in Seq(Rec) /\ Len(log.frames) \in Nat
                        /\ log.safe \in Nat /\ log.safe <= Len(log.frames)
                        /\ log.accepted \in Nat /\ log.accepted <= Len(log.frames)
                        /\ Sure(n) = IF log.safe <= log.accepted THEN log.safe ELSE log.accepted
  BY DEF LogFacts
<1> DEFINE log == logs[n]
<1>1. log \in LogType
  BY LogOf DEF Plain
<1>2. /\ log.frames \in Seq(Rec) /\ log.safe \in Nat /\ log.safe <= Len(log.frames)
      /\ log.accepted \in Nat /\ log.accepted <= Len(log.frames)
  BY <1>1 DEF LogType
<1>3. Len(log.frames) \in Nat
  BY <1>2, LenProperties
<1>4. Sure(n) = Min({log.safe, log.accepted})
  BY DEF Sure
<1>5. Min({log.safe, log.accepted}) = IF log.safe <= log.accepted THEN log.safe ELSE log.accepted
  BY <1>2, MinOfTwo
<1> QED
  BY <1>2, <1>3, <1>4, <1>5

\* What lasts of a directory that has a history.
SaidOf == \A d \in past : Lasting(d) = Said(SegsOf(d), PartOf(First(FramesOf(d), Sure(d.man.active))))
LEMMA LastingSays == Made => SaidOf
<1> SUFFICES ASSUME Made, NEW d \in past
             PROVE  Lasting(d) = Said(SegsOf(d), PartOf(First(FramesOf(d), Sure(d.man.active))))
  BY DEF SaidOf
<1>1. d.man # NoMan
  BY DEF Made, Past, Numbered, NoMan
<1> QED
  BY <1>1 DEF Lasting, Said, SegsOf, FramesOf, Sure, Parts

\* While all is sure, whichever directory comes back, the same lasts.
AllAlike == ~unsure => \A d \in past : Lasting(d) = Lasting(synced)
LEMMA Alike == Plain /\ Made /\ Sized => AllAlike
<1> SUFFICES ASSUME Plain, Made, Sized, ~unsure PROVE \A d \in past : Lasting(d) = Lasting(synced)
  BY DEF AllAlike
<1>1. SaidOf
  BY LastingSays
<1>2. synced \in past /\ dir \in past
  BY DEF Plain
<1>3. CASE pc = "closed"
  <2>1. \A d \in past : Agree(d, dir.man)
    BY <1>3 DEF Made, Agreed
  <2>2. \A d \in past : SegsOf(d) = SegsOf(dir) /\ d.man.active = dir.man.active
    BY <2>1 DEF Agree, SegsOf
  <2> QED
    BY <1>1, <1>2, <2>2 DEF SaidOf, FramesOf
<1>4. ASSUME NEW d \in past, Agree(d, mem)
      PROVE  Lasting(d) = Said(Segs, PartOf(First(logs[mem.active].frames, Sure(mem.active))))
  <2>1. SegsOf(d) = Segs /\ d.man.active = mem.active
    BY <1>4 DEF Agree, SegsOf, Segs
  <2> QED
    BY <1>1, <2>1 DEF SaidOf, FramesOf
<1>5. CASE pc \notin {"closed", "sealed", "merged"}
  <2>1. \A d \in past : Agree(d, mem)
    BY <1>5 DEF Made, Agreed
  <2> QED
    BY <1>2, <1>4, <2>1
<1>6. CASE pc \in {"sealed", "merged"}
  <2>1. /\ mem.active \in DOMAIN logs /\ logs[mem.active].accepted = mem.len /\ mem.len \in Nat
        /\ mem.len <= logs[mem.active].safe
    <3>1. mem.active \in DOMAIN logs /\ logs[mem.active].accepted = mem.len /\ mem.len \in Nat
      BY <1>6, MemParts DEF Made, Process
    <3>2. logs[mem.active].safe \in Nat
      BY <3>1, LogsAre DEF LogFacts
    <3> QED
      BY <1>6, <3>1, <3>2 DEF Sized
  <2>2. Sure(mem.active) = mem.len
    BY <2>1, LogsAre DEF LogFacts
  <2>3. \A d \in past : Agree(d, mem) => Lasting(d) = Mirror
    BY <1>4, <2>2 DEF Mirror, Mine, Log, Said
  <2>4. Lasting(dir) = Mirror
    <3>1. dir.man.active \in DOMAIN logs
      BY <1>2 DEF Made, Past
    <3>2. Sure(dir.man.active) = logs[dir.man.active].accepted
      <4>1. CASE pc = "sealed"
        <5>1. dir.man.active = mem.nextFile + 1 /\ MadeLog
          BY <4>1 DEF Made, Stage, Manifest
        <5>2. logs[dir.man.active].accepted = 0
          BY <5>1, EmptyLogType DEF MadeLog
        <5> QED
          BY <3>1, <5>2, LogsAre DEF LogFacts
      <4>2. CASE pc = "merged"
        <5>1. dir.man.active = mem.active
          BY <4>2 DEF Made, Stage, Manifest
        <5> QED
          BY <2>1, <2>2, <5>1
      <4> QED
        BY <1>6, <4>1, <4>2
    <3>3. Mirror = Answers(Parts(dir.man, dir, logs[dir.man.active].accepted))
      BY <1>6, AfterSeal, AfterMerged
    <3> QED
      BY <1>1, <1>2, <3>2, <3>3 DEF SaidOf, Said, SegsOf, FramesOf, Parts
  <2>5. \A d \in past : Lasting(d) = Mirror
    BY <1>6, <2>3, <2>4 DEF Made, Agreed
  <2> QED
    BY <1>2, <2>5
<1> QED
  BY <1>3, <1>5, <1>6 DEF Plain

\* An id that lasts is one that is known to have been given.
ShownFits ==
    \A d \in past : \A id \in DOMAIN Lasting(d) :
        Covered(FramesOf(d), d.man.nextId, Sure(d.man.active), id)
LEMMA LastingFits == Plain /\ Made /\ PastOrder => ShownFits
<1> SUFFICES ASSUME Plain, Made, PastOrder, NEW d \in past, NEW id \in DOMAIN Lasting(d)
             PROVE  Covered(FramesOf(d), d.man.nextId, Sure(d.man.active), id)
  BY DEF ShownFits
<1> DEFINE n == Sure(d.man.active)
           f == FramesOf(d)
           p == PartOf(First(f, n))
           S == SegsOf(d)
<1>1. Lasting(d) = Said(S, p)
  BY LastingSays DEF SaidOf
<1>2. f \in Seq(Rec) /\ n \in 0 .. Len(f)
  BY LogsAre DEF LogFacts, Made, Past, FramesOf
<1>3. p.entries = OfKind(Range(First(f, n)), {"entry"})
  BY DEF PartOf
<1>4. Range(First(f, n)) = {f[j] : j \in 1 .. n}
  <2>1. 1 \in 1 .. Len(f) + 1
    BY <1>2, LenProperties
  <2> HIDE DEF n, f
  <2> QED
    BY <1>2, <2>1, OfSubSeq DEF First
<1> HIDE DEF n, f, p, S
<1>5. DOMAIN Said(S, p) \subseteq IdsIn(Held(S \cup {p}))
  BY DEF Said, Answers
<1>6. PICK e \in Held(S \cup {p}) : e.id = id
  BY <1>1, <1>5 DEF IdsIn
<1>7. CASE e \in Held(S)
  <2>1. id \in AllIds(S)
    BY <1>6, <1>7 DEF AllIds, IdsIn
  <2>2. id < d.man.nextId
    BY <2>1 DEF PastOrder, S
  <2> QED
    BY <2>2 DEF Covered
<1>8. CASE e \in p.entries
  <2>1. PICK j \in 1 .. n : e = f[j] /\ f[j].kind = "entry"
    BY <1>3, <1>4, <1>8 DEF OfKind
  <2>2. id \in Nat
    <3>1. f[j] \in Rec
      BY <1>2, ElementOfSeq, LenProperties
    <3> QED
      BY <1>6, <2>1, <3>1, RecIds
  <2>3. f[j].kind = "entry" /\ id <= f[j].id
    BY <1>6, <2>1, <2>2
  <2>4. Covered(f, d.man.nextId, n, id)
    BY <2>3 DEF Covered
  <2> QED
    BY <2>4 DEF n, f
<1> QED
  BY <1>6, <1>7, <1>8 DEF Held

---------------------------------------------------------------------------
(* The records of a call fit the log. *)

\* All that the process answers from knows of ids below the next.
MineFits == pc # "closed" => (\A id \in AllIds(Mine) : id < mem.nextId)
LEMMA MineIds == Plain /\ Made /\ MemOrder => MineFits
<1> SUFFICES ASSUME Plain, Made, MemOrder, pc # "closed", NEW id \in AllIds(Mine)
             PROVE  id < mem.nextId
  BY DEF MineFits
<1>1. AllIds(Mine) = AllIds(Segs) \cup AllIds({Log})
  BY BothIds DEF Mine
<1>2. CASE id \in AllIds(Segs)
  BY <1>2 DEF MemOrder
<1>3. CASE id \in AllIds({Log})
  <2> DEFINE f == logs[mem.active].frames
  <2>1. f \in Seq(Rec) /\ mem.len \in 0 .. Len(f)
    BY ActiveLog DEF Made
  <2>2. AllIds({Log}) \subseteq {f[j].id : j \in 1 .. mem.len}
    BY <2>1, LogIds DEF Log
  <2>3. \A j \in 1 .. mem.len : f[j].id < mem.nextId
    BY DEF MemOrder
  <2> HIDE DEF f
  <2> QED
    BY <1>3, <2>2, <2>3
<1> QED
  BY <1>1, <1>2, <1>3

\* Its entries' ids are, as ids were never given twice or not.
HeldBelow == pc # "closed" => (\A e \in Held(Mine) : e.id < mem.nextId)
LEMMA MineBelow == MineFits => HeldBelow
BY DEF MineFits, HeldBelow, AllIds, IdsIn

LEMMA MirrorIds ==
    ASSUME Plain, Made, HeldBelow, pc # "closed", NEW id \in DOMAIN Mirror
    PROVE  id \in Ids /\ id < mem.nextId
<1>1. Mine \subseteq PartType /\ Mirror = Answers(Mine)
  BY MineType DEF Made, Mirror
<1>2. id \in Ids
  BY <1>1, AnswersType
<1>3. id \in IdsIn(Held(Mine))
  BY <1>1 DEF Answers
<1> QED
  BY <1>2, <1>3 DEF HeldBelow, IdsIn

\* A record that may follow an entry's with the next id.
Later(next) == {r \in Rec : r.kind # "entry" /\ r.id <= next}

LEMMA FitsMore ==
    ASSUME NEW next, NEW s \in Seq(Rec), NEW t \in Seq(Later(next)), s # <<>>, s[1].kind = "entry",
           Fits(s, next)
    PROVE  LET u == s \o t IN u \in Seq(Rec) /\ u # <<>> /\ u[1].kind = "entry" /\ Fits(u, next)
<1> DEFINE u == s \o t
<1>1. Len(s) \in Nat /\ Len(t) \in Nat /\ 1 <= Len(s)
  BY EmptySeq, LenProperties
<1>2. Later(next) \subseteq Rec
  BY DEF Later
<1>3. t \in Seq(Rec)
  <2>1. Range(t) \subseteq Rec
    BY <1>2, OfRange
  <2> QED
    BY <2>1, OfRange
<1>4. /\ u \in Seq(Rec) /\ Len(u) = Len(s) + Len(t)
      /\ \A i \in 1 .. Len(s) + Len(t) : u[i] = IF i <= Len(s) THEN s[i] ELSE t[i - Len(s)]
  BY <1>3, ConcatProperties
<1>5. \A i \in 1 .. Len(t) : t[i].kind # "entry" /\ t[i].id <= next
  BY ElementOfSeq DEF Later
<1> HIDE DEF u
<1>6. \A i \in 1 .. Len(u) : \/ i \in 1 .. Len(s) /\ u[i] = s[i]
                             \/ \E k \in 1 .. Len(t) : u[i] = t[k]
  <2> SUFFICES ASSUME NEW i \in 1 .. Len(s) + Len(t), i > Len(s) PROVE \E k \in 1 .. Len(t) : u[i] = t[k]
    BY <1>1, <1>4
  <2>1. i - Len(s) \in 1 .. Len(t) /\ u[i] = t[i - Len(s)]
    BY <1>1, <1>4
  <2> QED
    BY <2>1
<1>7. u[1] = s[1] /\ u # <<>>
  <2>1. Len(u) # 0 /\ 1 \in 1 .. Len(s) + Len(t)
    BY <1>1, <1>4
  <2> QED
    BY <1>1, <1>4, <2>1, EmptySeq
<1>8. Fits(u, next)
  BY <1>5, <1>6, <1>7 DEF Fits
<1> QED
  BY <1>4, <1>7, <1>8 DEF u

LEMMA FitsOne ==
    ASSUME NEW next, NEW r \in Rec, IF r.kind = "entry" THEN r.id = next ELSE r.id < next
    PROVE  <<r>> \in Seq(Rec) /\ <<r>> # <<>> /\ <<r>>[1] = r /\ Fits(<<r>>, next)
<1>1. Len(<<r>>) = 1 /\ <<r>>[1] = r /\ <<r>> \in Seq(Rec) /\ <<r>> # <<>>
  OBVIOUS
<1>2. \A i \in 1 .. 1 : i = 1
  OBVIOUS
<1> QED
  BY <1>1, <1>2 DEF Fits

LEMMA FitsEvents ==
    ASSUME NEW next, NEW s \in Seq(Rec), \A i \in 1 .. Len(s) : s[i].kind # "entry" /\ s[i].id < next
    PROVE  Fits(s, next)
BY DEF Fits

\* The record that a copy appends.
LEMMA FirstRecordFits ==
    ASSUME Plain, Made, HeldBelow, pc = "idle", calls < MaxCalls, NEW c \in Contents,
           NEW ms \in 0 .. MaxMs, mem.nextId \in Ids
    PROVE  LET r == FirstRecord(c, ms)
           IN  /\ r \in Rec /\ (r.kind = "entry" <=> Twins(c) = {})
               /\ IF r.kind = "entry" THEN r.id = mem.nextId ELSE r.id < mem.nextId
<1>1. FirstRecord(c, ms) \in Rec
  <2>1. Mine \subseteq PartType /\ Mirror = Answers(Mine) /\ calls \in Counts
    BY MineType DEF Made, Mirror, Plain
  <2> QED
    BY <2>1, FirstRecordType
<1>2. CASE Twins(c) = {}
  BY <1>1, <1>2 DEF FirstRecord, Entry
<1>3. CASE Twins(c) # {}
  <2>1. \A x \in Twins(c) : x \in Ids /\ x < mem.nextId
    BY MirrorIds DEF Twins
  <2>2. Max(Twins(c)) \in Twins(c)
    <3>1. MaxId \in Nat
      BY StoreAssumption
    <3>2. Twins(c) \subseteq Nat /\ \A y \in Twins(c) : y <= MaxId
      BY <2>1, <3>1 DEF Ids
    <3> QED
      BY <1>3, <3>1, <3>2, MaxIn
  <2>3. FirstRecord(c, ms) = Event("copied", Max(Twins(c)), Stamp(ms, 0))
    BY <1>3 DEF FirstRecord
  <2>4. FirstRecord(c, ms).kind = "copied" /\ FirstRecord(c, ms).id = Max(Twins(c))
    BY <2>3 DEF Event
  <2> QED
    BY <1>1, <1>3, <2>1, <2>2, <2>4
<1> QED
  BY <1>2, <1>3

LEMMA ReplacementFits ==
    ASSUME Plain, Made, HeldBelow, pc = "idle", NEW id \in DOMAIN Mirror, NEW c \in Contents,
           mem.nextId \in Ids
    PROVE  Fits(Replacement(id, c), mem.nextId)
<1> DEFINE next == mem.nextId
<1>1. Mine \subseteq PartType
  BY MineType DEF Made
<1>2. PICK at \in Stamps, t1 \in Seq(Notes(next)), t2 \in Seq(Notes(next)) :
         Replacement(id, c) = <<Entry(next, c, at)>> \o t1 \o t2 \o <<Tombstone(id)>>
  BY <1>1, ReplacementIs
<1>3. id \in Ids
  BY <1>1, ReplacementIs
<1>4. next \in Nat /\ id \in Nat /\ id < next
  BY MirrorIds DEF Ids
<1>5. Notes(next) \subseteq Later(next)
  BY <1>4 DEF Notes, Later
<1>6. t1 \in Seq(Later(next)) /\ t2 \in Seq(Later(next))
  BY <1>5
<1> DEFINE first == Entry(next, c, at)
           last == Tombstone(id)
<1>7. first \in Rec /\ first.kind = "entry" /\ first.id = next
  BY <1>2, Records DEF Entry
<1>8. last \in Later(next)
  <2>1. last \in Rec /\ last.kind = "delete" /\ last.id = id
    BY <1>3, Records DEF Tombstone
  <2> HIDE DEF last
  <2> QED
    BY <1>4, <2>1 DEF Later
<1> DEFINE s1 == <<first>>
           t3 == <<last>>
<1>11. t3 \in Seq(Later(next))
  BY <1>8
<1>12. s1 \in Seq(Rec) /\ s1 # <<>> /\ s1[1].kind = "entry" /\ Fits(s1, next)
  <2> HIDE DEF first, next
  <2> QED
    BY <1>7, FitsOne
<1> HIDE DEF s1, t3, next, first, last
<1>13. /\ s1 \o t1 \in Seq(Rec) /\ s1 \o t1 # <<>> /\ (s1 \o t1)[1].kind = "entry"
       /\ Fits(s1 \o t1, next)
  BY <1>6, <1>12, FitsMore
<1>14. /\ (s1 \o t1) \o t2 \in Seq(Rec) /\ (s1 \o t1) \o t2 # <<>>
       /\ ((s1 \o t1) \o t2)[1].kind = "entry" /\ Fits((s1 \o t1) \o t2, next)
  BY <1>6, <1>13, FitsMore
<1>15. Fits(((s1 \o t1) \o t2) \o t3, next)
  BY <1>11, <1>14, FitsMore
<1> QED
  BY <1>2, <1>15 DEF s1, t3, first, last, next

LEMMA CallFits ==
    ASSUME Plain, Made, HeldBelow, Call
    PROVE  Fits(call'.todo, mem.nextId)
<1>1. pc = "idle" /\ calls < MaxCalls
  BY DEF Call
<1>2. mem.nextId \in Nat /\ 0 < mem.nextId /\ calls \in Counts
  BY <1>1, MemParts DEF Made, Numbered, Plain
<1>3. mem.nextId <= MaxId => mem.nextId \in Ids
  BY <1>2, StoreAssumption DEF Ids
<1>4. \A todo : Ask(todo) => call'.todo = todo
  BY DEF Ask
<1>5. ASSUME NEW c \in Contents, NEW ms \in 0 .. MaxMs, Copy(c, ms) PROVE Fits(call'.todo, mem.nextId)
  BY <1>1, <1>3, <1>4, <1>5, FirstRecordFits, FitsOne DEF Copy
<1>6. ASSUME NEW c \in Contents, NEW ms \in 0 .. MaxMs, Import(c, ms)
      PROVE  Fits(call'.todo, mem.nextId)
  <2> DEFINE first == FirstRecord(c, ms)
             copy == Event("copied", first.id, Stamp(ms, 1))
             paste == Event("pasted", first.id, Stamp(ms, 0))
  <2>1. /\ first \in Rec /\ (first.kind = "entry" <=> Twins(c) = {})
        /\ IF first.kind = "entry" THEN first.id = mem.nextId ELSE first.id < mem.nextId
    BY <1>1, <1>3, <1>6, FirstRecordFits DEF Import
  <2>2. /\ paste \in Rec /\ paste.kind = "pasted" /\ paste.id = first.id
        /\ copy \in Rec /\ copy.kind = "copied" /\ copy.id = first.id
    <3>1. Stamp(ms, 0) \in Stamps /\ Stamp(ms, 1) \in Stamps
      BY <1>1, <1>2, StampIn
    <3> HIDE DEF first
    <3> QED
      BY <2>1, <3>1, Records, RecIds DEF Event
  <2>3. Ask(IF Twins(c) = {} THEN <<first, paste>> ELSE <<first, copy, paste>>)
    BY <1>6 DEF Import
  <2> HIDE DEF first, copy, paste
  <2>4. CASE Twins(c) = {}
    <3>1. paste \in Later(mem.nextId)
      BY <1>2, <2>1, <2>2, <2>4 DEF Later
    <3>2. <<paste>> \in Seq(Later(mem.nextId)) /\ <<first>> \o <<paste>> = <<first, paste>>
      <4>1. <<paste>> \in Seq(Later(mem.nextId))
        BY ONLY <3>1
      <4>2. <<first>> \o <<paste>> = <<first, paste>>
        <5> DEFINE a == <<first>>
                   b == <<paste>>
                   u == <<first, paste>>
        <5>1. /\ a \in Seq(Rec) /\ Len(a) = 1 /\ a[1] = first
              /\ b \in Seq(Rec) /\ Len(b) = 1 /\ b[1] = paste
              /\ u \in Seq(Rec) /\ Len(u) = 2 /\ u[1] = first /\ u[2] = paste
          BY <2>1, <2>2
        <5> HIDE DEF a, b, u
        <5>2. /\ a \o b \in Seq(Rec) /\ Len(a \o b) = Len(a) + Len(b)
              /\ \A i \in 1 .. Len(a) + Len(b) :
                    (a \o b)[i] = IF i <= Len(a) THEN a[i] ELSE b[i - Len(a)]
          BY <5>1, ConcatProperties
        <5>3. Len(a \o b) = 2 /\ (a \o b)[1] = u[1] /\ (a \o b)[2] = u[2]
          BY <5>1, <5>2
        <5>4. \A i \in 1 .. Len(a \o b) : (a \o b)[i] = u[i]
          BY <5>3
        <5>5. a \o b = u
          BY <5>1, <5>2, <5>3, <5>4, SeqEqual
        <5> QED
          BY <5>5 DEF a, b, u
      <4> QED
        BY ONLY <4>1, <4>2
    <3>3. <<first>> \in Seq(Rec) /\ <<first>> # <<>> /\ <<first>>[1] = first /\ Fits(<<first>>, mem.nextId)
      BY <2>1, FitsOne
    <3>4. Fits(<<first, paste>>, mem.nextId)
      BY <2>1, <2>4, <3>2, <3>3, FitsMore
    <3> QED
      BY <1>4, <2>3, <2>4, <3>4
  <2>5. CASE Twins(c) # {}
    <3> DEFINE s == <<first, copy, paste>>
    <3>1. s \in Seq(Rec) /\ Len(s) = 3 /\ s[1] = first /\ s[2] = copy /\ s[3] = paste
      BY <2>1, <2>2
    <3> HIDE DEF s
    <3>2. \A i \in 1 .. Len(s) : s[i] = first \/ s[i] = copy \/ s[i] = paste
      BY <3>1
    <3>3. Fits(s, mem.nextId)
      BY <2>1, <2>2, <2>5, <3>1, <3>2, FitsEvents
    <3> QED
      BY <1>4, <2>3, <2>5, <3>3 DEF s
  <2> QED
    BY <2>4, <2>5
<1>7. ASSUME NEW id \in DOMAIN Mirror, NEW kind \in {"copied", "pasted"}, NEW ms \in 0 .. MaxMs,
             Record(kind, id, ms)
      PROVE  Fits(call'.todo, mem.nextId)
  <2> DEFINE r == Event(kind, id, Stamp(ms, 0))
  <2>1. r \in Rec /\ r.kind = kind /\ r.id = id /\ id < mem.nextId
    BY <1>1, <1>2, MirrorIds, StampIn, Records DEF Event
  <2>2. call'.todo = <<r>>
    BY <1>4, <1>7 DEF Record
  <2> HIDE DEF r
  <2> QED
    BY <2>1, <2>2, FitsOne
<1>8. ASSUME NEW id \in DOMAIN Mirror, Delete(id) PROVE Fits(call'.todo, mem.nextId)
  <2> DEFINE r == Tombstone(id)
  <2>1. r \in Rec /\ r.kind = "delete" /\ r.id = id /\ id < mem.nextId
    BY <1>1, MirrorIds, Records DEF Tombstone
  <2>2. call'.todo = <<r>>
    BY <1>4, <1>8 DEF Delete
  <2> HIDE DEF r
  <2> QED
    BY <2>1, <2>2, FitsOne
<1>9. ASSUME NEW id \in DOMAIN Mirror, NEW c \in Contents, Replace(id, c)
      PROVE  Fits(call'.todo, mem.nextId)
  BY <1>1, <1>3, <1>4, <1>9, ReplacementFits DEF Replace
<1>10. ASSUME Compact PROVE Fits(call'.todo, mem.nextId)
  <2>1. call'.todo = <<>>
    BY <1>10 DEF Compact
  <2> QED
    BY <2>1, EmptySeq DEF Fits
<1> QED
  BY <1>5, <1>6, <1>7, <1>8, <1>9, <1>10 DEF Call

---------------------------------------------------------------------------
(* What a step does to the logs. *)

\* As much of a log is sure as was, or one record more.
Steadily(n) ==
    Sure(n)' = Sure(n) /\ First(logs'[n].frames, Sure(n)) = First(logs[n].frames, Sure(n))
Gains(n) == logs'[n].frames = logs[n].frames /\ Sure(n)' \in {Sure(n), Sure(n) + 1}

LEMMA Untouched == ASSUME NEW n, logs'[n] = logs[n] PROVE Steadily(n)
BY DEF Steadily, Sure

\* The process's log, of which the records it mirrors stay.
LEMMA LogWithSteady ==
    ASSUME Plain, Made, pc # "closed", NEW frames \in Seq(Rec), NEW n \in Nat,
           mem.len <= n, n <= Len(frames),
           \A i \in 1 .. mem.len : frames[i] = logs[mem.active].frames[i],
           logs' = LogWith(frames, n)
    PROVE  /\ DOMAIN logs' = DOMAIN logs
           /\ \A x \in DOMAIN logs : x # mem.active => logs'[x] = logs[x]
           /\ logs'[mem.active].frames = frames /\ logs'[mem.active].accepted = mem.len
           /\ \A x \in DOMAIN logs : Steadily(x)
<1> PICK a : a = mem.active
  OBVIOUS
<1> DEFINE log == logs[a]
           v == [frames |-> frames, safe |-> Min({log.safe, n}), accepted |-> log.accepted]
<1>1. /\ a \in DOMAIN logs /\ log.accepted = mem.len /\ mem.len \in Nat
      /\ log.frames \in Seq(Rec) /\ Len(log.frames) \in Nat /\ log.safe \in Nat
      /\ log.safe <= Len(log.frames) /\ mem.len <= Len(log.frames)
      /\ Sure(a) = IF log.safe <= mem.len THEN log.safe ELSE mem.len
  <2>1. a \in DOMAIN logs /\ log.accepted = mem.len /\ mem.len \in Nat /\ mem.len <= Len(log.frames)
    BY MemParts DEF Made, Process
  <2> QED
    BY <2>1, LogsAre DEF LogFacts
<1>2. Min({log.safe, n}) \in Nat /\ Min({log.safe, n}) = IF log.safe <= n THEN log.safe ELSE n
  BY <1>1, MinOfTwo
<1>3. logs' = [logs EXCEPT ![a] = v]
  BY DEF LogWith
<1>4. v.frames = frames /\ v.accepted = mem.len /\ v.safe = Min({log.safe, n})
  BY <1>1
<1> HIDE DEF v
<1>5. /\ DOMAIN logs' = DOMAIN logs /\ logs'[a] = v
      /\ \A x \in DOMAIN logs : x # a => logs'[x] = logs[x]
  BY <1>1, <1>3
<1>6. Steadily(a)
  <2>1. /\ Min({v.safe, v.accepted}) = IF v.safe <= mem.len THEN v.safe ELSE mem.len
    BY <1>1, <1>2, <1>4, MinOfTwo
  <2>2. Sure(a)' = Min({v.safe, v.accepted})
    BY <1>5 DEF Sure
  <2>3. Sure(a)' = Sure(a) /\ Sure(a) \in Nat /\ Sure(a) <= mem.len
    BY <1>1, <1>2, <1>4, <2>1, <2>2
  <2>4. First(frames, Sure(a)) = First(log.frames, Sure(a))
    <3>1. /\ Len(frames) \in Nat /\ Sure(a) <= Len(frames) /\ Sure(a) <= Len(log.frames)
      BY <1>1, <2>3, LenProperties
    <3>2. \A i \in 1 .. Sure(a) : frames[i] = log.frames[i]
      BY <1>1, <2>3
    <3>3. Sure(a) \in Nat /\ log.frames \in Seq(Rec)
      BY <1>1, <2>3
    <3> HIDE DEF log
    <3> QED
      BY ONLY <3>1, <3>2, <3>3, frames \in Seq(Rec), SameFirst
  <2> QED
    BY <1>4, <1>5, <2>3, <2>4 DEF Steadily
<1> QED
  BY <1>4, <1>5, <1>6, Untouched

\* The steps that write the process's log, or cut it.
Rewriting(frames, n) ==
    /\ frames \in Seq(Rec) /\ n \in Nat /\ mem.len <= n /\ n <= Len(frames)
    /\ Len(frames) <= mem.len + 1
    /\ \A i \in 1 .. mem.len : frames[i] = logs[mem.active].frames[i]

LEMMA WriteRewrites ==
    ASSUME Plain, Made, pc = "append", call.todo # <<>>
    PROVE  Rewriting(Append(First(logs[mem.active].frames, mem.len), Head(call.todo)), mem.len)
<1> DEFINE f == logs[mem.active].frames
           p == First(f, mem.len)
           r == Head(call.todo)
<1>1. f \in Seq(Rec) /\ mem.len \in 0 .. Len(f) /\ Len(f) \in Nat
  BY ActiveLog, LenProperties DEF Made
<1>2. p \in Seq(Rec) /\ Len(p) = mem.len /\ \A i \in 1 .. mem.len : p[i] = f[i]
  <2> HIDE DEF f
  <2> QED
    BY <1>1, FirstOf
<1>3. r \in Rec
  BY OfTail DEF Plain, CallType
<1> HIDE DEF p, r, f
<1>4. /\ Append(p, r) \in Seq(Rec) /\ Len(Append(p, r)) = mem.len + 1
      /\ \A i \in 1 .. mem.len : Append(p, r)[i] = p[i]
  BY <1>2, <1>3, AppendProperties
<1> QED
  BY <1>1, <1>2, <1>4 DEF Rewriting, f, p, r

LEMMA CutRewrites ==
    ASSUME Plain, Made, Sized, pc # "closed", NEW n \in mem.len .. Len(logs[mem.active].frames)
    PROVE  Rewriting(First(logs[mem.active].frames, n), n)
<1> DEFINE f == logs[mem.active].frames
           p == First(f, n)
<1>1. f \in Seq(Rec) /\ mem.len \in Nat /\ Len(f) \in Nat
  BY ActiveLog, LenProperties DEF Made
<1>2. n \in Nat /\ mem.len <= n /\ n \in 0 .. Len(f)
  BY <1>1
<1>3. p \in Seq(Rec) /\ Len(p) = n /\ \A i \in 1 .. n : p[i] = f[i]
  <2> HIDE DEF f
  <2> QED
    BY <1>1, <1>2, FirstOf
<1>4. Len(f) <= mem.len + 1
  BY ActiveLog DEF Sized, Made, Process
<1> HIDE DEF p, f
<1> QED
  BY <1>1, <1>2, <1>3, <1>4 DEF Rewriting, f, p

LEMMA NewLogLogs ==
    ASSUME Plain, Made, pc # "closed", NEW n, n = mem.nextFile + 1, logs' = With(logs, n, EmptyLog)
    PROVE  /\ DOMAIN logs' = DOMAIN logs \cup {n} /\ logs'[n] = EmptyLog
           /\ \A x \in DOMAIN logs : x # n => logs'[x] = logs[x] /\ Steadily(x)
           /\ mem.active # n
<1>1. /\ DOMAIN logs' = DOMAIN logs \cup {n} /\ logs'[n] = EmptyLog
      /\ \A x \in DOMAIN logs : x # n => logs'[x] = logs[x]
  BY DEF With
<1>2. mem.active # n
  BY MemParts DEF Made
<1> QED
  BY <1>1, <1>2, Untouched

LEMMA WritebackLogs ==
    ASSUME Plain, Writeback
    PROVE  /\ DOMAIN logs' = DOMAIN logs
           /\ \A x \in DOMAIN logs :
                 /\ logs'[x].frames = logs[x].frames /\ logs'[x].accepted = logs[x].accepted
                 /\ logs[x].safe <= logs'[x].safe /\ Gains(x)
<1>1. PICK n \in DOMAIN logs : /\ logs[n].safe < Len(logs[n].frames)
                               /\ logs' = [logs EXCEPT ![n].safe = @ + 1]
  BY DEF Writeback
<1>2. logs \in LogFuns /\ logs[n] \in LogType
  BY LogOf DEF Plain
<1>3. /\ DOMAIN logs' = DOMAIN logs /\ \A x \in DOMAIN logs : x # n => logs'[x] = logs[x]
      /\ logs'[n] = [logs[n] EXCEPT !.safe = @ + 1]
  BY <1>1
<1>4. /\ logs'[n].frames = logs[n].frames /\ logs'[n].accepted = logs[n].accepted
      /\ logs'[n].safe = logs[n].safe + 1
  BY <1>2, <1>3 DEF LogType
<1>5. /\ \A x \in DOMAIN logs : logs[x].safe \in Nat /\ logs[x].accepted \in Nat
                               /\ Sure(x) = IF logs[x].safe <= logs[x].accepted
                                              THEN logs[x].safe ELSE logs[x].accepted
  BY LogsAre DEF LogFacts
<1>6. Sure(n)' = Min({logs[n].safe + 1, logs[n].accepted})
  BY <1>4 DEF Sure
<1>7. Sure(n)' \in {Sure(n), Sure(n) + 1}
  <2>1. Min({logs[n].safe + 1, logs[n].accepted}) =
          IF logs[n].safe + 1 <= logs[n].accepted THEN logs[n].safe + 1 ELSE logs[n].accepted
    BY <1>5, MinOfTwo
  <2> QED
    BY <1>5, <1>6, <2>1
<1>8. ASSUME NEW x \in DOMAIN logs
      PROVE  /\ logs'[x].frames = logs[x].frames /\ logs'[x].accepted = logs[x].accepted
             /\ logs[x].safe <= logs'[x].safe /\ Gains(x)
  <2>1. CASE x = n
    BY <1>4, <1>5, <1>7, <2>1 DEF Gains
  <2>2. CASE x # n
    <3>1. Sure(x)' = Sure(x)
      BY <1>3, <2>2 DEF Sure
    <3> QED
      BY <1>3, <1>5, <2>2, <3>1 DEF Gains
  <2> QED
    BY <2>1, <2>2
<1> QED
  BY <1>3, <1>8

LEMMA SyncLogs ==
    ASSUME Plain, Made, Sync
    PROVE  /\ DOMAIN logs' = DOMAIN logs
           /\ \A x \in DOMAIN logs :
                 /\ logs'[x].frames = logs[x].frames /\ logs[x].accepted <= logs'[x].accepted
                 /\ Gains(x)
           /\ logs'[mem.active].accepted = mem.len + 1
<1> PICK a : a = mem.active
  OBVIOUS
<1> DEFINE log == logs[a]
           n == mem.len + 1
           v == [log EXCEPT !.safe = n, !.accepted = n]
<1>1. /\ a \in DOMAIN logs /\ log.accepted = mem.len /\ mem.len \in Nat /\ log.safe >= mem.len
      /\ pc = "sync"
  BY MemParts DEF Made, Process, Sync, Synced
<1>2. log \in LogType /\ log.safe \in Nat
  BY <1>1, LogOf, LogsAre DEF Plain, LogFacts
<1>3. v.frames = log.frames /\ v.safe = n /\ v.accepted = n
  <2> HIDE DEF n, log
  <2> QED
    BY <1>2 DEF LogType
<1>4. logs' = [logs EXCEPT ![a] = v]
  BY DEF Sync, Synced
<1> HIDE DEF v
<1>5. /\ DOMAIN logs' = DOMAIN logs /\ logs'[a] = v
      /\ \A x \in DOMAIN logs : x # a => logs'[x] = logs[x]
  BY <1>1, <1>4
<1>6. Sure(a) = mem.len
  BY <1>1, <1>2, LogsAre DEF LogFacts
<1>7. Sure(a)' = n
  <2>1. Sure(a)' = Min({n, n})
    BY <1>3, <1>5 DEF Sure
  <2> QED
    BY <1>1, <2>1, MinOfTwo
<1>8. ASSUME NEW x \in DOMAIN logs
      PROVE  /\ logs'[x].frames = logs[x].frames /\ logs[x].accepted <= logs'[x].accepted
             /\ Gains(x)
  <2>1. CASE x = a
    BY <1>1, <1>3, <1>5, <1>6, <1>7, <2>1 DEF Gains
  <2>2. CASE x # a
    <3>1. Sure(x)' = Sure(x) /\ logs'[x] = logs[x]
      BY <1>5, <2>2 DEF Sure
    <3>2. logs[x].accepted \in Nat
      BY LogsAre DEF LogFacts
    <3> QED
      BY <3>1, <3>2 DEF Gains
  <2> QED
    BY <2>1, <2>2
<1> QED
  BY <1>3, <1>5, <1>8

LEMMA LossLogs ==
    ASSUME Plain, Sized, PowerLoss
    PROVE  /\ DOMAIN logs' = DOMAIN logs
           /\ \A x \in DOMAIN logs :
                 /\ logs'[x].frames = First(logs[x].frames, logs[x].safe)
                 /\ Len(logs'[x].frames) <= logs'[x].accepted + 1 /\ Steadily(x)
<1>1. logs' = [n \in DOMAIN logs |->
                  LET m == logs[n].safe
                  IN  [frames |-> First(logs[n].frames, m), safe |-> m,
                       accepted |-> Min({m, logs[n].accepted})]]
  BY DEF PowerLoss
<1>2. ASSUME NEW x \in DOMAIN logs
      PROVE  /\ logs'[x].frames = First(logs[x].frames, logs[x].safe)
             /\ Len(logs'[x].frames) <= logs'[x].accepted + 1 /\ Steadily(x)
  <2> DEFINE log == logs[x]
             m == log.safe
             s == Sure(x)
             g == First(log.frames, m)
  <2>1. /\ log.frames \in Seq(Rec) /\ Len(log.frames) \in Nat /\ m \in Nat /\ m <= Len(log.frames)
        /\ log.accepted \in Nat /\ s = (IF m <= log.accepted THEN m ELSE log.accepted)
    BY LogsAre DEF LogFacts
  <2>2. Len(log.frames) <= log.accepted + 1
    BY DEF Sized
  <2>3. logs'[x].frames = g /\ logs'[x].safe = m /\ logs'[x].accepted = s
    BY <1>1 DEF Sure
  <2>4. Sure(x)' = s
    <3>1. Sure(x)' = Min({m, s})
      BY <2>3 DEF Sure
    <3> QED
      BY <2>1, <3>1, MinOfTwo
  <2> HIDE DEF log, m, s
  <2>5. g \in Seq(Rec) /\ Len(g) = m /\ \A i \in 1 .. m : g[i] = log.frames[i]
    <3>1. m \in 0 .. Len(log.frames)
      BY <2>1
    <3> QED
      BY <2>1, <3>1, FirstOf
  <2> HIDE DEF g
  <2>6. First(g, s) = First(log.frames, s)
    <3>1. s \in Nat /\ s <= Len(g) /\ s <= Len(log.frames) /\ \A i \in 1 .. s : g[i] = log.frames[i]
      BY <2>1, <2>5
    <3> QED
      BY <2>1, <2>5, <3>1, SameFirst
  <2>7. Len(g) <= s + 1
    BY <2>1, <2>2, <2>5
  <2> QED
    BY <2>3, <2>4, <2>6, <2>7 DEF Steadily, log, m, s, g
<1>3. DOMAIN logs' = DOMAIN logs
  BY <1>1
<1> QED
  BY <1>2, <1>3

LEMMA SameSizes ==
    ASSUME Sized, DOMAIN logs' = DOMAIN logs,
           \A n \in DOMAIN logs : Len(logs'[n].frames) <= logs'[n].accepted + 1,
           pc' \notin {"closed", "newlog", "manifest", "sealed",
                       "tiers", "compact", "merge", "mergeman", "merged"}
    PROVE  Sized'
BY DEF Sized

LEMMA SizedKept == ASSUME Plain, Made, Sized, Move, ~Begin PROVE Sized'
<1>1. /\ \A n \in DOMAIN logs : Len(logs[n].frames) <= logs[n].accepted + 1
      /\ pc \in {"newlog", "manifest", "sealed"} => mem.len <= logs[mem.active].safe
      /\ pc \in {"tiers", "compact", "merge", "mergeman", "merged"} => mem.len = 0
  BY DEF Sized
<1>2. \A n \in DOMAIN logs : /\ Len(logs[n].frames) \in Nat /\ logs[n].accepted \in Nat
                             /\ logs[n].safe \in Nat
  BY LogsAre DEF LogFacts
<1>3. pc # "closed" => /\ mem.active \in DOMAIN logs /\ logs[mem.active].accepted = mem.len
                       /\ mem.len \in Nat
  BY MemParts DEF Made, Process
<1>4. CASE Open
  <2> DEFINE a == dir.man.active
             f == Good(logs[a].frames)
             v == [frames |-> f, safe |-> Min({logs[a].safe, Len(f)}), accepted |-> Len(f)]
  <2>1. pc' = "idle" /\ logs' = [logs EXCEPT ![a] = v] /\ a \in DOMAIN logs
    BY <1>4 DEF Open, Plain, Made, Past
  <2>2. Len(f) \in Nat
    <3>1. logs[a].frames \in Seq(Rec)
      BY <2>1, LogsAre DEF LogFacts
    <3> QED
      BY <3>1, GoodType, LenProperties
  <2>3. v.frames = f /\ v.accepted = Len(f)
    OBVIOUS
  <2> HIDE DEF v, f, a
  <2>4. DOMAIN logs' = DOMAIN logs /\ \A n \in DOMAIN logs : logs'[n] = IF n = a THEN v ELSE logs[n]
    BY <2>1
  <2> QED
    BY <1>1, <1>2, <2>1, <2>2, <2>3, <2>4, SameSizes
<1>5. CASE Call
  <2>1. logs' = logs /\ pc' \in {"append", "seal"}
    BY <1>5 DEF Call, Copy, Import, Record, Delete, Replace, Compact, Ask
  <2> QED
    BY <1>1, <2>1, SameSizes
<1>6. CASE Return \/ LogExists
  <2>1. logs' = logs /\ pc' = "idle"
    BY <1>6 DEF Return, LogExists, GiveUp
  <2> QED
    BY <1>1, <2>1, SameSizes
<1>7. CASE Write
  <2> DEFINE f == Append(First(logs[mem.active].frames, mem.len), Head(call.todo))
  <2>1. pc = "append" /\ call.todo # <<>> /\ pc' = "sync" /\ logs' = LogWith(f, mem.len)
    BY <1>7 DEF Write
  <2>2. Rewriting(f, mem.len)
    BY <2>1, WriteRewrites
  <2> HIDE DEF f
  <2>3. /\ DOMAIN logs' = DOMAIN logs
        /\ \A x \in DOMAIN logs : x # mem.active => logs'[x] = logs[x]
        /\ logs'[mem.active].frames = f /\ logs'[mem.active].accepted = mem.len
    BY <2>1, <2>2, LogWithSteady DEF Rewriting
  <2> QED
    BY <1>1, <2>1, <2>2, <2>3, SameSizes DEF Rewriting
<1>8. CASE Writeback
  <2>1. /\ DOMAIN logs' = DOMAIN logs
        /\ \A x \in DOMAIN logs :
              /\ logs'[x].frames = logs[x].frames /\ logs'[x].accepted = logs[x].accepted
              /\ logs[x].safe <= logs'[x].safe
    BY <1>8, WritebackLogs
  <2>2. pc' = pc /\ mem' = mem /\ call' = call
    BY <1>8 DEF Writeback
  <2>3. logs'[mem.active].safe \in Nat \/ pc = "closed"
    <3>1. CASE pc # "closed"
      <4>1. PICK n : n = mem.active
        OBVIOUS
      <4>2. logs'[n].safe \in Nat
        <5>1. Plain'
          BY <1>8, WritebackStep
        <5>2. LogFacts'
          BY <5>1, LogsAre, PTL
        <5> QED
          BY <1>3, <2>1, <3>1, <4>1, <5>2 DEF LogFacts
      <4> QED
        BY <4>1, <4>2
    <3> QED
      BY <3>1
  <2>4. pc \in {"newlog", "manifest", "sealed"} => mem.len <= logs'[mem.active].safe
    BY <1>1, <1>2, <1>3, <2>1, <2>3
  <2> QED
    BY <1>1, <2>1, <2>2, <2>4 DEF Sized
<1>9. CASE Sync
  <2>1. /\ DOMAIN logs' = DOMAIN logs
        /\ \A x \in DOMAIN logs :
              logs'[x].frames = logs[x].frames /\ logs[x].accepted <= logs'[x].accepted
    BY <1>9, SyncLogs
  <2>2. pc' \in {"append", "seal"}
    BY <1>9 DEF Sync
  <2>3. LogFacts'
    <3>1. Plain'
      BY <1>9, SyncStep
    <3> QED
      BY <3>1, LogsAre, PTL
  <2>4. \A x \in DOMAIN logs : logs'[x].accepted \in Nat
    BY <2>1, <2>3 DEF LogFacts
  <2> QED
    BY <1>1, <1>2, <2>1, <2>2, <2>4, SameSizes
<1>10. CASE Seal
  <2>1. /\ logs' = logs /\ mem' = mem /\ logs[mem.active].safe >= mem.len /\ pc = "seal"
        /\ (mem.len = 0 /\ pc' = "compact") \/ pc' = "newlog"
    BY <1>10 DEF Seal
  <2>2. mem.len <= logs[mem.active].safe
    BY <1>2, <1>3, <2>1
  <2> QED
    BY <1>1, <2>1, <2>2 DEF Sized
<1>11. ASSUME NewLog \/ (Fails /\ pc = "newlog" /\ logs' # logs)
       PROVE  Sized'
  <2> PICK n : n = mem.nextFile + 1
    OBVIOUS
  <2>1. pc = "newlog" /\ mem' = mem /\ pc' \in {"manifest", "idle"} /\ logs' = With(logs, n, EmptyLog)
    <3>1. CASE NewLog
      BY <3>1 DEF NewLog
    <3>2. CASE Fails /\ pc = "newlog" /\ logs' # logs
      BY <3>2 DEF Fails, GiveUp
    <3> QED
      BY <1>11, <3>1, <3>2
  <2>2. /\ DOMAIN logs' = DOMAIN logs \cup {n} /\ logs'[n] = EmptyLog
        /\ \A x \in DOMAIN logs : x # n => logs'[x] = logs[x]
        /\ mem.active # n
    BY <2>1, NewLogLogs
  <2>3. Len(EmptyLog.frames) <= EmptyLog.accepted + 1
    BY EmptyLogType, EmptySeq
  <2>4. \A x \in DOMAIN logs' : Len(logs'[x].frames) <= logs'[x].accepted + 1
    BY <1>1, <2>2, <2>3
  <2>5. logs'[mem.active] = logs[mem.active]
    BY <1>3, <2>1, <2>2
  <2> QED
    BY <1>1, <2>1, <2>4, <2>5 DEF Sized
<1>12. CASE RenameManifest \/ Merge \/ MergeManifest
  <2>1. /\ logs' = logs /\ mem' = mem
        /\ \/ pc = "manifest" /\ pc' = "sealed"
           \/ pc = "merge" /\ pc' = "mergeman"
           \/ pc = "mergeman" /\ pc' = "merged"
    BY <1>12 DEF RenameManifest, Merge, MergeManifest
  <2> QED
    BY <1>1, <2>1 DEF Sized
<1>13. CASE SyncSeal
  <2>1. logs' = logs /\ mem'.len = 0 /\ pc' = "tiers"
    BY <1>13 DEF SyncSeal
  <2> QED
    BY <1>1, <2>1 DEF Sized
<1>14. CASE SyncMerge
  <2>1. /\ logs' = logs /\ pc = "merged" /\ pc' \in {"append", "tiers"}
        /\ mem' = [mem EXCEPT !.nextFile = @ + 1, !.segments = AfterMerge] /\ mem \in MemType
    BY <1>14, MemParts DEF SyncMerge, Made
  <2>2. mem'.len = mem.len
    BY <2>1 DEF MemType
  <2> QED
    BY <1>1, <2>1, <2>2 DEF Sized
<1>15. CASE Tiers
  <2>1. /\ logs' = logs /\ mem' = mem /\ pc \in {"tiers", "compact"}
        /\ pc' \in {"append", "compact", "merge"}
    BY <1>15 DEF Tiers
  <2> QED
    BY <1>1, <2>1 DEF Sized
<1>16. CASE Fails
  <2>1. pc' = "idle"
    BY <1>16 DEF Fails, GiveUp
  <2>2. CASE logs' = logs
    BY <1>1, <2>1, <2>2, SameSizes
  <2>3. CASE pc = "append" /\ logs' = LogWith(First(logs[mem.active].frames, mem.len), mem.len)
    <3> DEFINE f == First(logs[mem.active].frames, mem.len)
    <3>1. Rewriting(f, mem.len)
      <4>1. mem.len \in mem.len .. Len(logs[mem.active].frames)
        BY <1>3, <2>3, ActiveLog, LenProperties DEF Made
      <4> QED
        BY <2>3, <4>1, CutRewrites
    <3> HIDE DEF f
    <3>2. /\ DOMAIN logs' = DOMAIN logs
          /\ \A x \in DOMAIN logs : x # mem.active => logs'[x] = logs[x]
          /\ logs'[mem.active].frames = f /\ logs'[mem.active].accepted = mem.len
      BY <2>3, <3>1, LogWithSteady DEF Rewriting, f
    <3> QED
      BY <1>1, <2>1, <3>1, <3>2, SameSizes DEF Rewriting
  <2>4. CASE pc = "newlog" /\ logs' # logs
    BY <1>11, <1>16, <2>4
  <2> QED
    BY <1>16, <2>2, <2>3, <2>4 DEF Fails
<1>17. CASE Kill
  <2>1. PICK n \in mem.len .. Len(logs[mem.active].frames) :
           logs' = LogWith(First(logs[mem.active].frames, n), n)
    BY <1>17 DEF Kill
  <2>2. pc # "closed" /\ pc' = "closed" /\ call' = NoCall
    BY <1>17 DEF Kill
  <2> DEFINE f == First(logs[mem.active].frames, n)
  <2>3. Rewriting(f, n)
    BY <2>2, CutRewrites
  <2> HIDE DEF f
  <2>4. /\ DOMAIN logs' = DOMAIN logs
        /\ \A x \in DOMAIN logs : x # mem.active => logs'[x] = logs[x]
        /\ logs'[mem.active].frames = f /\ logs'[mem.active].accepted = mem.len
    BY <2>1, <2>2, <2>3, LogWithSteady DEF Rewriting, f
  <2>5. \A x \in DOMAIN logs : Len(logs'[x].frames) <= logs'[x].accepted + 1
    BY <1>1, <2>3, <2>4 DEF Rewriting
  <2> QED
    BY <2>2, <2>4, <2>5 DEF Sized
<1>18. CASE PowerLoss
  <2>1. pc' = "closed" /\ call' = NoCall
    BY <1>18 DEF PowerLoss
  <2> QED
    BY <1>18, <2>1, LossLogs DEF Sized
<1> QED
  BY <1>4, <1>5, <1>6, <1>7, <1>8, <1>9, <1>10, <1>11, <1>12, <1>13, <1>14, <1>15, <1>16, <1>17,
     <1>18 DEF Move, Work

---------------------------------------------------------------------------
(* What a step does to what lasts. *)

Ordered ==
    /\ Plain /\ Made /\ Sized /\ PastOrder /\ MemOrder
    /\ given \subseteq Ids /\ (~unsure => GivenFits)

\* A directory with a history that may come back already.
Comes(d) == \E e \in past : e.man = d.man /\ SegsOf(e) = SegsOf(d)

\* What lasts is what lasted of a directory that might have come back, or a
\* record more of it; and of a new manifest's directory every id is known.
Goes ==
    /\ synced' \in past
    /\ \A d \in past : Steadily(d.man.active) \/ Gains(d.man.active)
    /\ \A d \in past' : Comes(d) \/ (~unsure => \A id \in given : id < d.man.nextId)

LEMMA PastGrow ==
    ASSUME PastOrder, \A d \in past' : Comes(d),
           \A d \in past : Logged(logs'[d.man.active].frames, d.man.nextId),
           \A d \in past' : d.man.nextFile <= dir'.man.nextFile
    PROVE  PastOrder'
<1>1. ASSUME NEW d \in past'
      PROVE  /\ \A id \in AllIds(SegsOf(d)) : id < d.man.nextId
             /\ Logged(logs'[d.man.active].frames, d.man.nextId)
             /\ \A e \in past' : e.man.active = d.man.active => e.man.nextId = d.man.nextId
  <2>1. PICK x \in past : x.man = d.man /\ SegsOf(x) = SegsOf(d)
    BY DEF Comes
  <2>2. /\ \A id \in AllIds(SegsOf(x)) : id < x.man.nextId
        /\ Logged(logs'[x.man.active].frames, x.man.nextId)
        /\ \A e \in past : e.man.active = x.man.active => e.man.nextId = x.man.nextId
    BY DEF PastOrder
  <2>3. ASSUME NEW e \in past', e.man.active = d.man.active PROVE e.man.nextId = d.man.nextId
    <3>1. PICK y \in past : y.man = e.man
      BY DEF Comes
    <3> QED
      BY <2>1, <2>2, <2>3, <3>1
  <2> QED
    BY <2>1, <2>2, <2>3
<1> QED
  BY <1>1 DEF PastOrder, FramesOf, SegsOf

\* A step that changes no file.
LEMMA QuietOrder ==
    ASSUME Ordered, pc # "closed", UNCHANGED <<logs, dir, synced, past, mem>>,
           pc' \notin {"sync", "newlog", "manifest", "mergeman"}, Fits(call'.todo, mem.nextId)
    PROVE  Goes /\ PastOrder' /\ MemOrder'
<1>1. \A d \in past : Comes(d)
  BY DEF Comes
<1>2. Goes
  BY <1>1, Untouched DEF Goes, Ordered, Plain
<1>3. PastOrder'
  BY DEF Ordered, PastOrder, FramesOf, SegsOf
<1>4. MemOrder'
  <2>1. Segs' = Segs
    BY DEF Segs
  <2>2. InStep' \/ OutOfStep'
    BY DEF Ordered, MemOrder, InStep, OutOfStep
  <2> QED
    BY <2>1, <2>2 DEF Ordered, MemOrder
<1> QED
  BY <1>2, <1>3, <1>4

\* The process's next file is one that no directory names.
LEMMA NextIsNew ==
    ASSUME Ordered, pc # "closed", InStep
    PROVE  /\ mem.nextFile \notin Range(dir.man.segments)
           /\ \A d \in past : d.man.active # mem.nextFile + 1
<1>1. /\ mem.nextFile \in Nat /\ dir.man.nextFile = mem.nextFile
      /\ \A i \in Range(dir.man.segments) : i < dir.man.nextFile
  BY MemParts DEF Ordered, InStep, Made, Past, Plain, Numbered
<1>2. ASSUME NEW d \in past PROVE d.man.active # mem.nextFile + 1
  <2>1. d.man.active \in Nat /\ d.man.nextFile \in Nat /\ d.man.active < d.man.nextFile
    BY DirSet DEF Ordered, Plain, Made, Past, Numbered, ManType
  <2>2. d.man.nextFile <= mem.nextFile
    BY <1>1 DEF Ordered, PastOrder
  <2> QED
    BY <1>1, <2>1, <2>2
<1> QED
  BY <1>1, <1>2

\* A file more.
LEMMA FileOrder ==
    ASSUME Ordered, pc # "closed", InStep, NEW d, Change(d), d.man = dir.man,
           \A i \in Range(dir.man.segments) : d.segs[i] = dir.segs[i],
           mem' = mem, call' = call \/ call' = NoCall, pc' # "sync",
           logs'[mem.active] = logs[mem.active],
           \A x \in past : logs'[x.man.active] = logs[x.man.active]
    PROVE  Goes /\ PastOrder' /\ MemOrder'
<1>1. dir' = d /\ past' = past \cup {d} /\ synced' = synced /\ dir \in past /\ synced \in past
  BY DEF Change, Ordered, Plain
<1>2. SegsOf(d) = SegsOf(dir)
  BY DEF SegsOf
<1>3. \A x \in past' : Comes(x)
  BY <1>1, <1>2 DEF Comes
<1>4. Goes
  BY <1>1, <1>3, Untouched DEF Goes
<1>5. PastOrder'
  <2>1. \A x \in past : Logged(logs'[x.man.active].frames, x.man.nextId)
    BY DEF Ordered, PastOrder, FramesOf
  <2>2. \A x \in past' : x.man.nextFile <= dir'.man.nextFile
    BY <1>1 DEF Ordered, PastOrder
  <2> QED
    BY <1>3, <2>1, <2>2, PastGrow DEF Ordered
<1>6. MemOrder'
  <2>1. Segs' = Segs
    BY <1>1 DEF Segs, InStep
  <2>2. InStep'
    BY <1>1 DEF InStep
  <2>3. Fits(call'.todo, mem.nextId)
    <3>1. Fits(NoCall.todo, mem.nextId)
      BY EmptySeq DEF Fits, NoCall
    <3> QED
      BY <3>1 DEF Ordered, MemOrder
  <2>4. \A x \in past' : \E e \in past : e.man = x.man
    BY <1>3 DEF Comes
  <2>5. \A x \in past' : x.man.active = mem.active =>
            Counted(logs[mem.active].frames, mem.len, x.man.nextId, mem.nextId)
    BY <2>4 DEF Ordered, MemOrder
  <2> QED
    BY <2>1, <2>2, <2>3, <2>5 DEF Ordered, MemOrder
<1> QED
  BY <1>4, <1>5, <1>6

\* The directory is synced, and the process takes what it names.
LEMMA SyncedOrder ==
    ASSUME Ordered, pc \in {"sealed", "merged"}, NEW d, SyncedThen(d), d.man = dir.man,
           \A i \in Range(dir.man.segments) : d.segs[i] = dir.segs[i],
           UNCHANGED <<logs, call>>, pc' # "sync", dir.man.nextId = mem.nextId,
           mem'.active = dir.man.active, mem'.segments = dir.man.segments, mem'.len = 0,
           mem'.nextFile = dir.man.nextFile, mem'.nextId = mem.nextId, mem.nextId \in Nat
    PROVE  Goes /\ PastOrder' /\ MemOrder'
<1>1. dir' = d /\ past' = {dir, d} /\ synced' = dir /\ dir \in past
  BY DEF SyncedThen, Ordered, Plain
<1>2. SegsOf(d) = SegsOf(dir)
  BY DEF SegsOf
<1>3. \A x \in past' : Comes(x) /\ x.man = dir.man
  BY <1>1, <1>2 DEF Comes
<1>4. Goes
  BY <1>1, <1>3, Untouched DEF Goes
<1>5. PastOrder'
  <2>1. \A x \in past : Logged(logs'[x.man.active].frames, x.man.nextId)
    BY DEF Ordered, PastOrder, FramesOf
  <2>2. \A x \in past' : x.man.nextFile <= dir'.man.nextFile
    BY <1>1, <1>3 DEF Ordered, PastOrder
  <2> QED
    BY <1>3, <2>1, <2>2, PastGrow DEF Ordered
<1>6. MemOrder'
  <2>1. Segs' = SegsOf(d)
    BY <1>1 DEF Segs, SegsOf
  <2>2. \A id \in AllIds(SegsOf(d)) : id < mem.nextId
    BY <1>1, <1>2 DEF Ordered, PastOrder
  <2>3. InStep'
    BY <1>1 DEF InStep
  <2>4. \A j : j \notin 1 .. 0
    OBVIOUS
  <2>5. \A f : Counted(f, 0, mem.nextId, mem.nextId)
    BY DEF Counted
  <2> QED
    BY <1>3, <2>1, <2>2, <2>3, <2>4, <2>5 DEF Ordered, MemOrder
<1> QED
  BY <1>4, <1>5, <1>6

\* A manifest is renamed into place.
LEMMA ManOrder ==
    ASSUME Ordered, pc \in {"manifest", "mergeman"}, pc' \in {"sealed", "merged"},
           UNCHANGED <<logs, mem, call>>,
           NEW d, Change(d), d.segs = dir.segs, d.man.nextId = mem.nextId,
           \A id \in AllIds(SegsOf(d)) : id < mem.nextId, Logged(FramesOf(d), mem.nextId),
           d.man.nextFile \in Nat, mem.nextFile < d.man.nextFile,
           mem.nextFile \in Range(d.man.segments),
           \A e \in past : e.man.active = d.man.active => e.man.nextId = mem.nextId
    PROVE  Goes /\ PastOrder' /\ MemOrder'
<1>1. dir' = d /\ past' = past \cup {d} /\ synced' = synced /\ dir \in past /\ synced \in past
  BY DEF Change, Ordered, Plain
<1>2. InStep
  BY DEF Ordered, MemOrder, OutOfStep
<1>3. mem.nextFile \in Nat /\ mem.len \in Nat /\ mem.nextId \in Nat
  BY MemParts DEF Ordered, Made
<1>4. Goes
  <2>1. \A x \in past : Comes(x)
    BY DEF Comes
  <2>2. ASSUME ~unsure, NEW id \in given PROVE id < mem.nextId
    <3> DEFINE f == logs[mem.active].frames
               s == Sure(mem.active)
    <3>1. Covered(f, dir.man.nextId, s, id)
      BY <1>1, <1>2, <2>2 DEF Ordered, GivenFits, InStep, FramesOf
    <3>2. s \in Nat /\ s <= mem.len
      <4>1. mem.active \in DOMAIN logs /\ logs[mem.active].accepted = mem.len
        BY DEF Ordered, Made, Process
      <4> QED
        BY <1>3, <4>1, LogsAre DEF Ordered, LogFacts
    <3>3. Counted(f, mem.len, dir.man.nextId, mem.nextId) /\ \A j \in 1 .. mem.len : f[j].id < mem.nextId
      BY <1>1, <1>2 DEF Ordered, MemOrder, InStep
    <3>4. \A j \in 1 .. mem.len : f[j].id \in Nat
      <4>1. f \in Seq(Rec) /\ mem.len \in 0 .. Len(f) /\ Len(f) \in Nat
        BY ActiveLog, LenProperties DEF Ordered, Made
      <4> HIDE DEF f
      <4>2. \A j \in 1 .. mem.len : f[j] \in Rec
        BY <4>1, ElementOfSeq
      <4> QED
        BY <4>2, RecIds
    <3>5. dir.man.nextId \in Nat /\ dir.man.nextId <= mem.nextId
      BY <1>1, <3>3, DirSet DEF Ordered, Plain, ManType, Counted
    <3>6. id \in Nat
      BY DEF Ordered, Ids
    <3> HIDE DEF f, s
    <3> QED
      BY <1>3, <3>1, <3>2, <3>3, <3>4, <3>5, <3>6 DEF Covered
  <2> QED
    BY <1>1, <2>1, <2>2, Untouched DEF Goes
<1>5. PastOrder'
  <2>1. \A x \in past : x.man.nextFile <= dir.man.nextFile /\ x.man.nextFile \in Nat
    BY DirSet DEF Ordered, PastOrder, Plain, ManType
  <2>2. \A x \in past' : x.man.nextFile <= d.man.nextFile
    BY <1>1, <1>2, <1>3, <2>1 DEF InStep
  <2>3. ASSUME NEW x \in past', NEW e \in past', e.man.active = x.man.active
        PROVE  e.man.nextId = x.man.nextId
    <3>1. CASE x \in past /\ e \in past
      BY <2>3, <3>1 DEF Ordered, PastOrder
    <3>2. CASE x = d
      BY <1>1, <2>3, <3>2
    <3>3. CASE e = d
      BY <1>1, <2>3, <3>3
    <3> QED
      BY <1>1, <3>1, <3>2, <3>3
  <2>4. ASSUME NEW x \in past'
        PROVE  /\ \A id \in AllIds(SegsOf(x)) : id < x.man.nextId
               /\ Logged(FramesOf(x), x.man.nextId)
    BY <1>1 DEF Ordered, PastOrder
  <2> QED
    BY <1>1, <2>2, <2>3, <2>4 DEF PastOrder, FramesOf, SegsOf
<1>6. MemOrder'
  <2>1. Segs' = Segs
    BY <1>1 DEF Segs
  <2>2. OutOfStep'
    BY <1>1 DEF OutOfStep
  <2>3. \A x \in past' : x.man.active = mem.active =>
            Counted(logs[mem.active].frames, mem.len, x.man.nextId, mem.nextId)
    <3>1. Counted(logs[mem.active].frames, mem.len, mem.nextId, mem.nextId)
      BY <1>3 DEF Counted
    <3> QED
      BY <1>1, <3>1 DEF Ordered, MemOrder
  <2> QED
    BY <2>1, <2>2, <2>3 DEF Ordered, MemOrder
<1> QED
  BY <1>4, <1>5, <1>6

Kept == Goes /\ PastOrder' /\ MemOrder'

LEMMA NothingFits == \A next : Fits(NoCall.todo, next)
BY EmptySeq DEF Fits, NoCall

LEMMA CallOrder == ASSUME Ordered, Call PROVE Kept
<1>1. UNCHANGED <<logs, dir, synced, past, mem>> /\ pc' \in {"append", "seal"} /\ pc = "idle"
  BY DEF Call, Copy, Import, Record, Delete, Replace, Compact, Ask
<1>2. Fits(call'.todo, mem.nextId)
  BY MineIds, MineBelow, CallFits DEF Ordered
<1> QED
  BY <1>1, <1>2, QuietOrder DEF Kept

\* The steps that change no file.
LEMMA IdleOrder ==
    ASSUME Ordered,
           \/ Return \/ LogExists \/ Tiers
           \/ Seal /\ mem.len = 0
           \/ Fails /\ UNCHANGED <<logs, dir, synced, past>>
    PROVE  Kept
<1>1. /\ UNCHANGED <<logs, dir, synced, past, mem>> /\ pc # "closed"
      /\ pc' \in {"idle", "append", "compact", "merge"}
  <2>1. CASE Return \/ LogExists \/ Tiers
    BY <2>1 DEF Return, LogExists, Tiers, GiveUp
  <2>2. CASE Seal /\ mem.len = 0
    BY <2>2 DEF Seal
  <2>3. CASE Fails /\ UNCHANGED <<logs, dir, synced, past>>
    BY <2>3 DEF Fails, GiveUp
  <2> QED
    BY <2>1, <2>2, <2>3
<1>2. call'.todo = call.todo \/ call' = NoCall
  <2>1. CASE Return \/ LogExists
    BY <2>1 DEF Return, LogExists, GiveUp
  <2>2. CASE Tiers
    <3>1. call \in CallType /\ call' \in {call, [call EXCEPT !.compact = "all"]}
      BY <2>2 DEF Tiers, Ordered, Plain
    <3> QED
      BY <3>1 DEF CallType
  <2>3. CASE Seal /\ mem.len = 0
    BY <2>3 DEF Seal
  <2>4. CASE Fails /\ UNCHANGED <<logs, dir, synced, past>>
    BY <2>4 DEF Fails, GiveUp
  <2> QED
    BY <2>1, <2>2, <2>3, <2>4
<1>3. Fits(call.todo, mem.nextId)
  BY <1>1 DEF Ordered, MemOrder
<1>4. Fits(call'.todo, mem.nextId)
  BY <1>2, <1>3, NothingFits
<1> QED
  BY <1>1, <1>4, QuietOrder DEF Kept

\* A segment more, under the process's next number.
LEMMA SegmentOrder ==
    ASSUME Ordered, (Seal /\ mem.len # 0) \/ Merge, ~WritesOver
    PROVE  Kept
<1>1. PICK seg : /\ Change([dir EXCEPT !.segs = With(dir.segs, mem.nextFile, seg)])
                 /\ UNCHANGED <<logs, mem, call>>
                 /\ \/ pc = "seal" /\ pc' = "newlog"
                    \/ pc = "merge" /\ pc' = "mergeman"
  <2>1. CASE Seal /\ mem.len # 0
    BY <2>1 DEF Seal
  <2>2. CASE Merge
    BY <2>2 DEF Merge
  <2> QED
    BY <2>1, <2>2
<1> DEFINE segs == With(dir.segs, mem.nextFile, seg)
           d == [dir EXCEPT !.segs = segs]
<1>2. mem.nextFile \notin Range(dir.man.segments)
  BY <1>1 DEF WritesOver
<1>3. InStep
  BY <1>1, <1>2 DEF Ordered, MemOrder, OutOfStep
<1>4. dir \in DirType
  BY DEF Ordered, Plain
<1>5. d.segs = segs /\ d.man = dir.man
  BY <1>4 DEF DirType
<1>6. \A i \in Range(dir.man.segments) : segs[i] = dir.segs[i]
  <2>1. Range(dir.man.segments) \subseteq DOMAIN dir.segs
    BY DEF Ordered, Plain, Made, Past, Openable
  <2> QED
    BY <1>2, <2>1 DEF With
<1>7. Change(d)
  BY <1>1
<1> HIDE DEF d, segs
<1>8. \A i \in Range(dir.man.segments) : d.segs[i] = dir.segs[i]
  BY <1>5, <1>6
<1> QED
  BY <1>1, <1>3, <1>5, <1>7, <1>8, FileOrder DEF Kept

\* A log more, that no directory names.
LEMMA NewLogOrder ==
    ASSUME Ordered, pc = "newlog", pc' \in {"manifest", "idle"}, mem' = mem,
           call' = call \/ call' = NoCall, logs' = With(logs, mem.nextFile + 1, EmptyLog),
           Change([dir EXCEPT !.logs = @ \cup {mem.nextFile + 1}])
    PROVE  Kept
<1> PICK n : n = mem.nextFile + 1
  OBVIOUS
<1> DEFINE d == [dir EXCEPT !.logs = dir.logs \cup {n}]
<1>1. /\ pc = "newlog" /\ pc' \in {"manifest", "idle"} /\ logs' = With(logs, n, EmptyLog)
      /\ mem' = mem /\ (call' = call \/ call' = NoCall) /\ Change(d)
  OBVIOUS
<1>2. d.man = dir.man /\ d.segs = dir.segs
  <2>1. dir \in DirType
    BY DEF Ordered, Plain
  <2> QED
    BY <2>1 DEF DirType
<1> HIDE DEF d
<1>3. InStep
  BY <1>1 DEF Ordered, MemOrder, OutOfStep
<1>4. \A x \in past : x.man.active # n /\ x.man.active \in DOMAIN logs
  BY <1>1, <1>3, NextIsNew DEF Ordered, Made, Past
<1>5. /\ \A x \in DOMAIN logs : x # n => logs'[x] = logs[x]
      /\ mem.active # n
  BY <1>1, NewLogLogs DEF Ordered
<1>6. mem.active \in DOMAIN logs
  BY <1>1 DEF Ordered, Made, Process
<1>7. logs'[mem.active] = logs[mem.active] /\ \A x \in past : logs'[x.man.active] = logs[x.man.active]
  BY <1>4, <1>5, <1>6
<1> QED
  BY <1>1, <1>2, <1>3, <1>7, FileOrder DEF Kept

\* A segment has no id that its parts had not.
LEMMA WrittenIds ==
    ASSUME NEW P, NEW Q, P \subseteq Q, NEW dead, NEW outside
    PROVE  AllIds({Written(P, dead, outside)}) \subseteq AllIds(Q)
<1> DEFINE w == Written(P, dead, outside)
<1>1. /\ w.entries \subseteq Held(Q) /\ w.events \subseteq Noted(Q) /\ w.tombs \subseteq Dead(Q)
  BY DEF Written, Held, Noted, Dead
<1>2. Held({w}) = w.entries /\ Noted({w}) = w.events /\ Dead({w}) = w.tombs
  BY DEF Held, Noted, Dead
<1> HIDE DEF w
<1>3. AllIds({w}) \subseteq AllIds(Q)
  BY <1>1, <1>2 DEF AllIds, IdsIn
<1> QED
  BY <1>3 DEF w

LEMMA SomeIds == ASSUME NEW P, NEW Q, P \subseteq Q PROVE AllIds(P) \subseteq AllIds(Q)
<1>1. P \cup Q = Q
  OBVIOUS
<1>2. AllIds(P \cup Q) = AllIds(P) \cup AllIds(Q)
  BY BothIds
<1> QED
  BY <1>1, <1>2

LEMMA RenameOrder == ASSUME Ordered, RenameManifest PROVE Kept
<1> PICK n : n = mem.nextFile
  OBVIOUS
<1> DEFINE segs == Append(mem.segments, n)
           m == Manifest(n + 2, segs, n + 1)
           d == [dir EXCEPT !.man = m]
<1>1. pc = "manifest" /\ pc' = "sealed" /\ UNCHANGED <<logs, mem, call>> /\ Change(d)
  BY DEF RenameManifest
<1>2. NewSegment /\ MadeLog /\ InStep
  BY <1>1 DEF Ordered, Made, Stage, MemOrder, OutOfStep
<1>3. mem.segments \in Seq(Nat) /\ n \in Nat
  BY <1>1, MemParts DEF Ordered, Made
<1>4. /\ m.active = n + 1 /\ m.segments = segs /\ m.nextFile = n + 2 /\ m.nextId = mem.nextId
  BY DEF Manifest
<1>5. Range(segs) = Range(mem.segments) \cup {n}
  BY <1>3, OfAppend
<1> HIDE DEF m, segs
<1>6. d.segs = dir.segs /\ d.man = m
  <2>1. dir \in DirType
    BY DEF Ordered, Plain
  <2> QED
    BY <2>1 DEF DirType
<1> HIDE DEF d
<1>7. SegsOf(d) = Segs \cup {Sealed}
  BY <1>2, <1>4, <1>5, <1>6 DEF SegsOf, Segs, NewSegment
<1>8. ASSUME NEW id \in AllIds(SegsOf(d)) PROVE id < mem.nextId
  <2>1. AllIds(SegsOf(d)) = AllIds(Segs) \cup AllIds({Sealed})
    BY <1>7, BothIds
  <2>2. AllIds(Segs) \subseteq AllIds(Mine)
    BY SomeIds DEF Mine
  <2>3. AllIds({Sealed}) \subseteq AllIds(Mine)
    <3>1. {Log} \subseteq Mine
      BY DEF Mine
    <3> QED
      BY <3>1, WrittenIds DEF Sealed
  <2>4. id \in AllIds(Mine)
    BY <1>8, <2>1, <2>2, <2>3
  <2> QED
    BY <1>1, <2>4, MineIds DEF MineFits, Ordered
<1>9. Logged(FramesOf(d), mem.nextId)
  <2>1. FramesOf(d) = <<>>
    BY <1>2, <1>4, <1>6, EmptyLogType DEF FramesOf, MadeLog
  <2>2. Len(<<>>) = 0
    BY EmptySeq
  <2> QED
    BY <2>1, <2>2 DEF Logged
<1>10. \A e \in past : e.man.active # d.man.active
  BY <1>1, <1>2, <1>4, <1>6, NextIsNew
<1>11. d.man.nextFile \in Nat /\ mem.nextFile < d.man.nextFile /\ mem.nextFile \in Range(d.man.segments)
  BY <1>3, <1>4, <1>5, <1>6
<1> QED
  BY <1>1, <1>4, <1>6, <1>8, <1>9, <1>10, <1>11, ManOrder DEF Kept

LEMMA MergeManifestOrder == ASSUME Ordered, MergeManifest PROVE Kept
<1> PICK n : n = mem.nextFile
  OBVIOUS
<1> DEFINE m == Manifest(n + 1, AfterMerge, mem.active)
           d == [dir EXCEPT !.man = m]
<1>1. pc = "mergeman" /\ pc' = "merged" /\ UNCHANGED <<logs, mem, call>> /\ Change(d)
  BY DEF MergeManifest
<1>2. MergedSegment /\ InStep /\ mem.segments # <<>>
  BY <1>1 DEF Ordered, Made, Stage, MemOrder, OutOfStep
<1>3. mem \in MemType /\ Numbered(mem) /\ n \in Nat /\ mem.nextId \in Nat
  BY <1>1, MemParts DEF Ordered, Made
<1>4. /\ m.active = mem.active /\ m.segments = AfterMerge /\ m.nextFile = n + 1 /\ m.nextId = mem.nextId
  BY DEF Manifest
<1>5. /\ Range(AfterMerge) = (Range(mem.segments) \ Taken) \cup {n}
      /\ Taken \subseteq Range(mem.segments)
  BY <1>2, <1>3, TakenOf
<1> HIDE DEF m
<1>6. d.segs = dir.segs /\ d.man = m
  <2>1. dir \in DirType
    BY DEF Ordered, Plain
  <2> QED
    BY <2>1 DEF DirType
<1> HIDE DEF d
<1>7. SegsOf(d) \subseteq Segs \cup {Merged}
  BY <1>2, <1>4, <1>5, <1>6 DEF SegsOf, Segs, MergedSegment
<1>8. ASSUME NEW id \in AllIds(SegsOf(d)) PROVE id < mem.nextId
  <2>1. AllIds(SegsOf(d)) \subseteq AllIds(Segs) \cup AllIds({Merged})
    <3>1. AllIds(SegsOf(d)) \subseteq AllIds(Segs \cup {Merged})
      BY ONLY <1>7, SomeIds
    <3>2. AllIds(Segs \cup {Merged}) = AllIds(Segs) \cup AllIds({Merged})
      BY ONLY BothIds
    <3> QED
      BY ONLY <3>1, <3>2
  <2>2. AllIds(Segs) \subseteq AllIds(Mine)
    BY SomeIds DEF Mine
  <2>3. AllIds({Merged}) \subseteq AllIds(Mine)
    <3> DEFINE P == {dir.segs[i] : i \in Taken}
    <3>1. P \subseteq Mine
      BY <1>5 DEF Mine, Segs
    <3>2. Merged = Written(P, Dead(Mine), Outside)
      BY DEF Merged
    <3> HIDE DEF P
    <3> QED
      BY <3>1, <3>2, WrittenIds
  <2>4. id \in AllIds(Mine)
    BY <1>8, <2>1, <2>2, <2>3
  <2> QED
    BY <1>1, <2>4, MineIds DEF MineFits, Ordered
<1>9. ASSUME NEW e \in past, e.man.active = mem.active PROVE e.man.nextId = mem.nextId
  <2>1. Counted(logs[mem.active].frames, mem.len, e.man.nextId, mem.nextId) /\ mem.len = 0
    BY <1>1, <1>9 DEF Ordered, MemOrder, Sized
  <2>2. \A j \in 1 .. 0 : FALSE
    OBVIOUS
  <2> QED
    BY <2>1, <2>2 DEF Counted
<1>10. Logged(FramesOf(d), mem.nextId)
  <2>1. dir \in past /\ dir.man.active = mem.active
    BY <1>2 DEF Ordered, Plain, InStep
  <2>2. Logged(FramesOf(dir), dir.man.nextId)
    BY <2>1 DEF Ordered, PastOrder
  <2> QED
    BY <1>4, <1>6, <1>9, <2>1, <2>2 DEF FramesOf
<1>11. d.man.nextFile \in Nat /\ mem.nextFile < d.man.nextFile /\ mem.nextFile \in Range(d.man.segments)
  BY <1>3, <1>4, <1>5, <1>6
<1> QED
  BY <1>1, <1>4, <1>6, <1>8, <1>9, <1>10, <1>11, ManOrder DEF Kept

LEMMA SyncSealOrder == ASSUME Ordered, SyncSeal PROVE Kept
<1> PICK n : n = mem.nextFile
  OBVIOUS
<1> DEFINE d == [dir EXCEPT !.logs = dir.logs \ {mem.active}]
<1>1. /\ pc = "sealed" /\ pc' = "tiers" /\ UNCHANGED <<logs, call>> /\ SyncedThen(d)
      /\ mem' = [active |-> n + 1, len |-> 0, segments |-> Append(mem.segments, n),
                 nextFile |-> n + 2, nextId |-> mem.nextId]
  BY DEF SyncSeal
<1>2. dir.man = Manifest(n + 2, Append(mem.segments, n), n + 1)
  BY <1>1 DEF Ordered, Made, Stage
<1>3. /\ dir.man.active = n + 1 /\ dir.man.segments = Append(mem.segments, n)
      /\ dir.man.nextFile = n + 2 /\ dir.man.nextId = mem.nextId
  BY <1>2 DEF Manifest
<1>4. d.segs = dir.segs /\ d.man = dir.man
  <2>1. dir \in DirType
    BY DEF Ordered, Plain
  <2> QED
    BY <2>1 DEF DirType
<1>5. mem.nextId \in Nat
  BY <1>1, MemParts DEF Ordered, Made
<1>6. /\ mem'.active = dir.man.active /\ mem'.segments = dir.man.segments /\ mem'.len = 0
      /\ mem'.nextFile = dir.man.nextFile /\ mem'.nextId = mem.nextId
  BY <1>1, <1>3
<1> HIDE DEF d
<1> QED
  BY <1>1, <1>3, <1>4, <1>5, <1>6, SyncedOrder DEF Kept

LEMMA SyncMergeOrder == ASSUME Ordered, SyncMerge PROVE Kept
<1> DEFINE segs == Restrict(dir.segs, DOMAIN dir.segs \ Taken)
           d == [dir EXCEPT !.segs = segs]
<1>1. /\ pc = "merged" /\ pc' \in {"tiers", "append"} /\ UNCHANGED <<logs, call>> /\ SyncedThen(d)
      /\ mem' = [mem EXCEPT !.nextFile = @ + 1, !.segments = AfterMerge]
  BY DEF SyncMerge
<1>2. /\ mem.segments # <<>> /\ dir.man = Manifest(mem.nextFile + 1, AfterMerge, mem.active)
      /\ mem.len = 0
  BY <1>1 DEF Ordered, Made, Stage, Sized
<1>3. /\ mem \in MemType /\ Numbered(mem) /\ mem.nextId \in Nat
  BY <1>1, MemParts DEF Ordered, Made
<1>4. /\ dir.man.active = mem.active /\ dir.man.segments = AfterMerge
      /\ dir.man.nextFile = mem.nextFile + 1 /\ dir.man.nextId = mem.nextId
  BY <1>2 DEF Manifest
<1>5. Range(AfterMerge) \cap Taken = {}
  BY <1>2, <1>3, TakenOf
<1>6. d.segs = segs /\ d.man = dir.man
  <2>1. dir \in DirType
    BY DEF Ordered, Plain
  <2> QED
    BY <2>1 DEF DirType
<1>7. \A i \in Range(dir.man.segments) : segs[i] = dir.segs[i]
  <2>1. Range(dir.man.segments) \subseteq DOMAIN dir.segs
    BY DEF Ordered, Plain, Made, Past, Openable
  <2> QED
    BY <1>4, <1>5, <2>1 DEF Restrict
<1>8. /\ mem'.active = mem.active /\ mem'.segments = AfterMerge /\ mem'.len = mem.len
      /\ mem'.nextFile = mem.nextFile + 1 /\ mem'.nextId = mem.nextId
  BY <1>1, <1>3 DEF MemType
<1> HIDE DEF d, segs
<1>9. \A i \in Range(dir.man.segments) : d.segs[i] = dir.segs[i]
  BY <1>6, <1>7
<1> QED
  BY <1>1, <1>2, <1>3, <1>4, <1>6, <1>8, <1>9, SyncedOrder DEF Kept

LEMMA LogOrder ==
    ASSUME Ordered, UNCHANGED <<dir, synced, past>>,
           \A x \in past : /\ Steadily(x.man.active) \/ Gains(x.man.active)
                           /\ Logged(logs'[x.man.active].frames, x.man.nextId)
    PROVE  Goes /\ PastOrder'
<1>1. \A x \in past' : Comes(x)
  BY DEF Comes
<1>2. Goes
  BY <1>1 DEF Goes, Ordered, Plain
<1>3. \A x \in past' : x.man.nextFile <= dir'.man.nextFile
  BY DEF Ordered, PastOrder
<1> QED
  BY <1>1, <1>2, <1>3, PastGrow DEF Ordered

\* A record the process writes follows those of its log.
LEMMA HeadFits ==
    ASSUME NEW todo \in Seq(Rec), todo # <<>>, NEW next, Fits(todo, next)
    PROVE  LET r == Head(todo)
           IN  /\ r = todo[1] /\ r \in Rec
               /\ IF r.kind = "entry" THEN r.id = next ELSE r.id < next
<1>1. Head(todo) = todo[1] /\ 1 \in 1 .. Len(todo) /\ Head(todo) \in Rec
  BY EmptySeq, LenProperties, HeadTailProperties, OfTail
<1> QED
  BY <1>1 DEF Fits

LEMMA TailFits ==
    ASSUME NEW todo \in Seq(Rec), todo # <<>>, NEW next \in Nat, Fits(todo, next)
    PROVE  Fits(Tail(todo), IF todo[1].kind = "entry" THEN next + 1 ELSE next)
<1> DEFINE t == Tail(todo)
           m == IF todo[1].kind = "entry" THEN next + 1 ELSE next
<1>1. /\ Len(todo) \in Nat /\ Len(t) = Len(todo) - 1 /\ 1 <= Len(todo)
      /\ \A i \in 1 .. Len(t) : t[i] = todo[i + 1]
  BY EmptySeq, LenProperties, HeadTailProperties
<1> HIDE DEF t
<1>2. ASSUME NEW i \in 1 .. Len(t) PROVE t[i].kind # "entry" /\ t[i].id < m
  <2>1. i + 1 \in 1 .. Len(todo) /\ i + 1 # 1 /\ t[i] = todo[i + 1]
    BY <1>1
  <2> PICK k : k = i + 1
    OBVIOUS
  <2>2. k \in 1 .. Len(todo) /\ k # 1 /\ t[i] = todo[k]
    BY <2>1
  <2>3. todo[k].kind # "entry"
    BY <2>2 DEF Fits
  <2>4. todo[k].id < next \/ (todo[1].kind = "entry" /\ todo[k].id <= next)
    BY <2>2, <2>3 DEF Fits
  <2>5. todo[k].id \in Nat
    <3>1. todo[k] \in Rec
      BY <2>2, ElementOfSeq
    <3> QED
      BY <3>1, RecIds
  <2> QED
    BY <2>2, <2>3, <2>4, <2>5
<1>3. Fits(t, m)
  BY <1>2 DEF Fits
<1> QED
  BY <1>3 DEF t

\* The process's log, of each directory that names it.
Follows(n) ==
    \A d \in past : d.man.active = mem.active =>
        /\ Logged(logs[mem.active].frames, d.man.nextId)
        /\ Counted(logs[mem.active].frames, n, d.man.nextId, mem.nextId)
        /\ d.man.nextId \in Nat
LEMMA LogFollows ==
    ASSUME Ordered, pc # "closed"
    PROVE  Follows(mem.len)
BY DirSet DEF Ordered, PastOrder, MemOrder, Follows, FramesOf, Plain, ManType

\* A log of which the first records stay.
LEMMA SameCounted ==
    ASSUME NEW f, NEW g, NEW n \in Nat, NEW base, NEW next, \A i \in 1 .. n : g[i] = f[i],
           Counted(f, n, base, next)
    PROVE  Counted(g, n, base, next)
BY DEF Counted

\* The steps that write the log.
LEMMA RewriteOrder ==
    ASSUME Ordered, pc # "closed", UNCHANGED <<dir, synced, past>>,
           NEW frames, NEW n, Rewriting(frames, n), logs' = LogWith(frames, n),
           \A base \in Nat : /\ Logged(logs[mem.active].frames, base)
                             /\ Counted(logs[mem.active].frames, mem.len, base, mem.nextId)
                             => Logged(frames, base),
           \/ pc' = "closed"
           \/ /\ mem' = mem /\ pc' \in {"idle", "sync"} /\ Fits(call'.todo, mem.nextId)
              /\ pc' = "sync" => frames[mem.len + 1] = Head(call'.todo)
    PROVE  Kept
<1> PICK a : a = mem.active
  OBVIOUS
<1> DEFINE f == logs[a].frames
<1>1. /\ DOMAIN logs' = DOMAIN logs
      /\ \A x \in DOMAIN logs : x # a => logs'[x] = logs[x]
      /\ logs'[a].frames = frames /\ \A x \in DOMAIN logs : Steadily(x)
  BY LogWithSteady DEF Rewriting, Ordered
<1>2. \A x \in past : x.man.active \in DOMAIN logs
  BY DEF Ordered, Made, Past
<1>3. ASSUME NEW x \in past PROVE Logged(logs'[x.man.active].frames, x.man.nextId)
  <2>1. CASE x.man.active = a
    <3>1. Follows(mem.len)
      BY LogFollows
    <3> QED
      BY <1>1, <2>1, <3>1 DEF Follows
  <2>2. CASE x.man.active # a
    BY <1>1, <1>2, <2>2 DEF Ordered, PastOrder, FramesOf
  <2> QED
    BY <2>1, <2>2
<1>4. Goes /\ PastOrder'
  BY <1>1, <1>2, <1>3, LogOrder
<1>5. MemOrder'
  <2>1. CASE pc' = "closed"
    BY <2>1 DEF MemOrder
  <2>2. CASE pc' # "closed"
    <3>1. /\ mem' = mem /\ pc' \in {"idle", "sync"} /\ Fits(call'.todo, mem.nextId)
          /\ pc' = "sync" => frames[mem.len + 1] = Head(call'.todo)
      BY <2>2
    <3>2. mem.len \in Nat /\ \A i \in 1 .. mem.len : frames[i] = f[i]
      BY MemParts DEF Rewriting, Ordered, Made
    <3>3. Segs' = Segs
      BY <3>1 DEF Segs
    <3>4. InStep' \/ OutOfStep'
      BY <3>1 DEF InStep, OutOfStep, Ordered, MemOrder
    <3>5. \A j \in 1 .. mem.len : f[j].id < mem.nextId
      BY DEF Ordered, MemOrder
    <3>6. \A d \in past : d.man.active = a => Counted(frames, mem.len, d.man.nextId, mem.nextId)
      BY <3>2, SameCounted DEF Ordered, MemOrder
    <3>7. \A id \in AllIds(Segs) : id < mem.nextId
      BY DEF Ordered, MemOrder
    <3> HIDE DEF f
    <3>8. \A j \in 1 .. mem.len : frames[j].id < mem.nextId
      BY <3>2, <3>5
    <3>9. mem'.active = a /\ mem'.len = mem.len /\ mem'.nextId = mem.nextId
      BY <3>1
    <3> QED
      BY <1>1, <3>1, <3>3, <3>4, <3>6, <3>7, <3>8, <3>9 DEF MemOrder
  <2> QED
    BY <2>1, <2>2
<1> QED
  BY <1>4, <1>5 DEF Kept

LEMMA WriteOrder == ASSUME Ordered, Write PROVE Kept
<1> DEFINE f == logs[mem.active].frames
           r == Head(call.todo)
           g == Append(First(f, mem.len), r)
<1>1. /\ pc = "append" /\ call.todo # <<>> /\ pc' = "sync" /\ logs' = LogWith(g, mem.len)
      /\ UNCHANGED <<dir, synced, past, mem, call>>
  BY DEF Write
<1>2. Rewriting(g, mem.len)
  BY <1>1, WriteRewrites DEF Ordered
<1>3. call.todo \in Seq(Rec) /\ Fits(call.todo, mem.nextId)
  BY <1>1 DEF Ordered, Plain, CallType, MemOrder
<1>4. r \in Rec /\ IF r.kind = "entry" THEN r.id = mem.nextId ELSE r.id < mem.nextId
  BY <1>1, <1>3, HeadFits
<1>5. /\ f \in Seq(Rec) /\ mem.len \in 0 .. Len(f) /\ mem.nextId \in Nat
      /\ \A j \in 1 .. mem.len : f[j].id < mem.nextId
  BY <1>1, ActiveLog, MemParts DEF Ordered, Made, MemOrder
<1>6. g[mem.len + 1] = r
  <2>1. First(f, mem.len) \in Seq(Rec) /\ Len(First(f, mem.len)) = mem.len
    BY <1>1, ActiveLog DEF Ordered, Made
  <2> HIDE DEF f, r
  <2> QED
    BY <1>4, <2>1, AppendProperties
<1>7. ASSUME NEW base \in Nat, Logged(f, base), Counted(f, mem.len, base, mem.nextId)
      PROVE  Logged(g, base)
  <2> PICK n, next : n = mem.len /\ next = mem.nextId
    OBVIOUS
  <2> HIDE DEF f, r
  <2> QED
    BY <1>4, <1>5, <1>7, LoggedMore
<1> HIDE DEF r, g
<1> QED
  BY <1>1, <1>2, <1>3, <1>6, <1>7, RewriteOrder DEF r

LEMMA CutOrder ==
    ASSUME Ordered, pc # "closed", UNCHANGED <<dir, synced, past>>,
           NEW n \in mem.len .. Len(logs[mem.active].frames),
           logs' = LogWith(First(logs[mem.active].frames, n), n),
           pc' = "closed" \/ (pc' = "idle" /\ mem' = mem /\ call' = NoCall)
    PROVE  Kept
<1> DEFINE f == logs[mem.active].frames
           g == First(f, n)
<1>1. Rewriting(g, n)
  BY CutRewrites DEF Ordered
<1>2. f \in Seq(Rec) /\ n \in 0 .. Len(f)
  BY ActiveLog DEF Ordered, Made
<1>3. \A base : Logged(f, base) => Logged(g, base)
  <2> HIDE DEF f
  <2> QED
    BY <1>2, LoggedFirst
<1> HIDE DEF g
<1> QED
  BY <1>1, <1>3, NothingFits, RewriteOrder DEF g

LEMMA KillOrder == ASSUME Ordered, Kill PROVE Kept
<1>1. PICK n \in mem.len .. Len(logs[mem.active].frames) :
         logs' = LogWith(First(logs[mem.active].frames, n), n)
  BY DEF Kill
<1>2. pc # "closed" /\ pc' = "closed" /\ UNCHANGED <<dir, synced, past>>
  BY DEF Kill
<1> QED
  BY <1>1, <1>2, CutOrder

LEMMA FailsOrder == ASSUME Ordered, Fails PROVE Kept
<1>1. pc' = "idle" /\ call' = NoCall /\ mem' = mem
  BY DEF Fails, GiveUp
<1>2. CASE UNCHANGED <<logs, dir, synced, past>>
  BY <1>2, IdleOrder
<1>3. CASE /\ pc = "append" /\ logs' = LogWith(First(logs[mem.active].frames, mem.len), mem.len)
           /\ UNCHANGED <<dir, synced, past>>
  <2>1. mem.len \in mem.len .. Len(logs[mem.active].frames)
    BY <1>3, ActiveLog, LenProperties DEF Ordered, Made
  <2> QED
    BY <1>1, <1>3, <2>1, CutOrder
<1>4. CASE /\ pc = "newlog" /\ mem.nextFile + 1 \notin dir.logs
           /\ logs' = With(logs, mem.nextFile + 1, EmptyLog)
           /\ Change([dir EXCEPT !.logs = @ \cup {mem.nextFile + 1}])
  BY <1>1, <1>4, NewLogOrder
<1> QED
  BY <1>2, <1>3, <1>4 DEF Fails

LEMMA WritebackOrder == ASSUME Ordered, Writeback PROVE Kept
<1>1. /\ \A x \in DOMAIN logs : logs'[x].frames = logs[x].frames /\ Gains(x)
  BY WritebackLogs DEF Ordered
<1>2. UNCHANGED <<dir, synced, past, mem, pc, call>>
  BY DEF Writeback
<1>3. \A x \in past : x.man.active \in DOMAIN logs
  BY DEF Ordered, Made, Past
<1>4. Goes /\ PastOrder'
  <2>1. \A x \in past : Logged(logs'[x.man.active].frames, x.man.nextId)
    BY <1>1, <1>3 DEF Ordered, PastOrder, FramesOf
  <2> QED
    BY <1>1, <1>2, <1>3, <2>1, LogOrder
<1>5. MemOrder'
  <2> SUFFICES ASSUME pc # "closed" PROVE MemOrder'
    BY <1>2 DEF MemOrder
  <2>1. mem.active \in DOMAIN logs
    BY DEF Ordered, Made, Process
  <2>2. logs'[mem.active].frames = logs[mem.active].frames
    BY <1>1, <2>1
  <2>3. Segs' = Segs
    BY <1>2 DEF Segs
  <2>4. InStep' \/ OutOfStep'
    BY <1>2 DEF InStep, OutOfStep, Ordered, MemOrder
  <2> QED
    BY <1>2, <2>2, <2>3, <2>4 DEF Ordered, MemOrder
<1> QED
  BY <1>4, <1>5 DEF Kept

LEMMA SyncOrder == ASSUME Ordered, Sync PROVE Kept
<1> PICK a, n, next : a = mem.active /\ n = mem.len /\ next = mem.nextId
  OBVIOUS
<1> DEFINE f == logs[a].frames
           r == Head(call.todo)
           m == IF r.kind = "entry" THEN next + 1 ELSE next
<1>1. /\ pc = "sync" /\ pc' \in {"append", "seal"} /\ UNCHANGED <<dir, synced, past>>
      /\ mem' = [mem EXCEPT !.len = n + 1, !.nextId = m]
      /\ call' = [call EXCEPT !.todo = Tail(call.todo)]
  BY DEF Sync, Applied
<1>2. mem \in MemType /\ n \in Nat /\ next \in Nat
  BY <1>1, MemParts DEF Ordered, Made
<1>3. /\ mem'.active = a /\ mem'.len = n + 1 /\ mem'.segments = mem.segments
      /\ mem'.nextFile = mem.nextFile /\ mem'.nextId = m
  <2> HIDE DEF m
  <2> QED
    BY <1>1, <1>2 DEF MemType
<1>4. call \in CallType /\ call.todo \in Seq(Rec) /\ call.todo # <<>> /\ call'.todo = Tail(call.todo)
  BY <1>1 DEF Ordered, Plain, Made, Stage, CallType
<1>5. Fits(call.todo, next) /\ f[n + 1] = r
  BY <1>1 DEF Ordered, MemOrder
<1>6. r = call.todo[1] /\ r \in Rec /\ IF r.kind = "entry" THEN r.id = next ELSE r.id < next
  BY <1>4, <1>5, HeadFits
<1>7. Fits(call'.todo, m)
  BY <1>2, <1>4, <1>5, <1>6, TailFits
<1> HIDE DEF r
<1>8. /\ f \in Seq(Rec) /\ n \in 0 .. Len(f) /\ Len(f) = n + 1
      /\ \A j \in 1 .. n : f[j].id < next
  BY <1>1, ActiveLog DEF Ordered, Made, Stage, MemOrder
<1>9. /\ \A x \in DOMAIN logs : logs'[x].frames = logs[x].frames /\ Gains(x)
  BY SyncLogs DEF Ordered
<1>10. (\A x \in past : x.man.active \in DOMAIN logs) /\ a \in DOMAIN logs
  BY <1>1 DEF Ordered, Made, Past, Process
<1>11. logs'[a].frames = f
  BY <1>9, <1>10
<1> HIDE DEF f
<1>12. f = Append(First(f, n), r)
  <2> DEFINE p == First(f, n)
             g == Append(p, r)
  <2>1. p \in Seq(Rec) /\ Len(p) = n /\ \A i \in 1 .. n : p[i] = f[i]
    BY <1>8, FirstOf
  <2> HIDE DEF p
  <2>2. g \in Seq(Rec) /\ Len(g) = n + 1 /\ g[n + 1] = r /\ \A i \in 1 .. n : g[i] = p[i]
    BY <1>6, <2>1, AppendProperties
  <2> HIDE DEF g
  <2>3. \A i \in 1 .. n + 1 : i \in 1 .. n \/ i = n + 1
    BY <1>2
  <2>4. \A i \in 1 .. Len(f) : f[i] = g[i]
    BY <1>5, <1>8, <2>1, <2>2, <2>3
  <2>5. f = g
    BY <1>8, <2>2, <2>4, SeqEqual
  <2> QED
    BY <2>5 DEF g, p
<1>13. ASSUME NEW base \in Nat, Logged(f, base), Counted(f, n, base, next)
       PROVE  Counted(f, n + 1, base, m) /\ \A j \in 1 .. n + 1 : f[j].id < m
  <2>1. IF r.kind = "entry" THEN r.id = next ELSE r.id < next
    BY <1>6
  <2>2. r \in Rec /\ next \in Nat /\ f \in Seq(Rec) /\ n \in 0 .. Len(f) /\ base \in Nat
    BY <1>2, <1>6, <1>8
  <2>3. Logged(f, base) /\ Counted(f, n, base, next) /\ \A j \in 1 .. n : f[j].id < next
    BY <1>8, <1>13
  <2>4. \A k \in {m} : /\ Counted(Append(First(f, n), r), n + 1, base, k)
                       /\ \A j \in 1 .. n + 1 : Append(First(f, n), r)[j].id < k
    BY ONLY <2>1, <2>2, <2>3, LoggedMore, Zenon
  <2> HIDE DEF m
  <2> QED
    BY <1>12, <2>4
<1>14. next <= m /\ m \in Nat
  BY <1>2
<1> HIDE DEF m
<1>15. Goes /\ PastOrder'
  <2>1. \A x \in past : Logged(logs'[x.man.active].frames, x.man.nextId)
    BY <1>9, <1>10 DEF Ordered, PastOrder, FramesOf
  <2> QED
    BY <1>1, <1>9, <1>10, <2>1, LogOrder
<1>16. MemOrder'
  <2>1. Segs' = Segs
    BY <1>1, <1>3 DEF Segs
  <2>2. InStep' \/ OutOfStep'
    BY <1>1, <1>3 DEF InStep, OutOfStep, Ordered, MemOrder
  <2>3. \A id \in AllIds(Segs) : id < m
    <3>1. \A id \in AllIds(Segs) : id < next /\ id \in Nat
      <4>1. \A id \in AllIds(Segs) : id < next
        BY <1>1 DEF Ordered, MemOrder
      <4>2. \A id \in AllIds(Segs) : id \in Nat
        <5>1. Segs \subseteq PartType
          BY <1>1, MineType DEF Ordered, Made
        <5>2. AllIds(Segs) \subseteq Ids
          BY <5>1 DEF AllIds, IdsIn, Held, Noted, Dead, PartType, EntryRec, EventRec
        <5> QED
          BY <5>2 DEF Ids
      <4> QED
        BY <4>1, <4>2
    <3> QED
      BY <1>2, <1>14, <3>1
  <2>4. \A d \in past : d.man.active = a => Counted(f, n + 1, d.man.nextId, m)
    <3>1. Follows(n)
      BY <1>1, LogFollows
    <3> QED
      BY <1>13, <3>1 DEF Follows, f
  <2>5. \A j \in 1 .. n + 1 : f[j].id < m
    <3>1. ASSUME NEW j \in 1 .. n + 1 PROVE f[j].id < m
      <4>1. CASE j \in 1 .. n
        <5>1. f[j].id \in Nat
          <6>1. j \in 1 .. Len(f)
            BY <1>8
          <6>2. f[j] \in Rec
            BY <1>8, <6>1, ElementOfSeq
          <6> QED
            BY <6>2, RecIds
        <5> QED
          BY <1>2, <1>8, <1>14, <4>1, <5>1
      <4>2. CASE j = n + 1
        <5>1. r.id \in Nat
          BY <1>6, RecIds
        <5> QED
          BY <1>2, <1>5, <1>6, <4>2, <5>1 DEF m
      <4> QED
        BY <1>2, <4>1, <4>2
    <3> QED
      BY <3>1
  <2> QED
    BY <1>1, <1>3, <1>7, <1>11, <2>1, <2>2, <2>3, <2>4, <2>5 DEF MemOrder
<1> QED
  BY <1>15, <1>16 DEF Kept

LEMMA LossOrder == ASSUME Ordered, PowerLoss PROVE Kept
<1>1. PICK d \in past : dir' = d /\ synced' = d /\ past' = {d}
  BY DEF PowerLoss
<1>2. pc' = "closed"
  BY DEF PowerLoss
<1>3. \A x \in DOMAIN logs : logs'[x].frames = First(logs[x].frames, logs[x].safe) /\ Steadily(x)
  BY LossLogs DEF Ordered
<1>4. \A x \in past : x.man.active \in DOMAIN logs
  BY DEF Ordered, Made, Past
<1>5. \A x \in past' : Comes(x)
  BY <1>1 DEF Comes
<1>6. Goes
  BY <1>1, <1>3, <1>4, <1>5 DEF Goes
<1>7. ASSUME NEW x \in past PROVE Logged(logs'[x.man.active].frames, x.man.nextId)
  <2> DEFINE f == logs[x.man.active].frames
             s == logs[x.man.active].safe
  <2>1. f \in Seq(Rec) /\ s \in 0 .. Len(f)
    BY <1>4, LogsAre DEF Ordered, LogFacts
  <2>2. Logged(f, x.man.nextId)
    BY DEF Ordered, PastOrder, FramesOf
  <2>3. logs'[x.man.active].frames = First(f, s)
    BY <1>3, <1>4
  <2> HIDE DEF f, s
  <2> QED
    BY <2>1, <2>2, <2>3, LoggedFirst
<1>8. d.man.nextFile <= d.man.nextFile
  BY DirSet DEF Ordered, Plain, ManType
<1>9. PastOrder'
  BY <1>1, <1>5, <1>7, <1>8, PastGrow DEF Ordered
<1> QED
  BY <1>2, <1>6, <1>9 DEF Kept, MemOrder

\* An open cuts nothing of a log whose entries' ids ascend.
LEMMA GoodAscends ==
    ASSUME NEW f \in Seq(Rec), Ascends(f, Len(f))
    PROVE  Good(f) = f
<1> DEFINE n == Len(f)
           S == {k \in 0 .. n : Ascends(f, k)}
<1>1. n \in Nat
  BY LenProperties
<1>2. Ascends(f, n)
  OBVIOUS
<1> HIDE DEF n
<1>3. n \in S /\ S \subseteq Nat /\ \A k \in S : k <= n
  BY <1>1, <1>2
<1>4. Max(S) \in S /\ n <= Max(S)
  BY <1>1, <1>3, MaxIn
<1>5. Max(S) = n
  <2> PICK x : x = Max(S)
    OBVIOUS
  <2>1. x \in Nat /\ x <= n /\ n <= x
    BY <1>3, <1>4
  <2> QED
    BY <1>1, <2>1
<1>6. Good(f) = First(f, n)
  BY <1>5 DEF Good, n
<1>7. /\ First(f, n) \in Seq(Rec) /\ Len(First(f, n)) = n
      /\ \A i \in 1 .. n : First(f, n)[i] = f[i]
  <2>1. n \in 0 .. Len(f)
    BY <1>1 DEF n
  <2> QED
    BY <2>1, FirstOf
<1>8. First(f, n) = f
  <2>1. Len(f) = n
    BY DEF n
  <2> QED
    BY <1>7, <2>1, SeqEqual
<1> QED
  BY <1>6, <1>8

LEMMA GoodIsAll ==
    ASSUME NEW f \in Seq(Rec), NEW base, Logged(f, base)
    PROVE  Good(f) = f
<1> DEFINE n == Len(f)
<1>1. n \in Nat
  BY LenProperties
<1>2. Ascends(f, n)
  <2> SUFFICES ASSUME NEW i \in 1 .. n, NEW j \in 1 .. n, i < j,
                      f[i].kind = "entry", f[j].kind = "entry"
               PROVE  f[i].id < f[j].id
    BY DEF Ascends
  <2>1. i \in 1 .. j - 1
    BY <1>1
  <2> QED
    BY <2>1 DEF Logged
<1> QED
  BY <1>2, GoodAscends

\* The next id of an open is above every id, and no more than needed.
LEMMA NextIdFits ==
    ASSUME NEW d \in DirType, NEW f \in Seq(Rec), Openable(d), 0 < d.man.nextId,
           Logged(f, d.man.nextId), \A id \in AllIds(SegsOf(d)) : id < d.man.nextId
    PROVE  /\ \A j \in 1 .. Len(f) : f[j].id < NextId(d, f)
           /\ Counted(f, Len(f), d.man.nextId, NextId(d, f))
<1> DEFINE F == {x.id + 1 : x \in OfKind(Range(f), {"entry"})}
           H == Held(SegsOf(d))
           E == {e.id + 1 : e \in H}
           base == d.man.nextId
           S == {1, base} \cup F \cup E
           b == base + MaxId + 1
           n == Len(f)
<1>1. MaxId \in Nat /\ base \in Nat /\ d.segs \in SegFuns
  BY StoreAssumption DEF DirType, ManType
<1>2. n \in Nat /\ Range(f) = {f[j] : j \in 1 .. n} /\ Range(f) \subseteq Rec
      /\ \A j \in 1 .. n : f[j].id \in Nat
  <2>1. n \in Nat /\ DOMAIN f = 1 .. n /\ Range(f) \subseteq Rec
    BY LenProperties, OfRange
  <2>2. Range(f) = {f[j] : j \in 1 .. n}
    BY <2>1 DEF Range
  <2>3. \A j \in 1 .. n : f[j] \in Rec
    BY ElementOfSeq
  <2> QED
    BY <2>1, <2>2, <2>3, RecIds
<1>3. F \subseteq Nat /\ \A x \in F : x <= b
  <2>1. \A r \in OfKind(Range(f), {"entry"}) : r.id \in Ids
    BY <1>2, RecIds DEF OfKind
  <2>2. \A k \in Ids : k + 1 \in Nat /\ k + 1 <= b
    BY <1>1 DEF Ids
  <2> QED
    BY <2>1, <2>2
<1>4. E \subseteq Nat /\ (\A x \in E : x <= b) /\ \A x \in E : x <= base
  <2>1. \A i \in Range(d.man.segments) : d.segs[i] \in PartType
    BY <1>1, SegOf DEF Openable
  <2>2. \A e \in H : e.id \in Ids /\ e.id < base
    <3>1. \A e \in H : e.id \in Ids
      BY <2>1 DEF Held, SegsOf, PartType, EntryRec
    <3>2. \A e \in H : e.id \in AllIds(SegsOf(d))
      BY DEF AllIds, IdsIn
    <3> QED
      BY <3>1, <3>2
  <2>3. \A k \in Ids : k + 1 \in Nat /\ k + 1 <= b /\ (k < base => k + 1 <= base)
    BY <1>1 DEF Ids
  <2> HIDE DEF H, b, base
  <2> QED
    BY <2>2, <2>3
<1>5. b \in Nat /\ 1 <= b /\ base <= b /\ 1 <= base
  BY <1>1
<1>6. NextId(d, f) = Max(S)
  BY DEF NextId, SegsOf
<1>7. \A x \in F : \E j \in 1 .. n : f[j].kind = "entry" /\ x = f[j].id + 1
  BY <1>2 DEF OfKind
<1>8. \A j \in 1 .. n : f[j].kind = "entry" => f[j].id + 1 \in F
  BY <1>2 DEF OfKind
<1> HIDE DEF F, E, b, base
<1>9. S \subseteq Nat /\ S # {} /\ base \in S /\ F \subseteq S /\ \A x \in S : x <= b
  <2>1. {1, base} \subseteq Nat /\ \A x \in {1, base} : x <= b
    BY <1>1, <1>5
  <2> QED
    BY ONLY <1>3, <1>4, <2>1
<1>10. \A x \in S : x = 1 \/ x = base \/ x \in F \/ x \in E
  OBVIOUS
<1> HIDE DEF S
<1> PICK m : m = Max(S)
  OBVIOUS
<1>11. m \in S /\ \A x \in S : x <= m
  BY <1>5, <1>9, MaxIn
<1>12. m \in Nat /\ base <= m
  BY <1>9, <1>11
<1>13. Counted(f, n, base, m)
  <2>1. CASE m = 1 \/ m = base \/ m \in E
    <3>1. m <= base
      BY <1>4, <1>5, <1>12, <2>1
    <3>2. m = base
      BY <1>1, <1>12, <3>1
    <3> QED
      BY <1>12, <3>2 DEF Counted
  <2>2. CASE m \in F
    BY <1>7, <1>12, <2>2 DEF Counted
  <2> QED
    BY <1>10, <1>11, <2>1, <2>2
<1>14. ASSUME NEW j \in 1 .. n PROVE f[j].id < m
  <2>1. \A i \in 1 .. n : f[i].kind = "entry" => f[i].id < m
    <3>1. \A i \in 1 .. n : f[i].kind = "entry" => f[i].id + 1 <= m
      BY <1>8, <1>9, <1>11
    <3> QED
      BY <1>2, <1>12, <3>1
  <2>2. CASE f[j].kind = "entry"
    BY <2>1, <2>2
  <2>3. CASE f[j].kind # "entry" /\ f[j].id < base
    BY <1>1, <1>2, <1>12, <2>3
  <2>4. CASE \E i \in 1 .. j - 1 : f[i].kind = "entry" /\ f[j].id <= f[i].id
    <3>1. PICK i \in 1 .. j - 1 : f[i].kind = "entry" /\ f[j].id <= f[i].id
      BY <2>4
    <3>2. i \in 1 .. n
      BY <1>2
    <3> QED
      BY <1>2, <1>12, <2>1, <3>1, <3>2
  <2> QED
    BY <2>2, <2>3, <2>4 DEF Logged, base, n
<1> QED
  BY <1>6, <1>13, <1>14 DEF base, n

LEMMA OpenOrder == ASSUME Ordered, Open PROVE Kept
<1> PICK a : a = dir.man.active
  OBVIOUS
<1> DEFINE man == dir.man
           log == logs[a]
           f == log.frames
           n == Len(f)
           segs == Restrict(dir.segs, Range(man.segments))
           d == [dir EXCEPT !.logs = {a}, !.segs = segs]
           v == [frames |-> f, safe |-> Min({log.safe, n}), accepted |-> n]
<1>1. /\ dir \in past /\ dir \in DirType /\ man \in ManType /\ Numbered(man) /\ Openable(dir)
      /\ a \in DOMAIN logs /\ \A x \in past : x.man.active \in DOMAIN logs
  BY DirSet DEF Ordered, Plain, Made, Past
<1>2. /\ f \in Seq(Rec) /\ n \in Nat /\ log.safe \in Nat /\ log.safe <= n
      /\ log.accepted \in Nat /\ log.accepted <= n /\ n <= log.accepted + 1
      /\ Sure(a) = IF log.safe <= log.accepted THEN log.safe ELSE log.accepted
  BY <1>1, LogsAre DEF Ordered, LogFacts, Sized
<1>3. Logged(f, man.nextId) /\ \A id \in AllIds(SegsOf(dir)) : id < man.nextId
  BY <1>1 DEF Ordered, PastOrder, FramesOf
<1>4. Good(f) = f
  <2> HIDE DEF f
  <2> QED
    BY <1>2, <1>3, GoodIsAll
<1>5. /\ pc = "closed" /\ pc' = "idle" /\ call' = call /\ Change(d)
      /\ logs' = [logs EXCEPT ![a] = v]
      /\ mem' = [active |-> a, len |-> n, segments |-> man.segments,
                 nextFile |-> man.nextFile, nextId |-> NextId(dir, f)]
  BY <1>4 DEF Open
<1>6. v.frames = f /\ v.accepted = n /\ v.safe = Min({log.safe, n})
  OBVIOUS
<1> HIDE DEF v
<1>7. /\ \A x \in DOMAIN logs : x # a => logs'[x] = logs[x]
      /\ logs'[a] = v
  BY <1>1, <1>5
<1>8. Gains(a)
  <2>1. Min({log.safe, n}) = log.safe
    BY <1>2, MinOfTwo
  <2>2. Sure(a)' = Min({log.safe, n})
    BY <1>6, <1>7, <2>1 DEF Sure
  <2>3. Sure(a)' \in {Sure(a), Sure(a) + 1}
    BY <1>2, <2>1, <2>2
  <2> QED
    BY <1>6, <1>7, <2>3 DEF Gains
<1>9. d.man = man /\ d.segs = segs
  BY <1>1 DEF DirType
<1>10. \A i \in Range(man.segments) : segs[i] = dir.segs[i]
  BY <1>1 DEF Restrict, Openable
<1> HIDE DEF segs, d
<1>11. SegsOf(d) = SegsOf(dir)
  BY <1>9, <1>10 DEF SegsOf
<1>12. dir' = d /\ past' = past \cup {d} /\ synced' = synced /\ synced \in past
  BY <1>5 DEF Change, Ordered, Plain
<1>13. \A x \in past' : Comes(x)
  BY <1>1, <1>9, <1>11, <1>12 DEF Comes
<1>14. Goes
  BY <1>1, <1>7, <1>8, <1>12, <1>13, Untouched DEF Goes
<1>15. PastOrder'
  <2>1. \A x \in past : Logged(logs'[x.man.active].frames, x.man.nextId)
    BY <1>1, <1>6, <1>7 DEF Ordered, PastOrder, FramesOf
  <2>2. \A x \in past' : x.man.nextFile <= dir'.man.nextFile
    BY <1>1, <1>9, <1>12 DEF Ordered, PastOrder
  <2> QED
    BY <1>13, <2>1, <2>2, PastGrow DEF Ordered
<1>16. /\ mem'.active = a /\ mem'.len = n /\ mem'.segments = man.segments
       /\ mem'.nextFile = man.nextFile /\ mem'.nextId = NextId(dir, f)
  <2> DEFINE k == NextId(dir, f)
  <2> HIDE DEF f, n, k
  <2> QED
    BY <1>5
<1>17. /\ \A j \in 1 .. n : f[j].id < NextId(dir, f)
       /\ Counted(f, n, man.nextId, NextId(dir, f))
  <2>1. 0 < dir.man.nextId
    BY <1>1 DEF Numbered
  <2> HIDE DEF f
  <2> QED
    BY <1>1, <1>2, <1>3, <2>1, NextIdFits
<1>18. MemOrder'
  <2> PICK next : next = NextId(dir, f)
    OBVIOUS
  <2>1. Segs' = SegsOf(dir)
    BY <1>9, <1>11, <1>12, <1>16 DEF Segs, SegsOf
  <2>2. \A id \in AllIds(SegsOf(dir)) : id < next
    <3>1. man.nextId \in Nat /\ next \in Nat /\ man.nextId <= next
      BY <1>1, <1>2, <1>17, NextIdType DEF ManType, Openable, Counted
    <3>2. \A id \in AllIds(SegsOf(dir)) : id \in Nat
      <4>1. dir.segs \in SegFuns
        BY <1>1, DirSet
      <4>2. SegsOf(dir) \subseteq PartType
        BY <1>1, <4>1, SegOf DEF SegsOf, Openable
      <4>3. AllIds(SegsOf(dir)) \subseteq Ids
        BY <4>2 DEF AllIds, IdsIn, Held, Noted, Dead, PartType, EntryRec, EventRec
      <4> QED
        BY <4>3 DEF Ids
    <3> QED
      BY <1>3, <3>1, <3>2
  <2>3. call' = NoCall
    BY <1>5 DEF Ordered, Sized
  <2>4. InStep'
    BY <1>9, <1>12, <1>16 DEF InStep
  <2>5. \A x \in past' : x.man.active = a => x.man.nextId = man.nextId
    <3>1. \A x \in past' : \E e \in past : e.man = x.man
      BY <1>13 DEF Comes
    <3> QED
      BY <1>1, <3>1 DEF Ordered, PastOrder
  <2>6. logs'[mem'.active].frames = f
    BY <1>6, <1>7, <1>16
  <2> HIDE DEF f, n, man
  <2> QED
    BY <1>5, <1>16, <1>17, <2>1, <2>2, <2>3, <2>4, <2>5, <2>6, NothingFits DEF MemOrder
<1> QED
  BY <1>14, <1>15, <1>18 DEF Kept

\* Every step within a history.
LEMMA MoveOrder == ASSUME Ordered, Move, ~Begin, ~WritesOver PROVE Kept
<1>1. CASE Work
  <2>1. CASE Seal \/ Merge
    BY <2>1, IdleOrder, SegmentOrder
  <2>2. CASE NewLog
    BY <2>2, NewLogOrder DEF NewLog
  <2> QED
    BY <1>1, <2>1, <2>2, WriteOrder, SyncOrder, RenameOrder, SyncSealOrder, IdleOrder,
       MergeManifestOrder, SyncMergeOrder DEF Work
<1> QED
  BY <1>1, OpenOrder, CallOrder, IdleOrder, WritebackOrder, FailsOrder, KillOrder, LossOrder DEF Move

---------------------------------------------------------------------------
(* The promise. *)

\* What lasts, of the directory that lasts.
SyncedSays ==
    \E d \in past :
        /\ d = synced
        /\ Lasting(synced) = Said(SegsOf(d), PartOf(First(FramesOf(d), Sure(d.man.active))))
LEMMA LastsOfSynced == Plain /\ Made => SyncedSays
BY LastingSays DEF Plain, SaidOf, SyncedSays

\* While all is sure, each id that lasts is one any directory knows was given.
ShownKnown ==
    ~unsure => \A d \in past : \A id \in DOMAIN Lasting(synced) :
        Covered(FramesOf(d), d.man.nextId, Sure(d.man.active), id)
LEMMA LastsKnown == Plain /\ Made /\ Sized /\ PastOrder => ShownKnown
BY Alike, LastingFits DEF AllAlike, ShownFits, ShownKnown

\* As long as no more of the log is sure, the same lasts.
LEMMA SteadyShown ==
    ASSUME Plain, Made, Plain', Made', shown = Lasting(synced), shown' = Lasting(synced)',
           NEW d \in past, synced' = d, Lasting(d) = Lasting(synced), Steadily(d.man.active)
    PROVE  shown' = shown
<1> PICK a : a = d.man.active
  OBVIOUS
<1>1. SyncedSays'
  BY LastsOfSynced, PTL
<1>2. shown' = Said(SegsOf(d), PartOf(First(logs'[a].frames, Sure(a)')))
  BY <1>1 DEF SyncedSays, FramesOf, SegsOf, Said
<1>3. shown = Said(SegsOf(d), PartOf(First(logs[a].frames, Sure(a))))
  BY LastingSays DEF SaidOf, FramesOf
<1>4. First(logs'[a].frames, Sure(a)') = First(logs[a].frames, Sure(a))
  BY DEF Steadily
<1> QED
  BY <1>2, <1>3, <1>4

\* What lasts stays, or is said with one record more of the log that lasts.
LEMMA OneMore ==
    ASSUME Ordered, ~unsure, Plain', Made', Goes,
           shown = Lasting(synced), shown' = Lasting(synced)', shown' # shown
    PROVE  \E d \in past, f \in Seq(Rec), k \in Nat :
              /\ f = FramesOf(d) /\ k = Sure(d.man.active) /\ k + 1 <= Len(f)
              /\ shown = Said(SegsOf(d), PartOf(First(f, k)))
              /\ shown' = Said(SegsOf(d), PartOf(First(f, k + 1)))
<1>1. PICK d \in past : d = synced'
  BY DEF Goes
<1> PICK a : a = d.man.active
  OBVIOUS
<1>2. Lasting(d) = Lasting(synced)
  BY Alike DEF AllAlike, Ordered
<1>3. Gains(a)
  <2>1. ~Steadily(a)
    BY <1>1, <1>2, SteadyShown DEF Ordered
  <2> QED
    BY <1>1, <2>1 DEF Goes
<1> DEFINE f == logs[a].frames
           k == Sure(a)
           S == SegsOf(d)
<1>4. SyncedSays' /\ LogFacts'
  BY LastsOfSynced, LogsAre, PTL
<1>5. shown' = Said(S, PartOf(First(f, Sure(a)')))
  <2>1. shown' = Said(SegsOf(d), PartOf(First(logs'[a].frames, Sure(a)')))
    BY <1>1, <1>4 DEF SyncedSays, FramesOf, SegsOf, Said
  <2> QED
    BY <1>3, <2>1 DEF Gains
<1>6. shown = Said(S, PartOf(First(f, k)))
  BY <1>2, LastingSays DEF SaidOf, FramesOf, Ordered
<1>7. Sure(a)' = k + 1
  <2>1. Sure(a)' # k
    BY <1>5, <1>6
  <2> QED
    BY <1>3, <2>1 DEF Gains
<1>8. f \in Seq(Rec) /\ k \in Nat
  BY LogsAre DEF LogFacts, Ordered, Made, Past
<1>9. k + 1 <= Len(f)
  <2>1. a \in DOMAIN logs'
    BY <1>1 DEF Made, Past, Plain
  <2>2. /\ logs'[a].safe \in Nat /\ logs'[a].safe <= Len(logs'[a].frames)
        /\ logs'[a].accepted \in Nat /\ Len(logs'[a].frames) \in Nat
        /\ Sure(a)' = IF logs'[a].safe <= logs'[a].accepted THEN logs'[a].safe
                                                            ELSE logs'[a].accepted
    BY <1>4, <2>1 DEF LogFacts
  <2>3. Sure(a)' <= Len(logs'[a].frames)
    BY <2>2
  <2> QED
    BY <1>3, <1>7, <2>3 DEF Gains
<1>10. f = FramesOf(d) /\ k = Sure(d.man.active) /\ S = SegsOf(d)
  BY DEF FramesOf
<1>11. shown' = Said(S, PartOf(First(f, k + 1)))
  BY <1>5, <1>7
<1> HIDE DEF f, k, S
<1> QED
  BY <1>6, <1>8, <1>9, <1>10, <1>11

LEMMA OperationStep ==
    ASSUME Ordered, ~unsure, Plain', Made', Goes,
           shown = Lasting(synced), shown' = Lasting(synced)',
           given' = given \cup DOMAIN shown', DOMAIN shown \subseteq given
    PROVE  Promise!Operation \/ UNCHANGED <<shown, given>>
<1>1. CASE shown' = shown
  BY <1>1
<1>2. CASE shown' # shown
  <2>1. PICK d \in past, f \in Seq(Rec), k \in Nat :
              /\ f = FramesOf(d) /\ k = Sure(d.man.active) /\ k + 1 <= Len(f)
              /\ shown = Said(SegsOf(d), PartOf(First(f, k)))
              /\ shown' = Said(SegsOf(d), PartOf(First(f, k + 1)))
    BY <1>2, OneMore
  <2> PICK S, base : S = SegsOf(d) /\ base = d.man.nextId
    OBVIOUS
  <2>2. base \in Nat
    BY DirSet DEF Ordered, Plain, ManType
  <2>3. Logged(f, base) /\ \A id \in AllIds(S) : id < base
    BY <2>1 DEF Ordered, PastOrder
  <2>4. \A id \in given : Covered(f, base, k, id)
    BY <2>1 DEF Ordered, GivenFits
  <2>5. given \subseteq Ids
    BY DEF Ordered
  <2> QED
    BY <2>1, <2>2, <2>3, <2>4, <2>5, RecordMore
<1> QED
  BY <1>1, <1>2

LEMMA GivenStep ==
    ASSUME Ordered, Goes, Plain', Made', Sized', PastOrder', ~unsure',
           shown' = Lasting(synced)',
           given' = (IF unsure THEN {} ELSE given) \cup DOMAIN shown'
    PROVE  GivenFits'
<1>1. ShownKnown' /\ LogFacts'
  BY LastsKnown, LogsAre, PTL
<1> SUFFICES ASSUME NEW d \in past', NEW id \in given'
             PROVE  Covered(FramesOf(d)', d.man.nextId, Sure(d.man.active)', id)
  BY DEF GivenFits, Covered
<1> PICK a, base : a = d.man.active /\ base = d.man.nextId
  OBVIOUS
<1>2. CASE id \in DOMAIN shown'
  BY <1>1, <1>2 DEF ShownKnown, Covered
<1>3. CASE ~unsure /\ id \in given /\ id < base
  BY <1>3 DEF Covered
<1>4. CASE ~unsure /\ id \in given /\ Comes(d)
  <2>1. PICK e \in past : e.man = d.man
    BY <1>4 DEF Comes
  <2> DEFINE f == logs[a].frames
             g == logs'[a].frames
             k == Sure(a)
             l == Sure(a)'
  <2>2. Covered(f, base, k, id)
    BY <1>4, <2>1 DEF Ordered, GivenFits, FramesOf
  <2>3. a \in DOMAIN logs /\ a \in DOMAIN logs'
    BY <2>1 DEF Ordered, Made, Past
  <2>4. f \in Seq(Rec) /\ k \in Nat /\ k \in 0 .. Len(f)
    BY <2>3, LogsAre DEF Ordered, LogFacts
  <2>5. g \in Seq(Rec) /\ l \in Nat /\ l \in 0 .. Len(g)
    <3>1. /\ g \in Seq(Rec) /\ Len(g) \in Nat
          /\ logs'[a].safe \in Nat /\ logs'[a].safe <= Len(g)
          /\ logs'[a].accepted \in Nat /\ logs'[a].accepted <= Len(g)
          /\ l = IF logs'[a].safe <= logs'[a].accepted THEN logs'[a].safe ELSE logs'[a].accepted
      BY <1>1, <2>3 DEF LogFacts
    <3> QED
      BY <3>1
  <2>6. k <= l /\ \A j \in 1 .. k : g[j] = f[j]
    <3>1. CASE Steadily(a)
      <4>1. l = k /\ First(g, k) = First(f, k)
        BY <3>1 DEF Steadily
      <4> HIDE DEF f, g, k, l
      <4>2. \A j \in 1 .. k : First(g, k)[j] = g[j] /\ First(f, k)[j] = f[j]
        BY <2>4, <2>5, <4>1, FirstOf
      <4> QED
        BY <2>4, <4>1, <4>2
    <3>2. CASE Gains(a)
      BY <2>4, <3>2 DEF Gains
    <3> QED
      BY <2>1, <3>1, <3>2 DEF Goes
  <2> HIDE DEF f, g, k, l
  <2>7. Covered(g, base, l, id)
    <3>1. \A j \in 1 .. k : j \in 1 .. l
      BY <2>4, <2>5, <2>6
    <3> QED
      BY <2>2, <2>6, <3>1 DEF Covered
  <2> QED
    BY <2>7 DEF g, l, FramesOf
<1> QED
  BY <1>2, <1>3, <1>4 DEF Goes

\* What is shown is what lasts, and, unless a segment was written over, the
\* history's files and the process know of every id that was given.
PInv ==
    /\ shown = Lasting(synced) /\ spoiled \in BOOLEAN /\ Sized
    /\ Made /\ ~spoiled => PastOrder /\ MemOrder /\ (~unsure => GivenFits)

LEMMA NothingSaid == Answers({PartOf(<<>>)}) = <<>> /\ DOMAIN <<>> = {} /\ AllIds({}) = {}
<1> DEFINE P == {PartOf(<<>>)}
           A == Answers(P)
<1>1. Held(P) = {}
  BY EmptyPart DEF Held
<1>2. DOMAIN A = {} /\ A = [x \in DOMAIN A |-> A[x]]
  BY <1>1 DEF Answers, IdsIn
<1>3. DOMAIN <<>> = {} /\ <<>> = [x \in DOMAIN <<>> |-> <<>>[x]]
  OBVIOUS
<1> HIDE DEF A
<1>4. A = <<>>
  BY <1>2, <1>3
<1>5. AllIds({}) = {}
  BY DEF AllIds, IdsIn, Held, Noted, Dead
<1> QED
  BY <1>3, <1>4, <1>5 DEF A, P

\* The first history's files.
LEMMA BeginOrder ==
    ASSUME Core, Begin, call = NoCall
    PROVE  /\ Sized' /\ PastOrder' /\ MemOrder' /\ Lasting(synced)' = <<>>
<1> DEFINE man == [active |-> 1, segments |-> <<>>, nextFile |-> 2, nextId |-> 1]
           d == [logs |-> {1}, segs |-> <<>>, man |-> man]
<1>1. /\ pc' = "idle" /\ logs' = [n \in {1} |-> EmptyLog] /\ dir' = d /\ synced' = d
      /\ past' = {d} /\ call' = NoCall
      /\ mem' = [active |-> 1, len |-> 0, segments |-> <<>>, nextFile |-> 2, nextId |-> 1]
  BY DEF Begin
<1>2. DOMAIN logs' = {1} /\ logs'[1] = EmptyLog /\ EmptyLog.frames = <<>> /\ EmptyLog.accepted = 0
      /\ EmptyLog.safe = 0
  BY <1>1 DEF EmptyLog
<1>3. Range(<<>>) = {} /\ Len(<<>>) = 0 /\ \A j : j \notin 1 .. 0
  BY EmptySeq DEF Range
<1>4. /\ d.man = man /\ d.segs = <<>> /\ man.active = 1 /\ man.segments = <<>>
      /\ man.nextFile = 2 /\ man.nextId = 1
  OBVIOUS
<1>5. /\ mem'.active = 1 /\ mem'.segments = <<>> /\ mem'.len = 0
      /\ mem'.nextFile = 2 /\ mem'.nextId = 1
  BY <1>1
<1> HIDE DEF d, man
<1>6. Sized'
  BY <1>1, <1>2, <1>3 DEF Sized
<1>7. PastOrder'
  <2>1. {d.segs[i] : i \in Range(d.man.segments)} = {}
    BY <1>3, <1>4
  <2>2. Logged(<<>>, 1)
    BY <1>3 DEF Logged
  <2>3. d.man.nextFile <= d.man.nextFile
    BY <1>4
  <2>4. /\ \A id \in AllIds(SegsOf(d)) : id < d.man.nextId
        /\ Logged(logs'[d.man.active].frames, d.man.nextId)
    BY <1>2, <1>4, <2>1, <2>2, NothingSaid DEF SegsOf
  <2>5. \A x \in past' : x = d
    BY <1>1
  <2> QED
    BY <1>1, <2>3, <2>4, <2>5 DEF PastOrder, SegsOf, FramesOf
<1>8. MemOrder'
  <2>1. Segs' = {}
    BY <1>3, <1>5 DEF Segs
  <2>2. InStep'
    BY <1>1, <1>4, <1>5 DEF InStep
  <2>3. \A f : Counted(f, 0, 1, 1)
    BY DEF Counted
  <2> QED
    BY <1>1, <1>3, <1>4, <1>5, <2>1, <2>2, <2>3, NothingSaid, NothingFits DEF MemOrder
<1>9. Lasting(synced)' = <<>>
  <2>1. d.man # NoMan
    BY <1>4 DEF NoMan
  <2>2. Min({0, 0}) = 0
    BY MinOfTwo
  <2>3. First(<<>>, 0) = <<>>
    <3>1. <<>> \in Seq(Nat) /\ Len(<<>>) = 0 /\ 0 \in 0 .. 0
      BY EmptySeq
    <3>2. First(<<>>, 0) \in Seq(Nat) /\ Len(First(<<>>, 0)) = 0
      BY ONLY <3>1, FirstOf
    <3> QED
      BY <3>2, EmptySeq
  <2>4. {d.segs[i] : i \in Range(d.man.segments)} \cup {PartOf(<<>>)} = {PartOf(<<>>)}
    BY <1>3, <1>4
  <2>5. Lasting(synced)' = Answers({d.segs[i] : i \in Range(d.man.segments)} \cup {PartOf(<<>>)})
    BY <1>1, <1>2, <1>4, <2>1, <2>2, <2>3 DEF Lasting, Parts
  <2> QED
    BY <2>4, <2>5, NothingSaid
<1> QED
  BY <1>6, <1>7, <1>8, <1>9

LEMMA NewMoves == ASSUME New, Move PROVE Begin \/ PowerLoss
<1>1. ~Open
  BY DEF New, Open
<1>2. ~Writeback
  BY DEF New, Writeback
<1>3. pc = "closed"
  BY DEF New
<1>4. ~Call /\ ~Return /\ ~LogExists /\ ~Fails /\ ~Kill
  BY <1>3 DEF Call, Return, LogExists, Fails, Kill
<1>5. ~Work
  BY <1>3 DEF Work, Write, Sync, Seal, NewLog, RenameManifest, SyncSeal, Tiers, Merge,
              MergeManifest, SyncMerge
<1> QED
  BY <1>1, <1>2, <1>4, <1>5 DEF Move

LEMMA NotBoth == ~(New /\ Made)
<1>1. NoMan.active = 0
  BY DEF NoMan
<1> QED
  BY <1>1 DEF New, Made, Past, Numbered

\* The power goes before there is a history.
LEMMA NewLoss ==
    ASSUME Core, New, Sized, PowerLoss
    PROVE  Sized' /\ ~Made' /\ Lasting(synced)' = <<>>
<1>1. /\ pc' = "closed" /\ call' = NoCall /\ dir' = dir /\ synced' = dir /\ past' = past
      /\ DOMAIN logs' = {}
  BY DEF PowerLoss, New
<1>2. Sized'
  BY <1>1 DEF Sized
<1>3. ~Made'
  <2>1. New'
    BY <1>1 DEF New
  <2>2. New' => ~Made'
    BY NotBoth, PTL
  <2> QED
    BY <2>1, <2>2
<1>4. Lasting(synced)' = <<>>
  BY <1>1 DEF Lasting, New
<1> QED
  BY <1>2, <1>3, <1>4

LEMMA PStarts == ASSUME Init PROVE PInv
<1>1. New /\ DOMAIN logs = {}
  <2>1. DOMAIN <<>> = {}
    OBVIOUS
  <2> QED
    BY <2>1 DEF Init, New
<1>2. shown = Lasting(synced)
  BY DEF Init, Lasting
<1>3. Sized
  BY DEF Init, Sized
<1> QED
  BY <1>1, <1>2, <1>3, NotBoth DEF PInv, Init

\* While all is sure, no step writes over a segment that the manifest names.
LEMMA SureNames == ASSUME Plain, Made, ~unsure PROVE ~WritesOver
<1> SUFFICES ASSUME WritesOver PROVE FALSE
  OBVIOUS
<1>1. pc \in {"seal", "merge"} /\ mem.nextFile \in Range(dir.man.segments)
  BY DEF WritesOver
<1>2. dir.man.segments = mem.segments
  BY <1>1 DEF Plain, Made, Agreed, Agree
<1> QED
  BY <1>1, <1>2, MemParts DEF Made

\* A step within a history.
LEMMA HistoryStep ==
    ASSUME IInv, PInv, Next, Made
    PROVE  /\ Plain' /\ Made' /\ ~Begin /\ Sized'
           /\ ~spoiled' => Ordered /\ Kept
<1>1. Move /\ Plain /\ (~spoiled' => ~spoiled /\ ~WritesOver)
  BY DEF Next, Move, IInv, Core
<1>2. ~Begin
  <2>1. NoMan.active = 0
    BY DEF NoMan
  <2> QED
    BY <1>1, <2>1 DEF Begin, Made, Past, Numbered, Plain
<1>3. Plain' /\ Made'
  <2>1. Core' /\ (New' => New)
    BY <1>1, MoveKeeps DEF IInv
  <2> QED
    BY <2>1, NotBoth DEF Core
<1>4. Sized'
  BY <1>1, <1>2, SizedKept DEF PInv
<1>5. ASSUME ~spoiled' PROVE Ordered /\ Kept
  <2>1. Ordered
    BY <1>1, <1>5 DEF Ordered, PInv, IInv, Lasts
  <2> QED
    BY <1>1, <1>2, <1>5, <2>1, MoveOrder
<1> QED
  BY <1>2, <1>3, <1>4, <1>5

LEMMA PKeeps == ASSUME IInv, PInv, [Next]_vars PROVE PInv'
<1>1. CASE Next
  <2>1. /\ shown' = Lasting(synced)' /\ spoiled' = (spoiled \/ WritesOver)
        /\ given' = (IF unsure THEN {} ELSE given) \cup DOMAIN shown'
    BY <1>1 DEF Next
  <2>2. spoiled' \in BOOLEAN
    BY <2>1 DEF PInv
  <2>3. CASE Made
    <3>1. Plain' /\ Made' /\ Sized' /\ (~spoiled' => Ordered /\ Kept)
      BY <1>1, <2>3, HistoryStep
    <3>2. ~spoiled' => PastOrder' /\ MemOrder' /\ (~unsure' => GivenFits')
      BY <2>1, <3>1, GivenStep DEF Kept
    <3> QED
      BY <2>1, <2>2, <3>1, <3>2 DEF PInv
  <2>4. CASE New
    <3>1. Core /\ Sized /\ pc = "closed" /\ given = {}
      BY <2>4 DEF IInv, PInv, New, Lasts
    <3>2. CASE Begin
      <4>1. call = NoCall
        BY <3>1 DEF Sized
      <4>2. Sized' /\ PastOrder' /\ MemOrder' /\ Lasting(synced)' = <<>>
        BY <3>1, <3>2, <4>1, BeginOrder
      <4>3. given' = {}
        BY <2>1, <3>1, <4>2, NothingSaid
      <4>4. GivenFits'
        BY <4>3 DEF GivenFits
      <4> QED
        BY <2>1, <2>2, <4>2, <4>4 DEF PInv
    <3>3. CASE PowerLoss
      <4>1. Sized' /\ ~Made'
        BY <2>4, <3>1, <3>3, NewLoss
      <4> QED
        BY <2>1, <2>2, <4>1 DEF PInv
    <3> QED
      BY <1>1, <2>4, <3>2, <3>3, NewMoves DEF Next, Move
  <2> QED
    BY <2>3, <2>4 DEF IInv, Core
<1>2. CASE UNCHANGED vars
  <2>1. /\ shown' = shown /\ spoiled' = spoiled /\ unsure' = unsure /\ given' = given
        /\ logs' = logs /\ dir' = dir /\ synced' = synced /\ past' = past /\ mem' = mem
        /\ pc' = pc /\ call' = call
    BY <1>2 DEF vars
  <2>2. Lasting(synced)' = Lasting(synced)
    BY <2>1 DEF Lasting, Parts
  <2>3. Sized'
    BY <2>1 DEF PInv, Sized
  <2>4. Made' => Made
    <3>1. New => New'
      BY <2>1 DEF New
    <3>2. ~(New /\ Made)'
      BY NotBoth, PTL
    <3> QED
      BY <3>1, <3>2 DEF IInv, Core
  <2>5. PastOrder => PastOrder'
    BY <2>1 DEF PastOrder, FramesOf, SegsOf
  <2>6. MemOrder => MemOrder'
    <3>1. Segs' = Segs
      BY <2>1 DEF Segs
    <3>2. InStep \/ OutOfStep => InStep' \/ OutOfStep'
      BY <2>1 DEF InStep, OutOfStep
    <3> QED
      BY <2>1, <3>1, <3>2 DEF MemOrder
  <2>7. GivenFits => GivenFits'
    BY <2>1 DEF GivenFits, FramesOf, Sure
  <2> QED
    BY <2>1, <2>2, <2>3, <2>4, <2>5, <2>6, <2>7 DEF PInv
<1> QED
  BY <1>1, <1>2

\* A step that leaves a manifest unsynced changes nothing that lasts.
LEMMA UnsureStep ==
    ASSUME Plain, Made, Sized, Move, ~unsure, unsure', Plain', Made',
           shown = Lasting(synced), shown' = Lasting(synced)'
    PROVE  shown' = shown
<1>1. Fails \/ Kill
  <2>1. unsure' # unsure
    OBVIOUS
  <2>2. ~Begin /\ ~Open /\ ~Return /\ ~Writeback /\ ~LogExists /\ ~PowerLoss
    BY <2>1 DEF Begin, Open, Return, Writeback, LogExists, PowerLoss
  <2>3. ~Call
    BY <2>1 DEF Call, Copy, Import, Record, Delete, Replace, Compact, Ask
  <2>4. ~Work
    BY <2>1 DEF Work, Write, Sync, Seal, NewLog, RenameManifest, SyncSeal, Tiers, Merge,
                MergeManifest, SyncMerge, SyncedThen
  <2> QED
    BY <2>2, <2>3, <2>4 DEF Move
<1> PICK d \in past : d = synced
  BY DEF Plain
<1> PICK a : a = d.man.active
  OBVIOUS
<1>2. a \in DOMAIN logs
  BY DEF Made, Past
<1>3. synced' = d /\ Steadily(a)
  <2>1. CASE Fails
    <3>1. synced' = synced /\ logs' = logs
      BY <2>1 DEF Fails
    <3> QED
      BY <3>1, Untouched
  <2>2. CASE Kill
    <3>1. PICK n \in mem.len .. Len(logs[mem.active].frames) :
             logs' = LogWith(First(logs[mem.active].frames, n), n)
      BY <2>2 DEF Kill
    <3>2. synced' = synced /\ pc # "closed"
      BY <2>2 DEF Kill
    <3> DEFINE f == First(logs[mem.active].frames, n)
    <3>3. Rewriting(f, n)
      BY <3>2, CutRewrites
    <3> HIDE DEF f
    <3>4. \A x \in DOMAIN logs : Steadily(x)
      BY <3>1, <3>2, <3>3, LogWithSteady DEF Rewriting, f
    <3> QED
      BY <1>2, <3>2, <3>4
  <2> QED
    BY <1>1, <2>1, <2>2
<1> QED
  BY <1>3, SteadyShown

\* A step of the store is a step of the history, or none.
LEMMA PromiseStep ==
    ASSUME IInv, PInv, [Next]_vars
    PROVE  [Promise!Next]_(Promise!history)
<1>1. CASE UNCHANGED vars
  BY <1>1 DEF vars, Promise!history
<1>2. CASE Next /\ (unsure \/ spoiled)
  BY <1>2 DEF Promise!Next
<1>3. CASE Next /\ ~unsure /\ ~spoiled
  <2>1. /\ Move /\ shown' = Lasting(synced)' /\ shown = Lasting(synced)
        /\ spoiled' = (spoiled \/ WritesOver) /\ given' = given \cup DOMAIN shown'
        /\ DOMAIN shown \subseteq given
    BY <1>3 DEF Next, Move, PInv, IInv, Lasts
  <2>2. CASE Made
    <3>1. Plain /\ Sized
      BY DEF IInv, Core, PInv
    <3>2. ~spoiled'
      BY <1>3, <2>1, <2>2, <3>1, SureNames
    <3>3. Plain' /\ Made' /\ Ordered /\ Kept
      BY <1>3, <2>2, <3>2, HistoryStep
    <3>4. CASE unsure'
      <4>1. shown' = shown
        BY <1>3, <2>1, <2>2, <3>1, <3>3, <3>4, UnsureStep
      <4>2. given' = given
        BY <2>1, <4>1
      <4> QED
        BY <3>4, <4>1, <4>2 DEF Promise!Next
    <3>5. CASE ~unsure'
      <4>1. Promise!Operation \/ UNCHANGED <<shown, given>>
        BY <1>3, <2>1, <3>3, OperationStep DEF Kept
      <4>2. (unsure \/ spoiled)' = (unsure \/ spoiled)
        BY <1>3, <3>2, <3>5
      <4> QED
        BY <4>1, <4>2 DEF Promise!Next, Promise!history
    <3> QED
      BY <3>4, <3>5
  <2>3. CASE New
    <3>1. Core /\ Sized /\ pc = "closed" /\ given = {} /\ call = NoCall /\ dir.man = NoMan
          /\ synced \in past /\ past = {dir}
      BY <2>3 DEF IInv, PInv, New, Lasts, Sized, Core, Plain
    <3>2. shown = <<>>
      BY <2>1, <3>1 DEF Lasting
    <3>3. Begin \/ PowerLoss
      BY <2>1, <2>3, NewMoves
    <3>4. shown' = <<>>
      BY <2>1, <2>3, <3>1, <3>3, BeginOrder, NewLoss
    <3>5. given' = {}
      BY <2>1, <3>1, <3>4, NothingSaid
    <3>6. unsure' = unsure /\ spoiled' = spoiled
      <4>1. unsure' = FALSE
        BY <1>3, <3>3 DEF Begin, PowerLoss
      <4>2. ~WritesOver
        BY <3>1 DEF WritesOver
      <4> QED
        BY <1>3, <2>1, <4>1, <4>2 DEF IInv, Core, Plain, PInv
    <3> QED
      BY <3>1, <3>2, <3>4, <3>5, <3>6 DEF Promise!history
  <2> QED
    BY <2>2, <2>3 DEF IInv, Core
<1> QED
  BY <1>1, <1>2, <1>3

\* ClipStore!KeepsPromise: what would last of the store after a loss of power
\* changes only as one operation of a history changes it - a new entry above every
\* id given before, an event more, an entry gone - or not at all: never by a seal,
\* a merge, a crash or an open, of any number of records, until a directory's sync
\* has failed after a manifest's rename (lib.rs 1-40, 1115-1145, 1209-1251).
THEOREM StoreKeepsPromise == Spec => KeepsPromise
<1>1. Init => IInv /\ PInv
  BY Starts, PStarts
<1>2. IInv /\ PInv /\ [Next]_vars => IInv' /\ PInv'
  BY NextKeeps, PKeeps
<1>3. Init => Promise!Init
  BY DEF Init, Promise!Init
<1>4. IInv /\ PInv /\ [Next]_vars => [Promise!Next]_(Promise!history)
  BY PromiseStep
<1> QED
  BY <1>1, <1>2, <1>3, <1>4, PTL DEF Spec, KeepsPromise, Promise!Spec

=============================================================================
