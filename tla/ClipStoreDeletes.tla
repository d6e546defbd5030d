-------------------------- MODULE ClipStoreDeletes --------------------------
(***************************************************************************)
(* What a delete of ClipStore takes away, for every set of contents, every *)
(* size of a seal and of a merge, and every bound: nothing that was not    *)
(* asked to go (NothingLost), and, once compact has done its work, all of  *)
(* it (CompactErases).                                                     *)
(***************************************************************************)
EXTENDS ClipStoreProofs

---------------------------------------------------------------------------
(* Why an entry may go. *)

\* What the directory's history answers, of its log's first k records.
Upto(d, k) == Said(SegsOf(d), PartOf(First(FramesOf(d), k)))

\* An entry that these answers have was to go: it was asked to, or another has as
\* many copies and pastes.
Meant(A, id) ==
    id \in DOMAIN A =>
       \/ id \in meant.deleted
       \/ \E r \in meant.replaced :
             r[1] = id /\ r[2] # id /\ r[2] \in DOMAIN A /\ Carried(A[id].events, A[r[2]].events)

\* The copy or the paste that a record notes.
NoteOf(r) == [kind |-> IF r.kind = "entry" THEN "copied" ELSE r.kind, at |-> r.at]

\* The entry that a call deletes is one asked to go, or one each of whose copies
\* and pastes another has when those before the tombstone are written.
Moved(A, todo, i, r) ==
    /\ r[1] = todo[i].id /\ r[2] # r[1]
    /\ \A j \in 1 .. i - 1 : todo[j].id = r[2] /\ todo[j].kind # "delete"
    /\ r[2] \in DOMAIN A \/ (1 < i /\ todo[1].kind = "entry")
    /\ r[1] \in DOMAIN A =>
          \A e \in A[r[1]].events :
              \/ r[2] \in DOMAIN A /\ \E f \in A[r[2]].events : StandsFor(f, e, A[r[1]].events)
              \/ \E j \in 1 .. i - 1 : StandsFor(NoteOf(todo[j]), e, A[r[1]].events)
Asked(A, todo) ==
    \A i \in 1 .. Len(todo) : todo[i].kind = "delete" =>
        todo[i].id \in meant.deleted \/ \E r \in meant.replaced : Moved(A, todo, i, r)

LEMMA NoneAsked == \A A : Asked(A, <<>>)
<1>1. Len(<<>>) = 0
  BY EmptySeq
<1> QED
  BY <1>1 DEF Asked

\* The tombstone at the head of a call is of an entry that was to go.
LEMMA AskedNow ==
    ASSUME NEW A, NEW todo \in Seq(Rec), todo # <<>>, Asked(A, todo), todo[1].kind = "delete"
    PROVE  Meant(A, todo[1].id)
<1>1. 1 \in 1 .. Len(todo)
  BY EmptySeq, LenProperties
<1>2. CASE todo[1].id \in meant.deleted
  BY <1>2 DEF Meant
<1>3. CASE \E r \in meant.replaced : Moved(A, todo, 1, r)
  <2>1. PICK r \in meant.replaced : Moved(A, todo, 1, r)
    BY <1>3
  <2>2. \A j \in 1 .. 1 - 1 : FALSE
    OBVIOUS
  <2> QED
    BY <2>1, <2>2 DEF Moved, Meant, Carried
<1> QED
  BY <1>1, <1>2, <1>3 DEF Asked

\* What a record changes of the answers.
Adds(A, r, B) ==
    /\ r.kind = "entry" => r.id \notin DOMAIN A /\ B = EntryAdded(A, r)
    /\ r.kind \in {"copied", "pasted"} => B = EventAdded(A, r)
    /\ r.kind = "delete" => B = Restrict(A, DOMAIN A \ {r.id})

\* Answers are records of contents and events.
Shaped(A) == \A x \in DOMAIN A : A[x] = [contents |-> A[x].contents, events |-> A[x].events]

\* An entry with this id, and with what the record notes if it is of it.
LEMMA AddsNote ==
    ASSUME NEW A, NEW r \in Rec, NEW B, Shaped(A), Adds(A, r, B), r.kind # "delete"
    PROVE  /\ \A x : x \in DOMAIN A => x \in DOMAIN B
           /\ \A x \in DOMAIN A : A[x].events \subseteq B[x].events
           /\ \A x \in DOMAIN A : x # r.id => B[x].events = A[x].events
           /\ r.id \in DOMAIN B => NoteOf(r) \in B[r.id].events
           /\ r.kind = "entry" => r.id \in DOMAIN B
           /\ \A x \in DOMAIN B : x \in DOMAIN A \/ x = r.id
<1>1. r.kind \in {"entry", "copied", "pasted"}
  BY RecIds
<1>2. CASE r.kind = "entry"
  <2>1. r.id \notin DOMAIN A /\ B = EntryAdded(A, r)
    BY <1>2 DEF Adds
  <2>2. /\ DOMAIN B = DOMAIN A \cup {r.id} /\ \A x \in DOMAIN A : B[x] = A[x]
        /\ B[r.id].events = {[kind |-> "copied", at |-> r.at]}
    BY <2>1 DEF EntryAdded
  <2>3. NoteOf(r) = [kind |-> "copied", at |-> r.at]
    BY <1>2 DEF NoteOf
  <2> QED
    BY <2>2, <2>3
<1>3. CASE r.kind \in {"copied", "pasted"}
  <2>1. B = EventAdded(A, r) /\ NoteOf(r) = [kind |-> r.kind, at |-> r.at] /\ r.kind # "entry"
    BY <1>3 DEF Adds, NoteOf
  <2>2. CASE r.id \in DOMAIN A
    <3>1. B = [A EXCEPT ![r.id].events = @ \cup {NoteOf(r)}]
      BY <2>1, <2>2 DEF EventAdded
    <3>2. DOMAIN B = DOMAIN A /\ (\A x \in DOMAIN A : x # r.id => B[x] = A[x])
          /\ B[r.id] = [A[r.id] EXCEPT !.events = @ \cup {NoteOf(r)}]
      BY <2>2, <3>1
    <3>3. B[r.id].events = A[r.id].events \cup {NoteOf(r)}
      BY <2>2, <3>2 DEF Shaped
    <3> QED
      BY <2>1, <2>2, <3>2, <3>3
  <2>3. CASE r.id \notin DOMAIN A
    <3>1. B = A
      BY <2>1, <2>3 DEF EventAdded
    <3> QED
      BY <2>1, <2>3, <3>1
  <2> QED
    BY <2>2, <2>3
<1> QED
  BY <1>1, <1>2, <1>3

\* When the call's next record is taken, those after it fit what is then answered.
LEMMA AskedMore ==
    ASSUME NEW A, NEW B, NEW todo \in Seq(Rec), todo # <<>>, Shaped(A), Adds(A, todo[1], B),
           Asked(A, todo)
    PROVE  Asked(B, Tail(todo))
<1> DEFINE t == Tail(todo)
           r == todo[1]
<1>1. /\ Len(todo) \in Nat /\ Len(t) = Len(todo) - 1 /\ 1 <= Len(todo)
      /\ \A i \in 1 .. Len(t) : t[i] = todo[i + 1]
  BY EmptySeq, LenProperties, HeadTailProperties
<1>2. r \in Rec
  BY <1>1, ElementOfSeq
<1> HIDE DEF t
<1>3. ASSUME NEW i \in 1 .. Len(t), t[i].kind = "delete"
      PROVE  t[i].id \in meant.deleted \/ \E s \in meant.replaced : Moved(B, t, i, s)
  <2> PICK k : k = i + 1
    OBVIOUS
  <2>1. k \in 1 .. Len(todo) /\ t[i] = todo[k] /\ 1 \in 1 .. k - 1 /\ 1 < k
    BY <1>1
  <2>2. todo[k].id \in meant.deleted \/ \E s \in meant.replaced : Moved(A, todo, k, s)
    BY <1>3, <2>1 DEF Asked
  <2>3. ASSUME NEW s \in meant.replaced, Moved(A, todo, k, s) PROVE Moved(B, t, i, s)
    <3>1. /\ s[1] = todo[k].id /\ s[2] # s[1] /\ r.id = s[2] /\ r.kind # "delete"
          /\ s[2] \in DOMAIN A \/ r.kind = "entry"
      BY <2>1, <2>3 DEF Moved
    <3>2. \A j \in 1 .. i - 1 : t[j].id = s[2] /\ t[j].kind # "delete"
      <4>1. ASSUME NEW j \in 1 .. i - 1 PROVE t[j].id = s[2] /\ t[j].kind # "delete"
        <5>1. j \in 1 .. Len(t) /\ j + 1 \in 1 .. k - 1
          BY <1>1, <2>1
        <5> QED
          BY <1>1, <2>3, <5>1 DEF Moved
      <4> QED
        BY <4>1
    <3>3. /\ \A x : x \in DOMAIN A => x \in DOMAIN B
          /\ \A x \in DOMAIN A : A[x].events \subseteq B[x].events
          /\ \A x \in DOMAIN A : x # r.id => B[x].events = A[x].events
          /\ r.id \in DOMAIN B => NoteOf(r) \in B[r.id].events
          /\ r.kind = "entry" => r.id \in DOMAIN B
          /\ \A x \in DOMAIN B : x \in DOMAIN A \/ x = r.id
      <4> HIDE DEF r
      <4> QED
        BY <1>2, <3>1, AddsNote DEF r
    <3>4. s[2] \in DOMAIN B
      BY <3>1, <3>3
    <3>5. ASSUME s[1] \in DOMAIN B, NEW e \in B[s[1]].events
          PROVE  \/ \E f \in B[s[2]].events : StandsFor(f, e, B[s[1]].events)
                 \/ \E j \in 1 .. i - 1 : StandsFor(NoteOf(t[j]), e, B[s[1]].events)
      <4>1. s[1] \in DOMAIN A /\ e \in A[s[1]].events /\ B[s[1]].events = A[s[1]].events
        BY <3>1, <3>3, <3>5
      <4>2. CASE s[2] \in DOMAIN A /\ \E f \in A[s[2]].events : StandsFor(f, e, A[s[1]].events)
        BY <3>3, <4>1, <4>2
      <4>3. CASE \E j \in 1 .. k - 1 : StandsFor(NoteOf(todo[j]), e, A[s[1]].events)
        <5>1. PICK j \in 1 .. k - 1 : StandsFor(NoteOf(todo[j]), e, A[s[1]].events)
          BY <4>3
        <5>2. CASE j = 1
          BY <3>1, <3>3, <3>4, <4>1, <5>1, <5>2
        <5>3. CASE j # 1
          <6>1. j - 1 \in 1 .. i - 1 /\ j - 1 \in 1 .. Len(t) /\ j - 1 + 1 = j
            BY <1>1, <2>1, <5>3
          <6>2. t[j - 1] = todo[j]
            BY <1>1, <6>1
          <6> QED
            BY <4>1, <5>1, <6>1, <6>2
        <5> QED
          BY <5>2, <5>3
      <4> QED
        BY <2>3, <4>1, <4>2, <4>3 DEF Moved
    <3> QED
      BY <2>1, <3>1, <3>2, <3>4, <3>5 DEF Moved
  <2> QED
    BY <2>1, <2>2, <2>3
<1>4. Asked(B, t)
  BY <1>3 DEF Asked
<1> QED
  BY <1>4 DEF t

LEMMA AnswersShaped == \A P : Shaped(Answers(P))
BY DEF Shaped, Answers, Answer

\* A replace: the tombstone comes after all that stands for the old entry's copies
\* and pastes.
LEMMA ReplaceAsks ==
    ASSUME Plain, Made, MemOrder, pc = "idle", NEW id \in DOMAIN Mirror, NEW c \in Contents,
           mem.nextId \in Ids, NEW r, r = <<id, mem.nextId>>
    PROVE  \A i \in 1 .. Len(Replacement(id, c)) : Replacement(id, c)[i].kind = "delete" =>
               Moved(Mirror, Replacement(id, c), i, r)
<1> DEFINE old == Mirror[id].events
           next == mem.nextId
           last == Tombstone(id)
           Of1 == {x \in Rec : x.id = next /\ x.kind # "delete"}
<1>1. next \in Nat /\ id \in Nat /\ id < next
  BY MineIds, MineBelow, MirrorIds DEF Ids
<1>2. id \in Ids /\ Mine \subseteq PartType
  BY MineType, ReplacementIs DEF Made
<1>3. PICK at \in Stamps, t1 \in Seq(Notes(next)), t2 \in Seq(Notes(next)) :
         /\ Replacement(id, c) = <<Entry(next, c, at)>> \o t1 \o t2 \o <<last>>
         /\ \A e \in old :
               \/ StandsFor([kind |-> "copied", at |-> at], e, old)
               \/ \E x \in Range(t1) \cup Range(t2) : e = [kind |-> x.kind, at |-> x.at]
  BY <1>2, ReplacementIs
<1> DEFINE first == Entry(next, c, at)
           s == (<<first>> \o t1) \o t2
           todo == s \o <<last>>
<1>4. Replacement(id, c) = todo
  BY <1>3
<1>5. Notes(next) \subseteq Of1 /\ \A x \in Notes(next) : NoteOf(x) = [kind |-> x.kind, at |-> x.at]
  BY Records DEF Notes, NoteOf
<1>6. t1 \in Seq(Of1) /\ t2 \in Seq(Of1) /\ t1 \in Seq(Notes(next)) /\ t2 \in Seq(Notes(next))
  BY <1>3, <1>5
<1>7. first \in Of1 /\ first.kind = "entry" /\ NoteOf(first) = [kind |-> "copied", at |-> at]
  BY Records DEF Entry, NoteOf
<1>8. last \in Rec /\ last.kind = "delete" /\ last.id = id
  BY <1>2, Records DEF Tombstone
<1> HIDE DEF first, last, Of1
<1>11. <<first>> \in Seq(Of1) /\ Range(<<first>>) = {first} /\ Len(<<first>>) = 1 /\ <<first>>[1] = first
  BY <1>7 DEF Range
<1>12. /\ s \in Seq(Of1) /\ Range(s) = ({first} \cup Range(t1)) \cup Range(t2)
  <2> DEFINE h == <<first>>
             u == h \o t1
  <2>1. h \in Seq(Of1) /\ Range(h) = {first} /\ t1 \in Seq(Of1) /\ t2 \in Seq(Of1)
    BY <1>6, <1>11
  <2> HIDE DEF h
  <2>2. u \in Seq(Of1) /\ Range(u) = Range(h) \cup Range(t1)
    BY ONLY <2>1, OfConcat
  <2> HIDE DEF u
  <2>3. u \o t2 \in Seq(Of1) /\ Range(u \o t2) = Range(u) \cup Range(t2)
    BY ONLY <2>1, <2>2, OfConcat
  <2>4. s = u \o t2
    BY DEF u, h
  <2> HIDE DEF s
  <2> QED
    BY ONLY <2>1, <2>2, <2>3, <2>4
<1>13. Len(s) \in Nat /\ 1 <= Len(s) /\ s[1] = first
  <2>1. /\ Len(<<first>> \o t1) = 1 + Len(t1) /\ (<<first>> \o t1)[1] = first /\ Len(t1) \in Nat
        /\ <<first>> \o t1 \in Seq(Of1)
    BY <1>6, <1>11, ConcatProperties, LenProperties
  <2> DEFINE u == <<first>> \o t1
  <2> HIDE DEF u
  <2>2. u \in Seq(Of1) /\ Len(u) = 1 + Len(t1) /\ u[1] = first /\ Len(t1) \in Nat
    BY <2>1 DEF u
  <2>3. /\ Len(u \o t2) = Len(u) + Len(t2) /\ Len(t2) \in Nat
        /\ \A i \in 1 .. Len(u) : (u \o t2)[i] = u[i]
    <3>1. t2 \in Seq(Of1) /\ u \in Seq(Of1) /\ Len(t2) \in Nat /\ Len(u) \in Nat
      BY <1>6, <2>2, LenProperties
    <3>2. /\ Len(u \o t2) = Len(u) + Len(t2)
          /\ \A i \in 1 .. Len(u) + Len(t2) :
                (u \o t2)[i] = IF i <= Len(u) THEN u[i] ELSE t2[i - Len(u)]
      BY ONLY <3>1, ConcatProperties
    <3> QED
      BY ONLY <3>1, <3>2
  <2>4. s = u \o t2
    BY DEF u
  <2> HIDE DEF s
  <2> QED
    BY <2>2, <2>3, <2>4
<1>14. /\ Range(s) = {s[j] : j \in 1 .. Len(s)} /\ \A j \in 1 .. Len(s) : s[j] \in Of1
  BY <1>12, LenProperties, ElementOfSeq DEF Range
<1> HIDE DEF s
<1>15. /\ Len(todo) = Len(s) + 1 /\ todo[Len(s) + 1] = last /\ \A j \in 1 .. Len(s) : todo[j] = s[j]
  <2>1. Of1 \subseteq Rec
    BY DEF Of1
  <2>2. s \in Seq(Rec) /\ <<last>> \in Seq(Rec) /\ Len(<<last>>) = 1 /\ <<last>>[1] = last
    BY <1>8, <1>12, <2>1
  <2> HIDE DEF s
  <2> QED
    BY <1>13, <2>2, ConcatProperties
<1>16. \A e \in old : \E j \in 1 .. Len(s) : StandsFor(NoteOf(s[j]), e, old)
  <2>1. ASSUME NEW e \in old PROVE \E x \in Range(s) : StandsFor(NoteOf(x), e, old)
    <3>1. CASE StandsFor([kind |-> "copied", at |-> at], e, old)
      BY <1>7, <1>12, <3>1
    <3>2. CASE \E x \in Range(t1) \cup Range(t2) : e = [kind |-> x.kind, at |-> x.at]
      <4>1. PICK x \in Range(t1) \cup Range(t2) : e = [kind |-> x.kind, at |-> x.at]
        BY <3>2
      <4>2. x \in Notes(next)
        BY <1>6, LenProperties, ElementOfSeq DEF Range
      <4>3. NoteOf(x) = e
        BY <1>5, <4>1, <4>2
      <4> QED
        BY <1>12, <4>1, <4>3 DEF StandsFor
    <3> HIDE DEF old
    <3> QED
      BY <1>3, <3>1, <3>2
  <2> HIDE DEF old
  <2> QED
    BY <1>14, <2>1
<1> HIDE DEF todo
<1>17. ASSUME NEW i \in 1 .. Len(todo), todo[i].kind = "delete" PROVE Moved(Mirror, todo, i, r)
  <2>1. i = Len(s) + 1
    BY <1>13, <1>14, <1>15, <1>17 DEF Of1
  <2>2. /\ r[1] = id /\ r[2] = next /\ todo[i].id = id /\ i - 1 = Len(s) /\ 1 < i
        /\ todo[1].kind = "entry"
    BY <1>7, <1>8, <1>13, <1>15, <2>1
  <2>3. \A j \in 1 .. i - 1 : todo[j] = s[j] /\ todo[j].id = next /\ todo[j].kind # "delete"
    BY <1>14, <1>15, <2>2 DEF Of1
  <2>4. \A e \in old : \E j \in 1 .. i - 1 : StandsFor(NoteOf(todo[j]), e, old)
    BY <1>16, <2>2, <2>3
  <2>5. r[1] = todo[i].id /\ r[2] # r[1]
    BY <1>1, <2>2
  <2>6. \A j \in 1 .. i - 1 : todo[j].id = r[2] /\ todo[j].kind # "delete"
    BY <2>2, <2>3
  <2>7. \A e \in Mirror[r[1]].events :
           \E j \in 1 .. i - 1 : StandsFor(NoteOf(todo[j]), e, Mirror[r[1]].events)
    BY <2>2, <2>4
  <2> HIDE DEF old, next
  <2> QED
    BY ONLY <2>2, <2>5, <2>6, <2>7 DEF Moved
<1> QED
  BY <1>4, <1>17

\* A record more adds what it adds.
LEMMA MoreAdds ==
    ASSUME NEW S, NEW f \in Seq(Rec), NEW k \in Nat, k + 1 <= Len(f),
           f[k + 1].kind = "entry" => f[k + 1].id \notin Known(S, PartOf(First(f, k)))
    PROVE  Adds(Said(S, PartOf(First(f, k))), f[k + 1], Said(S, PartOf(First(f, k + 1))))
<1> DEFINE p == PartOf(First(f, k))
           q == PartOf(First(f, k + 1))
           r == f[k + 1]
<1>1. /\ r \in Rec
      /\ r.kind = "entry" => EntryMade(p, q, r)
      /\ r.kind \in {"copied", "pasted"} => EventMade(p, q, r)
      /\ r.kind = "delete" => TombMade(p, q, r.id)
  BY PartMore
<1>2. r.kind = "entry" => r.id \notin Known(S, p)
  OBVIOUS
<1> HIDE DEF p, q, r
<1>3. ASSUME r.kind = "entry"
      PROVE  r.id \notin DOMAIN Said(S, p) /\ Said(S, q) = EntryAdded(Said(S, p), r)
  <2>1. DOMAIN Said(S, p) \subseteq Known(S, p)
    BY DEF Said, Known, Answers, AllIds
  <2> QED
    BY <1>1, <1>2, <1>3, <2>1, EntryMore
<1>4. r.kind \in {"copied", "pasted"} => Said(S, q) = EventAdded(Said(S, p), r)
  BY <1>1, EventMore
<1>5. r.kind = "delete" => Said(S, q) = Restrict(Said(S, p), DOMAIN Said(S, p) \ {r.id})
  BY <1>1, TombMore
<1>6. Adds(Said(S, p), r, Said(S, q))
  BY <1>3, <1>4, <1>5 DEF Adds
<1> QED
  BY <1>6 DEF p, q, r

LEMMA AddsOnce ==
    ASSUME NEW A, NEW r \in Rec, NEW B, NEW C, Adds(A, r, B), Adds(A, r, C)
    PROVE  B = C
<1>1. r.kind \in {"entry", "copied", "pasted", "delete"}
  BY RecIds
<1> QED
  BY <1>1 DEF Adds

\* An entry of a log is new to what is before it.
LEMMA FreshEntry ==
    ASSUME NEW S, NEW f \in Seq(Rec), NEW k \in Nat, k + 1 <= Len(f), NEW base \in Nat,
           \A id \in AllIds(S) : id < base, Logged(f, base), f[k + 1].kind = "entry"
    PROVE  f[k + 1].id \notin Known(S, PartOf(First(f, k)))
<1> DEFINE p == PartOf(First(f, k))
           r == f[k + 1]
<1>1. Len(f) \in Nat /\ k \in 0 .. Len(f) /\ k + 1 \in 1 .. Len(f) /\ k + 1 - 1 = k
  BY LenProperties
<1>2. r \in Rec /\ r.id \in Nat
  BY <1>1, ElementOfSeq, RecIds
<1>3. base <= r.id /\ \A j \in 1 .. k : f[j].id < r.id
  BY <1>1 DEF Logged
<1>4. \A j \in 1 .. k : f[j].id \in Nat
  <2>1. \A j \in 1 .. k : j \in 1 .. Len(f)
    BY <1>1
  <2> QED
    BY <2>1, ElementOfSeq, RecIds
<1>5. r.id \notin AllIds(S)
  BY <1>2, <1>3
<1>6. r.id \notin AllIds({p})
  <2>1. AllIds({p}) \subseteq {f[j].id : j \in 1 .. k}
    BY <1>1, LogIds
  <2>2. \A j \in 1 .. k : f[j].id # r.id
    BY <1>2, <1>3, <1>4
  <2> HIDE DEF p, r
  <2> QED
    BY <2>1, <2>2
<1> HIDE DEF p, r
<1>7. r.id \notin Known(S, p)
  BY <1>5, <1>6, BothIds DEF Known
<1> QED
  BY <1>7 DEF p, r

\* Of parts that answer alike, so they do with one record more.
LEMMA SameMore ==
    ASSUME NEW S, NEW T, NEW f \in Seq(Rec), NEW k \in Nat, k + 1 <= Len(f),
           Said(S, PartOf(First(f, k))) = Said(T, PartOf(First(f, k))),
           f[k + 1].kind = "entry" => f[k + 1].id \notin Known(S, PartOf(First(f, k)))
                                      /\ f[k + 1].id \notin Known(T, PartOf(First(f, k)))
    PROVE  Said(S, PartOf(First(f, k + 1))) = Said(T, PartOf(First(f, k + 1)))
<1>1. f[k + 1] \in Rec
  BY PartMore
<1> DEFINE A == Said(S, PartOf(First(f, k)))
           B == Said(S, PartOf(First(f, k + 1)))
           C == Said(T, PartOf(First(f, k + 1)))
<1>2. Adds(A, f[k + 1], B)
  BY MoreAdds
<1>3. Adds(Said(T, PartOf(First(f, k))), f[k + 1], C)
  BY MoreAdds
<1>4. Adds(A, f[k + 1], C)
  BY <1>3
<1> HIDE DEF A, B, C
<1>5. B = C
  BY <1>1, <1>2, <1>4, AddsOnce
<1> QED
  BY <1>5 DEF B, C

---------------------------------------------------------------------------
(* Why an entry may go: the invariant. *)

\* Directories that name one log answer alike, of as many of its records.
OneAnswer ==
    \A d, e \in past : d.man.active = e.man.active =>
        \A k \in 0 .. Len(FramesOf(d)) : Upto(d, k) = Upto(e, k)

\* What a tombstone of a log deletes was to go.
Intended ==
    \A d \in past : \A k \in 1 .. Len(FramesOf(d)) :
        FramesOf(d)[k].kind = "delete" => Meant(Upto(d, k - 1), FramesOf(d)[k].id)

\* The process's history is one that may come back; what its call will delete is to go.
OwnHistory == \E d \in past : d.man.active = mem.active /\ SegsOf(d) = Segs
Reasons ==
    /\ OneAnswer /\ Intended
    /\ pc # "closed" => OwnHistory /\ Asked(Mirror, call.todo)

Intents == meant \in [deleted : SUBSET Ids, replaced : SUBSET (Ids \X Ids)]

\* No intent is forgotten.
Grows == meant.deleted \subseteq meant'.deleted /\ meant.replaced \subseteq meant'.replaced

LEMMA MeantGrows == ASSUME Grows, NEW A, NEW id, Meant(A, id) PROVE Meant(A, id)'
BY DEF Meant, Grows

LEMMA SameIntents == ASSUME meant' = meant PROVE Grows
BY DEF Grows

LEMMA CallGrows == ASSUME Plain, Made, Intents, Call PROVE Grows /\ Intents'
<1>1. pc = "idle"
  BY DEF Call
<1>2. ASSUME NEW id \in DOMAIN Mirror PROVE id \in Ids
  <2>1. Mine \subseteq PartType /\ Mirror = Answers(Mine)
    BY <1>1, MineType DEF Made, Mirror
  <2> QED
    BY <1>2, <2>1, AnswersType
<1>3. ASSUME meant' = meant PROVE Grows /\ Intents'
  BY <1>3 DEF Grows, Intents
<1>4. ASSUME NEW c \in Contents, NEW ms \in 0 .. MaxMs, Copy(c, ms) \/ Import(c, ms)
      PROVE  Grows /\ Intents'
  BY <1>3, <1>4 DEF Copy, Import
<1>5. ASSUME NEW kind \in {"copied", "pasted"}, NEW id \in DOMAIN Mirror, NEW ms \in 0 .. MaxMs,
             Record(kind, id, ms)
      PROVE  Grows /\ Intents'
  BY <1>3, <1>5 DEF Record
<1>6. ASSUME NEW id \in DOMAIN Mirror, Delete(id) PROVE Grows /\ Intents'
  <2>1. id \in Ids
    BY <1>2
  <2>2. meant' = [meant EXCEPT !.deleted = meant.deleted \cup {id}]
    BY <1>6 DEF Delete
  <2> QED
    BY <2>1, <2>2 DEF Grows, Intents
<1>7. ASSUME NEW id \in DOMAIN Mirror, NEW c \in Contents, Replace(id, c) PROVE Grows /\ Intents'
  <2>1. id \in Ids /\ mem.nextId \in Ids
    <3>1. mem.nextId \in Nat /\ 0 < mem.nextId /\ mem.nextId <= MaxId
      BY <1>1, <1>7, MemParts DEF Made, Numbered, Replace
    <3> QED
      BY <1>2, <3>1, StoreAssumption DEF Ids
  <2>2. meant' = [meant EXCEPT !.replaced = meant.replaced \cup {<<id, mem.nextId>>}]
    BY <1>7 DEF Replace
  <2> QED
    BY <2>1, <2>2 DEF Grows, Intents
<1>8. ASSUME Compact PROVE Grows /\ Intents'
  BY <1>3, <1>8 DEF Compact
<1> QED
  BY <1>4, <1>5, <1>6, <1>7, <1>8 DEF Call

LEMMA OtherGrows == ASSUME Move, ~Call PROVE meant' = meant
BY DEF Move, Work, Begin, Open, Return, Writeback, LogExists, Fails, Kill, PowerLoss, Write, Sync,
       Seal, NewLog, RenameManifest, SyncSeal, Tiers, Merge, MergeManifest, SyncMerge

\* The steps that write no record and no manifest.
Shorter(a) ==
    /\ logs'[a].frames \in Seq(Rec) /\ Len(logs'[a].frames) <= Len(logs[a].frames)
    /\ \A i \in 1 .. Len(logs'[a].frames) : logs'[a].frames[i] = logs[a].frames[i]

LEMMA ShorterUpto ==
    ASSUME Plain, Made, NEW d, NEW e \in past, d.man = e.man, SegsOf(d) = SegsOf(e),
           Shorter(e.man.active)
    PROVE  /\ Len(FramesOf(d)') \in Nat /\ Len(FramesOf(d)') <= Len(FramesOf(e))
           /\ \A k \in 0 .. Len(FramesOf(d)') : Upto(d, k)' = Upto(e, k)
           /\ \A k \in 1 .. Len(FramesOf(d)') : FramesOf(d)'[k] = FramesOf(e)[k]
<1> DEFINE a == e.man.active
           f == logs[a].frames
           g == logs'[a].frames
<1>1. f \in Seq(Rec) /\ Len(f) \in Nat
  BY LogsAre DEF LogFacts, Made, Past
<1>2. g \in Seq(Rec) /\ Len(g) \in Nat /\ Len(g) <= Len(f) /\ \A i \in 1 .. Len(g) : g[i] = f[i]
  BY LenProperties DEF Shorter
<1>3. FramesOf(d)' = g /\ FramesOf(e) = f
  BY DEF FramesOf
<1> HIDE DEF f, g
<1>4. ASSUME NEW k \in 0 .. Len(g) PROVE First(g, k) = First(f, k)
  <2>1. k \in Nat /\ k <= Len(f) /\ k <= Len(g) /\ \A i \in 1 .. k : g[i] = f[i]
    BY <1>1, <1>2
  <2> QED
    BY <1>1, <1>2, <2>1, SameFirst
<1>5. ASSUME NEW k \in 0 .. Len(g) PROVE Upto(d, k)' = Upto(e, k)
  <2>1. Upto(d, k)' = Said(SegsOf(d), PartOf(First(g, k)))
    BY <1>3 DEF Upto, Said, SegsOf
  <2>2. Upto(e, k) = Said(SegsOf(e), PartOf(First(f, k)))
    BY <1>3 DEF Upto
  <2> QED
    BY <1>4, <2>1, <2>2
<1> QED
  BY <1>1, <1>2, <1>3, <1>5

LEMMA NoneMore ==
    ASSUME Plain, Made, OneAnswer, Intended, Grows,
           \A d \in past' : Comes(d), \A d \in past : Shorter(d.man.active)
    PROVE  OneAnswer' /\ Intended'
<1>1. ASSUME NEW d \in past', NEW e \in past', d.man.active = e.man.active,
             NEW k \in 0 .. Len(FramesOf(d)')
      PROVE  Upto(d, k)' = Upto(e, k)'
  <2>1. PICK x \in past : x.man = d.man /\ SegsOf(x) = SegsOf(d)
    BY DEF Comes
  <2>2. PICK y \in past : y.man = e.man /\ SegsOf(y) = SegsOf(e)
    BY DEF Comes
  <2>3. Shorter(x.man.active) /\ Shorter(y.man.active)
    OBVIOUS
  <2>4. FramesOf(e)' = FramesOf(d)' /\ FramesOf(x) = FramesOf(y)
    BY <1>1, <2>1, <2>2 DEF FramesOf
  <2>5. /\ Len(FramesOf(d)') \in Nat /\ Len(FramesOf(d)') <= Len(FramesOf(x))
        /\ Upto(d, k)' = Upto(x, k)
    BY <2>1, <2>3, ShorterUpto
  <2>6. Upto(e, k)' = Upto(y, k)
    BY <2>2, <2>3, <2>4, ShorterUpto
  <2>7. k \in 0 .. Len(FramesOf(x))
    <3>1. Len(FramesOf(x)) \in Nat
      BY LogsAre DEF LogFacts, Made, Past, FramesOf
    <3> QED
      BY <2>5, <3>1
  <2>8. Upto(x, k) = Upto(y, k)
    BY <1>1, <2>1, <2>2, <2>7 DEF OneAnswer
  <2> QED
    BY <2>5, <2>6, <2>8
<1>2. ASSUME NEW d \in past', NEW k \in 1 .. Len(FramesOf(d)'), FramesOf(d)'[k].kind = "delete"
      PROVE  Meant(Upto(d, k - 1), FramesOf(d)[k].id)'
  <2>1. PICK x \in past : x.man = d.man /\ SegsOf(x) = SegsOf(d)
    BY DEF Comes
  <2>2. Shorter(x.man.active)
    OBVIOUS
  <2>3. /\ Len(FramesOf(d)') \in Nat /\ Len(FramesOf(d)') <= Len(FramesOf(x))
        /\ \A j \in 0 .. Len(FramesOf(d)') : Upto(d, j)' = Upto(x, j)
        /\ FramesOf(d)'[k] = FramesOf(x)[k]
    BY <2>1, <2>2, ShorterUpto
  <2>4. k - 1 \in 0 .. Len(FramesOf(d)') /\ k \in 1 .. Len(FramesOf(x))
    <3>1. Len(FramesOf(x)) \in Nat
      BY LogsAre DEF LogFacts, Made, Past, FramesOf
    <3> QED
      BY <2>3, <3>1
  <2> PICK A, id : A = Upto(x, k - 1) /\ id = FramesOf(x)[k].id
    OBVIOUS
  <2>5. Meant(A, id)
    BY <1>2, <2>3, <2>4 DEF Intended
  <2>6. Upto(d, k - 1)' = A /\ FramesOf(d)'[k].id = id
    BY <2>3, <2>4
  <2>7. Meant(A, id)'
    BY <2>5, MeantGrows
  <2> QED
    BY <2>6, <2>7 DEF Meant
<1> QED
  BY <1>1, <1>2 DEF OneAnswer, Intended

LEMMA GoodLength ==
    ASSUME NEW frames \in Seq(Rec)
    PROVE  \E n \in 0 .. Len(frames) : Ascends(frames, n) /\ Good(frames) = First(frames, n)
<1> DEFINE S == {n \in 0 .. Len(frames) : Ascends(frames, n)}
<1>1. Len(frames) \in Nat
  BY LenProperties
<1>2. 0 \in S
  BY <1>1 DEF Ascends
<1>3. S \subseteq Nat /\ \A n \in S : n <= Len(frames)
  BY <1>1
<1>4. Max(S) \in S
  BY <1>1, <1>2, <1>3, MaxIn
<1> QED
  BY <1>4 DEF Good

\* A first part of a log's records, or all of them.
LEMMA FirstShorter ==
    ASSUME NEW a, logs[a].frames \in Seq(Rec), NEW n \in 0 .. Len(logs[a].frames),
           logs'[a].frames = First(logs[a].frames, n)
    PROVE  Shorter(a)
<1> DEFINE f == logs[a].frames
<1>1. Len(f) \in Nat /\ First(f, n) \in Seq(Rec) /\ Len(First(f, n)) = n
      /\ \A i \in 1 .. n : First(f, n)[i] = f[i]
  <2> HIDE DEF f
  <2> QED
    BY FirstOf, LenProperties DEF f
<1> QED
  BY <1>1 DEF Shorter

LEMMA SameShorter ==
    ASSUME NEW a, logs[a].frames \in Seq(Rec), logs'[a].frames = logs[a].frames
    PROVE  Shorter(a)
BY LenProperties DEF Shorter

\* A history is opened: the one that its directory has.
LEMMA OpenFiles ==
    ASSUME Plain, Made, Open
    PROVE  /\ \A d \in past' : Comes(d)
           /\ dir \in past' /\ mem'.active = dir.man.active /\ Segs' = SegsOf(dir)
           /\ \A x \in DOMAIN logs : Shorter(x)
           /\ call' = call /\ pc = "closed"
<1> PICK a : a = dir.man.active
  OBVIOUS
<1> DEFINE man == dir.man
           f == logs[a].frames
           g == Good(f)
           segs == Restrict(dir.segs, Range(man.segments))
           d == [dir EXCEPT !.logs = {a}, !.segs = segs]
           v == [frames |-> g, safe |-> Min({logs[a].safe, Len(g)}), accepted |-> Len(g)]
<1>1. /\ dir \in past /\ dir \in DirType /\ Openable(dir) /\ a \in DOMAIN logs
  BY DirSet DEF Plain, Made, Past
<1>2. /\ pc = "closed" /\ call' = call /\ Change(d) /\ logs' = [logs EXCEPT ![a] = v]
      /\ mem' = [active |-> a, len |-> Len(g), segments |-> man.segments,
                 nextFile |-> man.nextFile, nextId |-> NextId(dir, g)]
  BY DEF Open
<1>3. v.frames = g
  OBVIOUS
<1> HIDE DEF v
<1>4. (\A x \in DOMAIN logs : x # a => logs'[x] = logs[x]) /\ logs'[a].frames = g
  BY <1>1, <1>2, <1>3
<1>5. d.man = man /\ d.segs = segs
  BY <1>1 DEF DirType
<1>6. \A i \in Range(man.segments) : segs[i] = dir.segs[i]
  BY <1>1 DEF Restrict, Openable
<1>7. mem'.active = a /\ mem'.segments = man.segments
  BY <1>2
<1> HIDE DEF segs, d
<1>8. SegsOf(d) = SegsOf(dir)
  BY <1>5, <1>6 DEF SegsOf
<1>9. dir' = d /\ past' = past \cup {d}
  BY <1>2 DEF Change
<1>10. \A x \in past' : Comes(x)
  BY <1>1, <1>5, <1>8, <1>9 DEF Comes
<1>11. Segs' = SegsOf(d)
  BY <1>5, <1>7, <1>9 DEF Segs, SegsOf
<1>12. ASSUME NEW x \in DOMAIN logs PROVE Shorter(x)
  <2>1. logs[x].frames \in Seq(Rec)
    BY LogsAre DEF LogFacts
  <2>2. CASE x # a
    <3>1. logs'[x].frames = logs[x].frames
      BY <1>4, <2>2
    <3> QED
      BY <2>1, <3>1, SameShorter
  <2>3. CASE x = a
    <3>1. PICK n \in 0 .. Len(f) : g = First(f, n)
      BY <2>1, <2>3, GoodLength
    <3> QED
      BY <1>4, <2>1, <2>3, <3>1, FirstShorter
  <2> QED
    BY <2>2, <2>3
<1> QED
  BY <1>1, <1>2, <1>7, <1>8, <1>9, <1>10, <1>11, <1>12

\* A directory more, with the same manifest and its segments.
LEMMA OneComes ==
    ASSUME Plain, NEW d, past' \subseteq past \cup {d}, d.man = dir.man,
           \A i \in Range(dir.man.segments) : d.segs[i] = dir.segs[i]
    PROVE  \A x \in past' : Comes(x)
<1>1. SegsOf(d) = SegsOf(dir) /\ dir \in past
  BY DEF SegsOf, Plain
<1> QED
  BY <1>1 DEF Comes

\* The steps that write no record and no manifest.
Plainly == (\A d \in past' : Comes(d)) /\ (\A d \in past : Shorter(d.man.active))

LEMMA QuietPlainly == ASSUME Plain, Made, past' = past, logs' = logs PROVE Plainly
<1>1. \A d \in past' : Comes(d)
  BY DEF Comes
<1>2. \A d \in past : logs[d.man.active].frames \in Seq(Rec)
  BY LogsAre DEF LogFacts, Made, Past
<1> QED
  BY <1>1, <1>2, SameShorter DEF Plainly

LEMMA FramesPlainly ==
    ASSUME Plain, Made, past' = past, \A x \in DOMAIN logs : logs'[x].frames = logs[x].frames
    PROVE  Plainly
<1>1. \A d \in past' : Comes(d)
  BY DEF Comes
<1>2. \A d \in past : d.man.active \in DOMAIN logs /\ logs[d.man.active].frames \in Seq(Rec)
  BY LogsAre DEF LogFacts, Made, Past
<1> QED
  BY <1>1, <1>2, SameShorter DEF Plainly

LEMMA CutPlainly ==
    ASSUME Plain, Made, pc # "closed", past' = past, NEW n \in mem.len .. Len(logs[mem.active].frames),
           logs' = LogWith(First(logs[mem.active].frames, n), n)
    PROVE  Plainly
<1> PICK a : a = mem.active
  OBVIOUS
<1> DEFINE f == logs[a].frames
           v == [frames |-> First(f, n), safe |-> Min({logs[a].safe, n}), accepted |-> logs[a].accepted]
<1>1. logs' = [logs EXCEPT ![a] = v] /\ v.frames = First(f, n)
  BY DEF LogWith
<1> HIDE DEF v
<1>2. a \in DOMAIN logs /\ n \in 0 .. Len(f)
  <2>1. mem.len \in Nat /\ Len(f) \in Nat /\ a \in DOMAIN logs
    BY ActiveLog, LenProperties DEF Made, Process
  <2> QED
    BY <2>1
<1>3. ASSUME NEW d \in past PROVE Shorter(d.man.active)
  <2> PICK x : x = d.man.active
    OBVIOUS
  <2>1. x \in DOMAIN logs /\ logs[x].frames \in Seq(Rec)
    BY LogsAre DEF LogFacts, Made, Past
  <2>2. CASE x = a
    <3>1. logs'[x].frames = First(f, n)
      BY <1>1, <1>2, <2>2
    <3> QED
      BY <1>2, <2>1, <2>2, <3>1, FirstShorter
  <2>3. CASE x # a
    <3>1. logs'[x] = logs[x]
      BY <1>1, <2>1, <2>3
    <3> QED
      BY <2>1, <3>1, SameShorter
  <2> QED
    BY <2>2, <2>3
<1>4. \A d \in past' : Comes(d)
  BY DEF Comes
<1> QED
  BY <1>3, <1>4 DEF Plainly

LEMMA NewLogPlainly ==
    ASSUME Plain, Made, pc # "closed", \A d \in past : d.man.active # mem.nextFile + 1,
           logs' = With(logs, mem.nextFile + 1, EmptyLog),
           Change([dir EXCEPT !.logs = @ \cup {mem.nextFile + 1}])
    PROVE  Plainly
<1> PICK n : n = mem.nextFile + 1
  OBVIOUS
<1> DEFINE d == [dir EXCEPT !.logs = dir.logs \cup {n}]
<1>1. Change(d) /\ logs' = With(logs, n, EmptyLog)
  OBVIOUS
<1>2. d.man = dir.man /\ d.segs = dir.segs
  <2>1. dir \in DirType
    BY DEF Plain
  <2> QED
    BY <2>1 DEF DirType
<1> HIDE DEF d
<1>3. \A x \in past' : Comes(x)
  BY <1>1, <1>2, OneComes DEF Change
<1>4. ASSUME NEW x \in past PROVE Shorter(x.man.active)
  <2>1. /\ x.man.active \in DOMAIN logs /\ x.man.active # n
        /\ logs[x.man.active].frames \in Seq(Rec)
    BY LogsAre DEF LogFacts, Made, Past
  <2>2. logs'[x.man.active] = logs[x.man.active]
    BY <1>1, <2>1 DEF With
  <2> QED
    BY <2>1, <2>2, SameShorter
<1> QED
  BY <1>3, <1>4 DEF Plainly

LEMMA SegmentPlainly ==
    ASSUME Plain, Made, NEW seg, Change([dir EXCEPT !.segs = With(dir.segs, mem.nextFile, seg)]),
           mem.nextFile \notin Range(dir.man.segments), logs' = logs
    PROVE  Plainly
<1> DEFINE segs == With(dir.segs, mem.nextFile, seg)
           d == [dir EXCEPT !.segs = segs]
<1>1. d.segs = segs /\ d.man = dir.man
  <2>1. dir \in DirType
    BY DEF Plain
  <2> QED
    BY <2>1 DEF DirType
<1>2. \A i \in Range(dir.man.segments) : segs[i] = dir.segs[i]
  <2>1. Range(dir.man.segments) \subseteq DOMAIN dir.segs
    BY DEF Plain, Made, Past, Openable
  <2> QED
    BY <2>1 DEF With
<1>3. Change(d)
  OBVIOUS
<1> HIDE DEF d, segs
<1>4. \A x \in past' : Comes(x)
  <2>1. \A i \in Range(dir.man.segments) : d.segs[i] = dir.segs[i]
    BY <1>1, <1>2
  <2> QED
    BY <1>1, <1>3, <2>1, OneComes DEF Change
<1>5. \A x \in past : Shorter(x.man.active)
  <2>1. \A x \in past : logs[x.man.active].frames \in Seq(Rec)
    BY LogsAre DEF LogFacts, Made, Past
  <2> QED
    BY <2>1, SameShorter
<1> QED
  BY <1>4, <1>5 DEF Plainly

\* The manifest that is synced: what the process takes is what it names.
LEMMA SyncedPlainly ==
    ASSUME Plain, Made, SyncSeal \/ SyncMerge
    PROVE  /\ Plainly
           /\ dir \in past' /\ mem'.active = dir.man.active /\ Segs' = SegsOf(dir)
           /\ logs' = logs /\ call' = call /\ pc \in {"sealed", "merged"} /\ unsure' = FALSE
<1>1. PICK d : SyncedThen(d) /\ d.man = dir.man
               /\ \A i \in Range(dir.man.segments) : d.segs[i] = dir.segs[i]
  <2>1. dir \in DirType /\ Range(dir.man.segments) \subseteq DOMAIN dir.segs
    BY DEF Plain, Made, Past, Openable
  <2>2. CASE SyncSeal
    <3>1. SyncedThen([dir EXCEPT !.logs = dir.logs \ {mem.active}])
      BY <2>2 DEF SyncSeal
    <3> DEFINE e == [dir EXCEPT !.logs = dir.logs \ {mem.active}]
    <3>2. e.man = dir.man /\ e.segs = dir.segs
      BY <2>1 DEF DirType
    <3>3. SyncedThen(e)
      BY <3>1
    <3> HIDE DEF e
    <3> QED
      BY <3>2, <3>3
  <2>3. CASE SyncMerge
    <3> DEFINE segs == Restrict(dir.segs, DOMAIN dir.segs \ Taken)
               e == [dir EXCEPT !.segs = segs]
    <3>1. SyncedThen(e) /\ pc = "merged"
      BY <2>3 DEF SyncMerge
    <3>2. e.man = dir.man /\ e.segs = segs
      BY <2>1 DEF DirType
    <3>3. dir.man.segments = AfterMerge /\ mem.segments # <<>>
      BY <3>1 DEF Made, Stage, Manifest
    <3>4. mem \in MemType /\ Numbered(mem)
      BY <3>1, MemParts DEF Made
    <3>5. Range(AfterMerge) \cap Taken = {}
      BY <3>3, <3>4, TakenOf
    <3>6. \A i \in Range(dir.man.segments) : segs[i] = dir.segs[i]
      BY <2>1, <3>3, <3>5 DEF Restrict
    <3> HIDE DEF e, segs
    <3> QED
      BY <3>1, <3>2, <3>6
  <2> QED
    BY <2>2, <2>3
<1>2. dir' = d /\ past' = {dir, d} /\ unsure' = FALSE /\ dir \in past
  BY <1>1 DEF SyncedThen, Plain
<1>3. /\ logs' = logs /\ call' = call /\ pc \in {"sealed", "merged"}
  BY DEF SyncSeal, SyncMerge
<1>4. \A x \in past' : Comes(x)
  <2>1. past' \subseteq past \cup {d}
    BY <1>2
  <2> QED
    BY <1>1, <2>1, OneComes
<1>5. \A x \in past : Shorter(x.man.active)
  <2>1. \A x \in past : logs[x.man.active].frames \in Seq(Rec)
    BY LogsAre DEF LogFacts, Made, Past
  <2> QED
    BY <1>3, <2>1, SameShorter
<1>6. mem'.active = dir.man.active /\ mem'.segments = dir.man.segments
  <2>1. CASE SyncSeal
    BY <2>1 DEF SyncSeal, Made, Stage, Manifest
  <2>2. CASE SyncMerge
    <3>1. mem \in MemType /\ pc = "merged"
      BY <2>2, MemParts DEF Made, SyncMerge
    <3>2. mem'.active = mem.active /\ mem'.segments = AfterMerge
      BY <2>2, <3>1 DEF SyncMerge, MemType
    <3> QED
      BY <3>1, <3>2 DEF Made, Stage, Manifest
  <2> QED
    BY <2>1, <2>2
<1>7. Segs' = SegsOf(dir)
  BY <1>1, <1>2, <1>6 DEF Segs, SegsOf
<1> QED
  BY <1>2, <1>3, <1>4, <1>5, <1>6, <1>7 DEF Plainly

LEMMA StepPlainly ==
    ASSUME Plain, Made, Sized, Move, ~Begin, ~WritesOver,
           ~RenameManifest, ~MergeManifest, ~Write,
           pc = "newlog" => (\A d \in past : d.man.active # mem.nextFile + 1)
    PROVE  Plainly
<1>1. Plain /\ Made /\ Sized
  OBVIOUS
<1>2. CASE Call \/ Return \/ LogExists \/ Tiers
  <2>1. UNCHANGED <<logs, past>>
    BY <1>2 DEF Call, Copy, Import, Record, Delete, Replace, Compact, Ask, Return, LogExists, Tiers
  <2> QED
    BY <1>1, <2>1, QuietPlainly
<1>3. CASE Open
  BY <1>1, <1>3, OpenFiles DEF Plainly, Made, Past
<1>4. CASE Writeback
  BY <1>1, <1>4, WritebackLogs, FramesPlainly DEF Writeback
<1>5. CASE Sync
  BY <1>1, <1>5, SyncLogs, FramesPlainly DEF Sync
<1>6. CASE Seal \/ Merge
  <2>1. CASE Seal /\ mem.len = 0
    <3>1. UNCHANGED <<logs, past>>
      BY <2>1 DEF Seal
    <3> QED
      BY <1>1, <3>1, QuietPlainly
  <2>2. CASE (Seal /\ mem.len # 0) \/ Merge
    <3>1. PICK seg : /\ Change([dir EXCEPT !.segs = With(dir.segs, mem.nextFile, seg)])
                     /\ logs' = logs
                     /\ \/ pc = "seal" /\ pc' = "newlog"
                        \/ pc = "merge" /\ pc' = "mergeman"
      BY <2>2 DEF Seal, Merge
    <3>2. mem.nextFile \notin Range(dir.man.segments)
      BY <3>1 DEF WritesOver
    <3> QED
      BY <1>1, <3>1, <3>2, SegmentPlainly
  <2> QED
    BY <1>6, <2>1, <2>2
<1>7. ASSUME pc = "newlog", logs' = With(logs, mem.nextFile + 1, EmptyLog),
             Change([dir EXCEPT !.logs = @ \cup {mem.nextFile + 1}])
      PROVE  Plainly
  <2>1. \A d \in past : d.man.active # mem.nextFile + 1
    BY <1>7
  <2> QED
    BY <1>1, <1>7, <2>1, NewLogPlainly
<1>8. CASE NewLog
  BY <1>7, <1>8 DEF NewLog
<1>9. CASE SyncSeal \/ SyncMerge
  BY <1>1, <1>9, SyncedPlainly
<1>10. CASE Fails
  <2>1. CASE UNCHANGED <<logs, past>>
    BY <1>1, <2>1, QuietPlainly
  <2>2. CASE /\ pc = "append" /\ past' = past
             /\ logs' = LogWith(First(logs[mem.active].frames, mem.len), mem.len)
    <3>1. mem.len \in mem.len .. Len(logs[mem.active].frames)
      BY <2>2, ActiveLog, LenProperties DEF Made
    <3> QED
      BY <1>1, <2>2, <3>1, CutPlainly
  <2>3. CASE /\ pc = "newlog" /\ logs' = With(logs, mem.nextFile + 1, EmptyLog)
             /\ Change([dir EXCEPT !.logs = @ \cup {mem.nextFile + 1}])
    BY <1>7, <2>3
  <2> QED
    BY <1>10, <2>1, <2>2, <2>3 DEF Fails
<1>11. CASE Kill
  <2>1. PICK n \in mem.len .. Len(logs[mem.active].frames) :
           logs' = LogWith(First(logs[mem.active].frames, n), n)
    BY <1>11 DEF Kill
  <2>2. pc # "closed" /\ past' = past
    BY <1>11 DEF Kill
  <2> QED
    BY <1>1, <2>1, <2>2, CutPlainly
<1>12. CASE PowerLoss
  <2>1. PICK d \in past : past' = {d}
    BY <1>12 DEF PowerLoss
  <2>2. \A x \in past' : Comes(x)
    BY <2>1 DEF Comes
  <2>3. ASSUME NEW x \in past PROVE Shorter(x.man.active)
    <3> PICK a : a = x.man.active
      OBVIOUS
    <3>1. a \in DOMAIN logs
      BY <1>1 DEF Made, Past
    <3>2. /\ logs[a].frames \in Seq(Rec) /\ logs[a].safe \in 0 .. Len(logs[a].frames)
      BY <1>1, <3>1, LogsAre DEF LogFacts
    <3>3. logs'[a].frames = First(logs[a].frames, logs[a].safe)
      BY <1>1, <1>12, <3>1, LossLogs
    <3>4. Shorter(a)
      BY <3>2, <3>3, FirstShorter
    <3> QED
      BY <3>4
  <2> QED
    BY <2>2, <2>3 DEF Plainly
<1> QED
  BY <1>2, <1>3, <1>4, <1>5, <1>6, <1>8, <1>9, <1>10, <1>11, <1>12 DEF Move, Work

\* Of two directories that answer alike up to a record of their log, so they do with it.
LEMMA AlikeMore ==
    ASSUME NEW S, NEW T, NEW f \in Seq(Rec), NEW k \in Nat, k + 1 <= Len(f),
           NEW b \in Nat, NEW c \in Nat, \A id \in AllIds(S) : id < b, \A id \in AllIds(T) : id < c,
           Logged(f, b), Logged(f, c),
           Said(S, PartOf(First(f, k))) = Said(T, PartOf(First(f, k)))
    PROVE  Said(S, PartOf(First(f, k + 1))) = Said(T, PartOf(First(f, k + 1)))
<1>1. f[k + 1].kind = "entry" => f[k + 1].id \notin Known(S, PartOf(First(f, k)))
  BY FreshEntry
<1>2. f[k + 1].kind = "entry" => f[k + 1].id \notin Known(T, PartOf(First(f, k)))
  BY FreshEntry
<1> QED
  BY <1>1, <1>2, SameMore

\* A record is written: the call's next.
LEMMA WriteReasons ==
    ASSUME Ordered, Write, PastOrder', OneAnswer, Intended, OwnHistory,
           Asked(Mirror, call.todo)
    PROVE  OneAnswer' /\ Intended'
<1> PICK a, n, r, todo : a = mem.active /\ n = mem.len /\ r = Head(call.todo) /\ todo = call.todo
  OBVIOUS
<1> DEFINE f == logs[a].frames
           p == First(f, n)
           g == Append(p, r)
<1>1. /\ pc = "append" /\ todo # <<>> /\ logs' = LogWith(g, n)
      /\ past' = past /\ meant' = meant
  BY DEF Write
<1>2. todo \in Seq(Rec) /\ r = todo[1] /\ r \in Rec
  <2>1. todo \in Seq(Rec)
    BY DEF Ordered, Plain, CallType
  <2>2. r \in Rec
    BY <1>1, <2>1, OfTail
  <2>3. r = todo[1]
    BY <1>1, <2>1, HeadTailProperties
  <2> QED
    BY <2>1, <2>2, <2>3
<1>3. /\ f \in Seq(Rec) /\ n \in 0 .. Len(f) /\ n \in Nat /\ n <= Len(f) /\ Len(f) \in Nat
      /\ a \in DOMAIN logs
  <2>1. f \in Seq(Rec) /\ n \in 0 .. Len(f) /\ a \in DOMAIN logs
    BY <1>1, ActiveLog DEF Ordered, Made, Process
  <2> QED
    BY <2>1, LenProperties
<1>4. p \in Seq(Rec) /\ Len(p) = n /\ \A i \in 1 .. n : p[i] = f[i]
  BY <1>3, FirstOf
<1>5. logs'[a].frames = g /\ \A x \in DOMAIN logs : x # a => logs'[x] = logs[x]
  <2> DEFINE v == [frames |-> g, safe |-> Min({logs[a].safe, n}), accepted |-> logs[a].accepted]
  <2>1. logs' = [logs EXCEPT ![a] = v] /\ v.frames = g
    BY <1>1 DEF LogWith
  <2> HIDE DEF v, g
  <2> QED
    BY <1>3, <2>1
<1> HIDE DEF p
<1>6. g \in Seq(Rec) /\ Len(g) = n + 1 /\ g[n + 1] = r /\ \A i \in 1 .. n : g[i] = f[i]
  BY <1>2, <1>4, AppendProperties
<1> HIDE DEF g
<1>7. \A k \in 0 .. n : First(g, k) = First(f, k)
  <2>1. ASSUME NEW k \in 0 .. n PROVE First(g, k) = First(f, k)
    <3>1. k \in Nat /\ k <= Len(f) /\ k <= Len(g) /\ \A i \in 1 .. k : g[i] = f[i]
      BY <1>3, <1>6
    <3> QED
      BY <1>3, <1>6, <3>1, SameFirst
  <2> QED
    BY <2>1
<1> HIDE DEF f
<1>8. ASSUME NEW d \in past, d.man.active # a
      PROVE  FramesOf(d)' = FramesOf(d) /\ \A k : Upto(d, k)' = Upto(d, k)
  <2>1. logs'[d.man.active] = logs[d.man.active]
    BY <1>5, <1>8 DEF Ordered, Made, Past
  <2>2. FramesOf(d)' = FramesOf(d)
    BY <2>1 DEF FramesOf
  <2> QED
    BY <2>2 DEF Upto, Said, SegsOf
<1>9. ASSUME NEW d \in past, d.man.active = a
      PROVE  /\ FramesOf(d) = f /\ FramesOf(d)' = g
             /\ \A k : Upto(d, k)' = Said(SegsOf(d), PartOf(First(g, k)))
             /\ \A k \in 0 .. n : Upto(d, k)' = Upto(d, k)
             /\ d.man.nextId \in Nat /\ Logged(g, d.man.nextId)
             /\ \A id \in AllIds(SegsOf(d)) : id < d.man.nextId
  <2>1. FramesOf(d) = f /\ FramesOf(d)' = g
    BY <1>5, <1>9 DEF FramesOf, f
  <2>2. \A k : Upto(d, k)' = Said(SegsOf(d), PartOf(First(g, k)))
    BY <2>1 DEF Upto, Said, SegsOf
  <2>3. \A k \in 0 .. n : Upto(d, k)' = Upto(d, k)
    BY <1>7, <2>1, <2>2 DEF Upto
  <2>4. d.man.nextId \in Nat
    BY DirSet DEF Ordered, Plain, ManType
  <2>5. Logged(g, d.man.nextId)
    BY <1>1, <2>1 DEF PastOrder
  <2>6. \A id \in AllIds(SegsOf(d)) : id < d.man.nextId
    BY DEF Ordered, PastOrder
  <2> QED
    BY <2>1, <2>2, <2>3, <2>4, <2>5, <2>6
<1>10. ASSUME NEW d \in past, NEW e \in past, d.man.active = e.man.active,
              NEW k \in 0 .. Len(FramesOf(d)')
       PROVE  Upto(d, k)' = Upto(e, k)'
  <2>1. CASE d.man.active # a
    <3>1. Upto(d, k)' = Upto(d, k) /\ Upto(e, k)' = Upto(e, k) /\ k \in 0 .. Len(FramesOf(d))
      BY <1>8, <1>10, <2>1
    <3> QED
      BY <1>10, <3>1 DEF OneAnswer
  <2>2. CASE d.man.active = a
    <3>1. k \in 0 .. n + 1
      BY <1>6, <1>9, <2>2
    <3>2. ASSUME NEW j \in 0 .. n PROVE Upto(d, j)' = Upto(e, j)'
      <4>1. j \in 0 .. Len(FramesOf(d))
        BY <1>3, <1>9, <2>2
      <4>2. Upto(d, j) = Upto(e, j)
        BY <1>10, <4>1 DEF OneAnswer
      <4> QED
        BY <1>9, <1>10, <2>2, <4>2
    <3>3. CASE k = n + 1
      <4>1. n \in 0 .. n /\ n + 1 <= Len(g)
        BY <1>3, <1>6
      <4>2. Said(SegsOf(d), PartOf(First(g, n))) = Said(SegsOf(e), PartOf(First(g, n)))
        BY <1>9, <1>10, <2>2, <3>2, <4>1
      <4>3. /\ d.man.nextId \in Nat /\ Logged(g, d.man.nextId)
            /\ \A id \in AllIds(SegsOf(d)) : id < d.man.nextId
            /\ e.man.nextId \in Nat /\ Logged(g, e.man.nextId)
            /\ \A id \in AllIds(SegsOf(e)) : id < e.man.nextId
        BY <1>9, <1>10, <2>2
      <4>4. Said(SegsOf(d), PartOf(First(g, n + 1))) = Said(SegsOf(e), PartOf(First(g, n + 1)))
        <5> DEFINE S == SegsOf(d)
                   T == SegsOf(e)
                   b == d.man.nextId
                   c == e.man.nextId
        <5>1. /\ g \in Seq(Rec) /\ n \in Nat /\ n + 1 <= Len(g) /\ b \in Nat /\ c \in Nat
              /\ (\A id \in AllIds(S) : id < b) /\ (\A id \in AllIds(T) : id < c)
              /\ Logged(g, b) /\ Logged(g, c)
              /\ Said(S, PartOf(First(g, n))) = Said(T, PartOf(First(g, n)))
          BY <1>3, <1>6, <4>1, <4>2, <4>3
        <5> HIDE DEF S, T, b, c
        <5>2. Said(S, PartOf(First(g, n + 1))) = Said(T, PartOf(First(g, n + 1)))
          BY ONLY <5>1, AlikeMore
        <5> QED
          BY <5>2 DEF S, T
      <4> QED
        BY <1>9, <1>10, <2>2, <3>3, <4>4
    <3> QED
      BY <1>3, <3>1, <3>2, <3>3
  <2> QED
    BY <2>1, <2>2
<1>11. Meant(Mirror, r.id) \/ r.kind # "delete"
  BY <1>1, <1>2, AskedNow
<1>12. ASSUME NEW d \in past, d.man.active = a PROVE Upto(d, n) = Mirror
  <2>1. PICK e \in past : e.man.active = a /\ SegsOf(e) = Segs
    BY DEF OwnHistory
  <2>2. Upto(d, n) = Upto(e, n)
    BY <1>3, <1>9, <1>12, <2>1 DEF OneAnswer
  <2>3. Upto(e, n) = Said(Segs, PartOf(First(f, n)))
    BY <1>9, <2>1 DEF Upto
  <2> QED
    BY <2>2, <2>3 DEF Mirror, Mine, Log, Said, f
<1>13. ASSUME NEW d \in past, NEW k \in 1 .. Len(FramesOf(d)'), FramesOf(d)'[k].kind = "delete"
       PROVE  Meant(Upto(d, k - 1), FramesOf(d)[k].id)'
  <2>1. CASE d.man.active # a
    <3>1. Upto(d, k - 1)' = Upto(d, k - 1) /\ FramesOf(d)' = FramesOf(d)
      BY <1>8, <2>1
    <3>2. Meant(Upto(d, k - 1), FramesOf(d)[k].id)
      BY <1>13, <3>1 DEF Intended
    <3> QED
      BY <1>1, <3>1, <3>2 DEF Meant
  <2>2. CASE d.man.active = a
    <3>1. k \in 1 .. n + 1 /\ k - 1 \in 0 .. n /\ FramesOf(d)' = g /\ FramesOf(d) = f
      BY <1>3, <1>6, <1>9, <2>2
    <3>2. Upto(d, k - 1)' = Upto(d, k - 1)
      BY <1>9, <2>2, <3>1
    <3>3. CASE k = n + 1
      <4>1. g[k] = r /\ k - 1 = n
        BY <1>3, <1>6, <3>3
      <4>2. Upto(d, k - 1) = Mirror
        BY <1>12, <2>2, <4>1
      <4>3. Meant(Mirror, r.id)
        BY <1>11, <1>13, <3>1, <4>1
      <4> QED
        BY <1>1, <3>1, <3>2, <4>1, <4>2, <4>3 DEF Meant
    <3>4. CASE k # n + 1
      <4>1. k \in 1 .. n /\ k \in 1 .. Len(f) /\ g[k] = f[k]
        BY <1>3, <1>6, <3>1, <3>4
      <4>2. Meant(Upto(d, k - 1), f[k].id)
        BY <1>13, <3>1, <4>1 DEF Intended
      <4> QED
        BY <1>1, <3>1, <3>2, <4>1, <4>2 DEF Meant
    <3> QED
      BY <3>3, <3>4
  <2> QED
    BY <2>1, <2>2
<1> QED
  BY <1>1, <1>10, <1>13 DEF OneAnswer, Intended

\* A directory more, of a new manifest: what it answers, those before it did.
LEMMA DirReasons ==
    ASSUME Plain, Made, OneAnswer, Intended, meant' = meant, logs' = logs,
           NEW d, past' = past \cup {d},
           \A e \in past : e.man.active = d.man.active =>
               \A k \in 0 .. Len(FramesOf(d)) : Upto(d, k) = Upto(e, k),
           \A k \in 1 .. Len(FramesOf(d)) :
               FramesOf(d)[k].kind = "delete" => Meant(Upto(d, k - 1), FramesOf(d)[k].id)
    PROVE  OneAnswer' /\ Intended'
<1>1. \A x : FramesOf(x)' = FramesOf(x) /\ \A k : Upto(x, k)' = Upto(x, k)
  BY DEF FramesOf, Upto, Said, SegsOf
<1>2. ASSUME NEW x \in past', NEW y \in past', x.man.active = y.man.active,
             NEW k \in 0 .. Len(FramesOf(x))
      PROVE  Upto(x, k) = Upto(y, k)
  <2>1. FramesOf(x) = FramesOf(y)
    BY <1>2 DEF FramesOf
  <2>2. CASE x \in past /\ y \in past
    BY <1>2, <2>2 DEF OneAnswer
  <2>3. CASE x = d /\ y \in past
    BY <1>2, <2>3
  <2>4. CASE x \in past /\ y = d
    BY <1>2, <2>1, <2>4
  <2>5. CASE x = d /\ y = d
    BY <2>5
  <2> QED
    BY <2>2, <2>3, <2>4, <2>5
<1>3. OneAnswer'
  BY <1>1, <1>2 DEF OneAnswer
<1>4. ASSUME NEW x \in past', NEW k \in 1 .. Len(FramesOf(x)), FramesOf(x)[k].kind = "delete"
      PROVE  Meant(Upto(x, k - 1), FramesOf(x)[k].id)
  BY <1>4 DEF Intended
<1>5. Intended'
  <2>1. ASSUME NEW x \in past', NEW k \in 1 .. Len(FramesOf(x)'), FramesOf(x)'[k].kind = "delete"
        PROVE  Meant(Upto(x, k - 1), FramesOf(x)[k].id)'
    <3>1. k \in 1 .. Len(FramesOf(x)) /\ FramesOf(x)[k].kind = "delete"
          /\ Upto(x, k - 1)' = Upto(x, k - 1) /\ FramesOf(x)' = FramesOf(x)
      BY <1>1, <2>1
    <3>2. Meant(Upto(x, k - 1), FramesOf(x)[k].id)
      BY <1>4, <3>1
    <3> QED
      BY <3>1, <3>2 DEF Meant
  <2> QED
    BY <2>1 DEF Intended
<1> QED
  BY <1>3, <1>5

LEMMA RenameReasons ==
    ASSUME Ordered, RenameManifest, OneAnswer, Intended
    PROVE  OneAnswer' /\ Intended'
<1> DEFINE n == mem.nextFile
           man == Manifest(n + 2, Append(mem.segments, n), n + 1)
           d == [dir EXCEPT !.man = man]
<1>1. pc = "manifest" /\ Change(d) /\ logs' = logs /\ meant' = meant
  BY DEF RenameManifest
<1>2. d.man.active = n + 1
  BY DEF Ordered, Plain, DirType, Manifest
<1> HIDE DEF d
<1>3. logs[n + 1] = EmptyLog
  BY <1>1 DEF Ordered, Made, Stage, MadeLog
<1>4. InStep
  BY <1>1 DEF Ordered, MemOrder, OutOfStep
<1>5. \A e \in past : e.man.active # d.man.active
  BY <1>1, <1>2, <1>4, NextIsNew
<1>6. Len(FramesOf(d)) = 0
  BY <1>2, <1>3, EmptySeq DEF FramesOf, EmptyLog
<1>7. \A k : k \notin 1 .. Len(FramesOf(d))
  BY <1>6
<1> QED
  BY <1>1, <1>5, <1>7, DirReasons DEF Change, Ordered

\* What the process answers stays as long as its own records and segments do.
LEMMA MineStays ==
    ASSUME mem' = mem, \A i \in Range(mem.segments) : dir'.segs[i] = dir.segs[i],
           First(logs[mem.active].frames, mem.len)' = First(logs[mem.active].frames, mem.len)
    PROVE  Segs' = Segs /\ Mirror' = Mirror
<1>1. Segs' = Segs
  BY DEF Segs
<1>2. Log' = Log
  BY DEF Log
<1>3. Mine' = Mine
  BY <1>1, <1>2 DEF Mine
<1> QED
  BY <1>1, <1>3 DEF Mirror, Answers, Answer, Of, Held, Noted, Dead, IdsIn

ManifestSays == Mirror = Answers(Parts(dir.man, dir, logs[dir.man.active].accepted))
LEMMA MergedSays == Plain /\ Made /\ pc = "merged" => ManifestSays
BY AfterMerged DEF ManifestSays
LEMMA SealedSays == Plain /\ Made /\ pc = "sealed" => ManifestSays
BY AfterSeal DEF ManifestSays

\* The segments merged answer as those they are made of, of the log as well.
LEMMA MergeReasons ==
    ASSUME Ordered, MergeManifest, Plain', Made', PastOrder', OneAnswer, Intended, OwnHistory
    PROVE  OneAnswer' /\ Intended'
<1> PICK a : a = mem.active
  OBVIOUS
<1> DEFINE f == logs[a].frames
           man == Manifest(mem.nextFile + 1, AfterMerge, a)
<1> PICK d : d = [dir EXCEPT !.man = man]
  OBVIOUS
<1>1. /\ pc = "mergeman" /\ pc' = "merged" /\ Change(d) /\ logs' = logs /\ mem' = mem
      /\ meant' = meant
  BY DEF MergeManifest
<1>2. d.man.active = a /\ d.segs = dir.segs
  BY DEF Ordered, Plain, DirType, Manifest
<1> HIDE DEF man
<1>3. dir' = d /\ past' = past \cup {d}
  BY <1>1 DEF Change
<1>4. /\ mem.len = 0 /\ logs[a].accepted = 0 /\ f \in Seq(Rec) /\ Len(f) \in Nat /\ Len(f) <= 1
  <2>1. mem.len = 0 /\ logs[a].accepted = 0 /\ a \in DOMAIN logs
    BY <1>1 DEF Ordered, Sized, Made, Process
  <2>2. Len(f) <= logs[a].accepted + 1
    BY <2>1 DEF Ordered, Sized
  <2>3. f \in Seq(Rec) /\ Len(f) \in Nat
    BY <2>1, LogsAre DEF Ordered, LogFacts
  <2> QED
    BY <2>1, <2>2, <2>3
<1>5. FramesOf(d) = f
  BY <1>2 DEF FramesOf
<1> HIDE DEF f
<1>6. Upto(d, 0) = Mirror
  <2>1. ManifestSays'
    <3>1. Plain' /\ Made' /\ (pc = "merged")' => ManifestSays'
      BY MergedSays, PTL
    <3> QED
      BY <1>1, <3>1
  <2>2. Mirror' = Mirror
    BY <1>1, <1>2, <1>3, MineStays
  <2>3. Parts(dir.man, dir, logs[dir.man.active].accepted)' = SegsOf(d) \cup {PartOf(First(f, 0))}
    BY <1>1, <1>2, <1>3, <1>4 DEF Parts, SegsOf, f
  <2>4. Mirror' = Answers(SegsOf(d) \cup {PartOf(First(f, 0))})
    BY <2>1, <2>3 DEF ManifestSays, Answers, Answer, Of, Held, Noted, Dead, IdsIn
  <2> QED
    BY <1>5, <2>2, <2>4 DEF Upto, Said
<1>7. PICK e \in past : e.man.active = a /\ SegsOf(e) = Segs
  BY DEF OwnHistory
<1>8. FramesOf(e) = f
  BY <1>7 DEF FramesOf, f
<1>9. Upto(e, 0) = Mirror
  BY <1>4, <1>7, <1>8 DEF Upto, Said, Mirror, Mine, Log, f
<1>10. /\ d.man.nextId \in Nat /\ Logged(f, d.man.nextId)
       /\ \A id \in AllIds(SegsOf(d)) : id < d.man.nextId
       /\ e.man.nextId \in Nat /\ Logged(f, e.man.nextId)
       /\ \A id \in AllIds(SegsOf(e)) : id < e.man.nextId
  <2>1. d.man.nextId \in Nat
    BY <1>3, DirSet DEF Plain, ManType
  <2>2. e.man.nextId \in Nat
    BY DirSet DEF Ordered, Plain, ManType
  <2>3. FramesOf(d)' = f /\ SegsOf(d)' = SegsOf(d) /\ d \in past'
    BY <1>1, <1>3, <1>5 DEF FramesOf, SegsOf
  <2>4. Logged(f, d.man.nextId)
    BY <2>3 DEF PastOrder
  <2>5. \A id \in AllIds(SegsOf(d)) : id < d.man.nextId
    BY <2>3 DEF PastOrder, SegsOf
  <2>6. Logged(f, e.man.nextId) /\ \A id \in AllIds(SegsOf(e)) : id < e.man.nextId
    BY <1>8 DEF Ordered, PastOrder
  <2> QED
    BY <2>1, <2>2, <2>4, <2>5, <2>6
<1>11. ASSUME NEW k \in 0 .. Len(f) PROVE Upto(d, k) = Upto(e, k)
  <2>1. CASE k = 0
    BY <1>6, <1>9, <2>1
  <2>2. CASE k = 1
    <3>1. Said(SegsOf(d), PartOf(First(f, 0))) = Said(SegsOf(e), PartOf(First(f, 0)))
      BY <1>5, <1>6, <1>8, <1>9 DEF Upto
    <3>2. 0 \in Nat /\ 0 + 1 <= Len(f) /\ 0 + 1 = 1
      BY <1>4, <2>2
    <3>3. Said(SegsOf(d), PartOf(First(f, 0 + 1))) = Said(SegsOf(e), PartOf(First(f, 0 + 1)))
      BY <1>4, <1>10, <3>1, <3>2, AlikeMore
    <3> QED
      BY <1>5, <1>8, <2>2, <3>2, <3>3 DEF Upto
  <2> QED
    BY <1>4, <2>1, <2>2
<1>12. ASSUME NEW x \in past, x.man.active = a, NEW k \in 0 .. Len(f) PROVE Upto(d, k) = Upto(x, k)
  BY <1>7, <1>8, <1>11, <1>12 DEF OneAnswer
<1>13. ASSUME NEW k \in 1 .. Len(f), f[k].kind = "delete" PROVE Meant(Upto(d, k - 1), f[k].id)
  <2>1. k - 1 \in 0 .. Len(f)
    BY <1>4
  <2>2. Meant(Upto(e, k - 1), f[k].id)
    BY <1>8, <1>13 DEF Intended
  <2> QED
    BY <1>11, <2>1, <2>2
<1>14. \A x \in past : x.man.active = d.man.active =>
          \A k \in 0 .. Len(FramesOf(d)) : Upto(d, k) = Upto(x, k)
  BY <1>2, <1>5, <1>12
<1>15. \A k \in 1 .. Len(FramesOf(d)) :
          FramesOf(d)[k].kind = "delete" => Meant(Upto(d, k - 1), FramesOf(d)[k].id)
  BY <1>5, <1>13
<1>16. Plain /\ Made /\ meant' = meant /\ logs' = logs /\ past' = past \cup {d}
  BY <1>1, <1>3 DEF Ordered
<1> QED
  BY ONLY <1>14, <1>15, <1>16, OneAnswer, Intended, DirReasons

---------------------------------------------------------------------------
(* The process's own history, and what its call will delete. *)

LEMMA AskedGrows == ASSUME Grows, NEW A, NEW todo, Asked(A, todo) PROVE Asked(A, todo)'
BY DEF Asked, Moved, NoteOf, Grows

\* A step of a call that takes no record.
LEMMA OwnStays ==
    ASSUME OwnHistory, past \subseteq past', mem' = mem,
           \A i \in Range(mem.segments) : dir'.segs[i] = dir.segs[i],
           First(logs[mem.active].frames, mem.len)' = First(logs[mem.active].frames, mem.len)
    PROVE  OwnHistory' /\ Mirror' = Mirror
<1>1. Segs' = Segs /\ Mirror' = Mirror
  BY MineStays
<1>2. PICK d \in past : d.man.active = mem.active /\ SegsOf(d) = Segs
  BY DEF OwnHistory
<1>3. d \in past' /\ d.man.active = mem'.active /\ SegsOf(d) = Segs'
  BY <1>1, <1>2
<1> QED
  BY <1>1, <1>3 DEF OwnHistory, SegsOf

LEMMA AskedStays ==
    ASSUME Grows, Mirror' = Mirror, Asked(Mirror, call.todo),
           call'.todo = call.todo \/ call' = NoCall
    PROVE  Asked(Mirror, call.todo)'
<1> PICK A, todo : A = Mirror /\ todo = call.todo
  OBVIOUS
<1>1. Asked(A, todo)'
  BY AskedGrows
<1>2. CASE call'.todo = call.todo
  BY <1>1, <1>2 DEF Asked
<1>3. CASE call' = NoCall
  <2>1. call'.todo = <<>>
    BY <1>3 DEF NoCall
  <2>2. Asked(A, <<>>)'
    <3>1. Len(<<>>) = 0
      BY EmptySeq
    <3> QED
      BY <3>1 DEF Asked
  <2> QED
    BY <2>1, <2>2 DEF Asked
<1> QED
  BY <1>2, <1>3

\* The records that the process mirrors, and its segments, stay where they are.
Stands ==
    /\ past \subseteq past' /\ mem' = mem
    /\ \A i \in Range(mem.segments) : dir'.segs[i] = dir.segs[i]
    /\ First(logs[mem.active].frames, mem.len)' = First(logs[mem.active].frames, mem.len)

LEMMA StandsBy ==
    ASSUME Plain, Made, pc # "closed", past \subseteq past', mem' = mem,
           dir' = dir \/ (\E d : dir' = d /\ \A i \in Range(mem.segments) : d.segs[i] = dir.segs[i]),
           NEW h \in Seq(Rec), logs'[mem.active].frames = h, mem.len <= Len(h),
           \A i \in 1 .. mem.len : h[i] = logs[mem.active].frames[i]
    PROVE  Stands
<1> PICK a, n : a = mem.active /\ n = mem.len
  OBVIOUS
<1> DEFINE f == logs[a].frames
<1>1. f \in Seq(Rec) /\ n \in 0 .. Len(f) /\ n \in Nat /\ n <= Len(f)
  <2>1. f \in Seq(Rec) /\ n \in 0 .. Len(f)
    BY ActiveLog DEF Made
  <2> QED
    BY <2>1, LenProperties
<1>2. First(h, n) = First(f, n)
  <2>1. n <= Len(h) /\ \A i \in 1 .. n : h[i] = f[i]
    OBVIOUS
  <2> HIDE DEF f
  <2> QED
    BY <1>1, <2>1, SameFirst
<1>3. First(logs[mem.active].frames, mem.len)' = First(h, n)
  OBVIOUS
<1> QED
  BY <1>2, <1>3 DEF Stands

LEMMA StandsStill ==
    ASSUME Plain, Made, pc # "closed", past \subseteq past', mem' = mem,
           dir' = dir \/ (\E d : dir' = d /\ \A i \in Range(mem.segments) : d.segs[i] = dir.segs[i]),
           logs'[mem.active].frames = logs[mem.active].frames
    PROVE  Stands
<1>1. /\ logs[mem.active].frames \in Seq(Rec) /\ mem.len \in 0 .. Len(logs[mem.active].frames)
      /\ Len(logs[mem.active].frames) \in Nat
  BY ActiveLog, LenProperties DEF Made
<1>2. mem.len <= Len(logs[mem.active].frames)
  BY <1>1
<1> QED
  BY <1>1, <1>2, StandsBy

LEMMA StandsLog ==
    ASSUME Plain, Made, pc # "closed", mem' = mem, logs' = With(logs, mem.nextFile + 1, EmptyLog),
           Change([dir EXCEPT !.logs = @ \cup {mem.nextFile + 1}])
    PROVE  Stands
<1> DEFINE d == [dir EXCEPT !.logs = dir.logs \cup {mem.nextFile + 1}]
<1>1. Change(d)
  OBVIOUS
<1>2. d.segs = dir.segs
  BY DEF Plain, DirType
<1> HIDE DEF d
<1>3. /\ mem.active \in DOMAIN logs /\ mem.active # mem.nextFile + 1
  <2>1. mem.active < mem.nextFile /\ mem.active \in Nat /\ mem.nextFile \in Nat
    BY MemParts DEF Made, Numbered
  <2> QED
    BY <2>1 DEF Made, Process
<1>4. logs'[mem.active] = logs[mem.active]
  BY <1>3 DEF With
<1> QED
  BY <1>1, <1>2, <1>4, StandsStill DEF Change

LEMMA StandsSegment ==
    ASSUME Plain, Made, pc # "closed", mem' = mem, logs' = logs, NEW seg,
           Change([dir EXCEPT !.segs = With(dir.segs, mem.nextFile, seg)])
    PROVE  Stands
<1> DEFINE segs == With(dir.segs, mem.nextFile, seg)
           d == [dir EXCEPT !.segs = segs]
<1>1. Change(d)
  OBVIOUS
<1>2. d.segs = segs
  BY DEF Plain, DirType
<1> HIDE DEF d
<1>3. mem.nextFile \notin Range(mem.segments)
  BY MemParts DEF Made, Numbered
<1>4. \A i \in Range(mem.segments) : segs[i] = dir.segs[i]
  BY <1>3 DEF With, Made, Process
<1> HIDE DEF segs
<1> QED
  BY <1>1, <1>2, <1>4, StandsStill DEF Change

LEMMA StepStands ==
    ASSUME Plain, Made, Move, pc # "closed", pc' # "closed", ~Sync, ~SyncSeal, ~SyncMerge
    PROVE  Stands
<1>1. Plain /\ Made
  OBVIOUS
<1>2. ~Begin /\ ~Open /\ ~Kill /\ ~PowerLoss
  BY DEF Begin, Open, Kill, PowerLoss
<1>3. CASE Call \/ Return \/ LogExists \/ Tiers
  <2>1. UNCHANGED <<logs, dir, past, mem>>
    BY <1>3 DEF Call, Copy, Import, Record, Delete, Replace, Compact, Ask, Return, LogExists, Tiers
  <2> QED
    BY <1>1, <2>1, StandsStill
<1>4. CASE Writeback
  <2>1. UNCHANGED <<dir, past, mem>>
    BY <1>4 DEF Writeback
  <2>2. logs'[mem.active].frames = logs[mem.active].frames
    BY <1>1, <1>4, WritebackLogs DEF Made, Process
  <2> QED
    BY <1>1, <2>1, <2>2, StandsStill
<1>5. CASE Seal \/ Merge
  <2>1. mem' = mem /\ logs' = logs
    BY <1>5 DEF Seal, Merge
  <2>2. CASE UNCHANGED <<dir, past>>
    BY <1>1, <2>1, <2>2, StandsStill
  <2>3. CASE \E seg : Change([dir EXCEPT !.segs = With(dir.segs, mem.nextFile, seg)])
    BY <1>1, <2>1, <2>3, StandsSegment
  <2> QED
    BY <1>5, <2>2, <2>3 DEF Seal, Merge
<1>6. CASE NewLog
  BY <1>1, <1>6, StandsLog DEF NewLog
<1>7. CASE RenameManifest \/ MergeManifest
  <2>1. PICK man : Change([dir EXCEPT !.man = man]) /\ mem' = mem /\ logs' = logs
    BY <1>7 DEF RenameManifest, MergeManifest
  <2> DEFINE d == [dir EXCEPT !.man = man]
  <2>2. d.segs = dir.segs
    BY <1>1 DEF Plain, DirType
  <2>3. Change(d)
    BY <2>1
  <2> HIDE DEF d
  <2> QED
    BY <1>1, <2>1, <2>2, <2>3, StandsStill DEF Change
<1> PICK a, n : a = mem.active /\ n = mem.len
  OBVIOUS
<1> DEFINE f == logs[a].frames
<1>8. ASSUME UNCHANGED <<dir, past, mem>>, NEW h \in Seq(Rec), logs' = LogWith(h, n),
             n <= Len(h), \A i \in 1 .. n : h[i] = f[i]
      PROVE  Stands
  <2> DEFINE v == [frames |-> h, safe |-> Min({logs[a].safe, n}), accepted |-> logs[a].accepted]
  <2>1. logs' = [logs EXCEPT ![a] = v] /\ v.frames = h
    BY <1>8 DEF LogWith
  <2> HIDE DEF v
  <2>2. logs'[a].frames = h
    BY <1>1, <2>1 DEF Made, Process
  <2> QED
    BY <1>1, <1>8, <2>2, StandsBy
<1>9. /\ f \in Seq(Rec) /\ n \in 0 .. Len(f) /\ n \in Nat
      /\ First(f, n) \in Seq(Rec) /\ Len(First(f, n)) = n /\ \A i \in 1 .. n : First(f, n)[i] = f[i]
  <2>1. f \in Seq(Rec) /\ n \in 0 .. Len(f)
    BY <1>1, ActiveLog DEF Made
  <2> HIDE DEF f
  <2> QED
    BY <2>1, FirstOf, LenProperties
<1>10. CASE Write
  <2> DEFINE p == First(f, n)
             r == Head(call.todo)
             h == Append(p, r)
  <2>1. call.todo # <<>> /\ UNCHANGED <<dir, past, mem>> /\ logs' = LogWith(h, n)
    BY <1>10 DEF Write
  <2>2. r \in Rec
    <3>1. call.todo \in Seq(Rec)
      BY <1>1 DEF Plain, CallType
    <3> QED
      BY <2>1, <3>1, OfTail
  <2>3. h \in Seq(Rec) /\ Len(h) = n + 1 /\ \A i \in 1 .. n : h[i] = f[i]
    <3>1. p \in Seq(Rec) /\ Len(p) = n /\ \A i \in 1 .. n : p[i] = f[i]
      BY <1>9
    <3> HIDE DEF p, r, f
    <3> QED
      BY <2>2, <3>1, AppendProperties
  <2>4. n <= Len(h)
    BY <1>9, <2>3
  <2> HIDE DEF h
  <2> QED
    BY <1>8, <2>1, <2>3, <2>4
<1>11. CASE Fails
  <2>1. mem' = mem
    BY <1>11 DEF Fails
  <2>2. CASE UNCHANGED <<logs, dir, past>>
    BY <1>1, <2>1, <2>2, StandsStill
  <2>3. CASE UNCHANGED <<dir, past>> /\ logs' = LogWith(First(f, n), n)
    BY <1>8, <1>9, <2>1, <2>3
  <2>4. CASE /\ logs' = With(logs, mem.nextFile + 1, EmptyLog)
             /\ Change([dir EXCEPT !.logs = @ \cup {mem.nextFile + 1}])
    BY <1>1, <2>1, <2>4, StandsLog
  <2> QED
    BY <1>11, <2>2, <2>3, <2>4 DEF Fails
<1> QED
  BY <1>2, <1>3, <1>4, <1>5, <1>6, <1>7, <1>10, <1>11 DEF Move, Work

LEMMA NoneDeleted ==
    ASSUME NEW A, NEW todo, \A i \in 1 .. Len(todo) : todo[i].kind # "delete"
    PROVE  Asked(A, todo)'
BY DEF Asked

\* What a call will delete it was asked to, or it moves what the entry has first.
LEMMA CallAsks ==
    ASSUME Ordered, Intents, Call, Mirror' = Mirror
    PROVE  Asked(Mirror, call.todo)'
<1> PICK A : A = Mirror
  OBVIOUS
<1>1. pc = "idle" /\ Plain /\ Made /\ MemOrder
  BY DEF Call, Ordered
<1>2. \A c, ms : FirstRecord(c, ms).kind # "delete"
  BY DEF FirstRecord, Entry, Event
<1>3. SUFFICES \E todo : call'.todo = todo /\ Asked(A, todo)'
  BY DEF Asked
<1>4. ASSUME NEW c \in Contents, NEW ms \in 0 .. MaxMs, Copy(c, ms) \/ Import(c, ms)
      PROVE  \E todo : call'.todo = todo /\ Asked(A, todo)'
  <2> PICK first, copy, paste : /\ first = FirstRecord(c, ms)
                                /\ copy = Event("copied", first.id, Stamp(ms, 1))
                                /\ paste = Event("pasted", first.id, Stamp(ms, 0))
    OBVIOUS
  <2>1. first.kind # "delete" /\ copy.kind # "delete" /\ paste.kind # "delete"
    BY <1>2 DEF Event
  <2>2. call'.todo \in {<<first>>, <<first, paste>>, <<first, copy, paste>>}
    BY <1>4 DEF Copy, Import, Ask
  <2>3. PICK todo \in {<<first>>, <<first, paste>>, <<first, copy, paste>>} : call'.todo = todo
    BY <2>2
  <2>4. \A i \in 1 .. Len(todo) : todo[i].kind # "delete"
    BY <2>1, <2>3
  <2>5. Asked(A, todo)'
    BY <2>4, NoneDeleted
  <2> QED
    BY <2>3, <2>5
<1>5. ASSUME NEW kind \in {"copied", "pasted"}, NEW id \in DOMAIN Mirror, NEW ms \in 0 .. MaxMs,
             Record(kind, id, ms)
      PROVE  \E todo : call'.todo = todo /\ Asked(A, todo)'
  <2> PICK todo : todo = <<Event(kind, id, Stamp(ms, 0))>>
    OBVIOUS
  <2>1. call'.todo = todo
    BY <1>5 DEF Record, Ask
  <2>2. \A i \in 1 .. Len(todo) : todo[i].kind # "delete"
    BY DEF Event
  <2>3. Asked(A, todo)'
    BY <2>2, NoneDeleted
  <2> QED
    BY <2>1, <2>3
<1>6. ASSUME NEW id \in DOMAIN Mirror, Delete(id) PROVE \E todo : call'.todo = todo /\ Asked(A, todo)'
  <2> PICK todo : todo = <<Tombstone(id)>>
    OBVIOUS
  <2>1. call'.todo = todo
    BY <1>6 DEF Delete, Ask
  <2>2. id \in meant'.deleted
    <3>1. meant' = [meant EXCEPT !.deleted = meant.deleted \cup {id}]
      BY <1>6 DEF Delete
    <3> QED
      BY <3>1 DEF Intents
  <2>3. \A i \in 1 .. Len(todo) : todo[i].id = id
    BY DEF Tombstone
  <2>4. Asked(A, todo)'
    BY <2>2, <2>3 DEF Asked
  <2> QED
    BY <2>1, <2>4
<1>7. ASSUME NEW id \in DOMAIN Mirror, NEW c \in Contents, Replace(id, c)
      PROVE  \E todo : call'.todo = todo /\ Asked(A, todo)'
  <2> PICK todo, r : todo = Replacement(id, c) /\ r = <<id, mem.nextId>>
    OBVIOUS
  <2>1. call'.todo = todo
    BY <1>7 DEF Replace, Ask
  <2>2. r \in meant'.replaced
    <3>1. meant' = [meant EXCEPT !.replaced = meant.replaced \cup {<<id, mem.nextId>>}]
      BY <1>7 DEF Replace
    <3> QED
      BY <3>1 DEF Intents
  <2>3. mem.nextId \in Ids
    <3>1. mem.nextId \in Nat /\ 0 < mem.nextId /\ mem.nextId <= MaxId
      BY <1>1, <1>7, MemParts DEF Made, Numbered, Replace
    <3> QED
      BY <3>1, StoreAssumption DEF Ids
  <2>4. \A i \in 1 .. Len(todo) : todo[i].kind = "delete" => Moved(A, todo, i, r)
    BY <1>1, <2>3, ReplaceAsks
  <2>5. Asked(A, todo)'
    <3>1. ASSUME NEW i \in 1 .. Len(todo), todo[i].kind = "delete"
          PROVE  \E s \in meant'.replaced : Moved(A, todo, i, s)
      BY <2>2, <2>4, <3>1
    <3> QED
      BY <3>1 DEF Asked, Moved, NoteOf
  <2> QED
    BY <2>1, <2>5
<1>8. ASSUME Compact PROVE \E todo : call'.todo = todo /\ Asked(A, todo)'
  <2>1. call'.todo = <<>> /\ Len(<<>>) = 0
    BY <1>8, EmptySeq DEF Compact
  <2>2. Asked(A, <<>>)'
    BY <2>1, NoneDeleted
  <2> QED
    BY <2>1, <2>2
<1> QED
  BY <1>4, <1>5, <1>6, <1>7, <1>8 DEF Call

\* A record is taken.
LEMMA SyncReasons ==
    ASSUME Ordered, Sync, OwnHistory, Asked(Mirror, call.todo)
    PROVE  OwnHistory' /\ Asked(Mirror, call.todo)'
<1> PICK a, n, r, todo : a = mem.active /\ n = mem.len /\ r = Head(call.todo) /\ todo = call.todo
  OBVIOUS
<1> DEFINE f == logs[a].frames
<1>1. /\ pc = "sync" /\ UNCHANGED <<dir, past, meant>>
      /\ mem' = [mem EXCEPT !.len = n + 1,
                            !.nextId = IF r.kind = "entry" THEN mem.nextId + 1 ELSE mem.nextId]
      /\ call' = [call EXCEPT !.todo = Tail(todo)]
  BY DEF Sync, Applied
<1>2. /\ mem'.active = a /\ mem'.len = n + 1 /\ mem'.segments = mem.segments
  <2>1. mem \in MemType
    BY <1>1, MemParts DEF Ordered, Made
  <2> QED
    BY <1>1, <2>1 DEF MemType
<1>3. /\ todo \in Seq(Rec) /\ todo # <<>> /\ call'.todo = Tail(todo)
  BY <1>1 DEF Ordered, Plain, Made, Stage, CallType
<1>4. r = todo[1] /\ r \in Rec /\ (r.kind = "entry" => r.id = mem.nextId)
  <2>1. Fits(todo, mem.nextId)
    BY <1>1 DEF Ordered, MemOrder
  <2> QED
    BY <1>3, <2>1, HeadFits
<1>5. f \in Seq(Rec) /\ n \in Nat /\ n + 1 <= Len(f) /\ f[n + 1] = r
  <2>1. f \in Seq(Rec) /\ n \in 0 .. Len(f) /\ Len(f) = n + 1 /\ Len(f) \in Nat
    BY <1>1, ActiveLog, LenProperties DEF Ordered, Made, Stage
  <2> QED
    BY <1>1, <2>1 DEF Ordered, MemOrder
<1>6. Segs' = Segs
  BY <1>1, <1>2 DEF Segs
<1>7. logs'[a].frames = f
  BY <1>1, SyncLogs DEF Ordered, Made, Process
<1>8. Log' = PartOf(First(f, n + 1)) /\ Log = PartOf(First(f, n))
  BY <1>2, <1>7 DEF Log
<1> PICK A, B, S : A = Mirror /\ B = Mirror' /\ S = Segs
  OBVIOUS
<1>9. A = Said(S, PartOf(First(f, n))) /\ B = Said(S, PartOf(First(f, n + 1)))
  <2>1. Mine' = S \cup {PartOf(First(f, n + 1))}
    BY <1>6, <1>8 DEF Mine
  <2>2. B = Answers(S \cup {PartOf(First(f, n + 1))})
    BY <2>1 DEF Mirror, Answers, Answer, Of, Held, Noted, Dead, IdsIn
  <2> QED
    BY <1>8, <2>2 DEF Said, Mirror, Mine
<1>10. r.kind = "entry" => r.id \notin Known(S, PartOf(First(f, n)))
  <2>1. \A id \in AllIds(Mine) : id < mem.nextId
    BY <1>1, MineIds DEF Ordered, MineFits
  <2>2. Known(S, PartOf(First(f, n))) = AllIds(Mine)
    BY <1>8 DEF Known, Mine
  <2>3. r.id \in Nat
    BY <1>4, RecIds
  <2> QED
    BY <1>4, <2>1, <2>2, <2>3
<1> HIDE DEF f
<1>11. Adds(A, r, B)
  BY <1>5, <1>9, <1>10, MoreAdds
<1>12. Shaped(A)
  BY AnswersShaped DEF Mirror
<1>13. Asked(B, Tail(todo))
  BY <1>3, <1>4, <1>11, <1>12, AskedMore
<1>14. Asked(Mirror, call.todo)'
  BY <1>1, <1>3, <1>13 DEF Asked
<1>15. OwnHistory'
  <2>1. PICK d \in past : d.man.active = a /\ SegsOf(d) = Segs
    BY DEF OwnHistory
  <2>2. d \in past' /\ d.man.active = mem'.active /\ SegsOf(d) = Segs'
    BY <1>1, <1>2, <1>6, <2>1
  <2> QED
    BY <2>2 DEF OwnHistory, SegsOf
<1> QED
  BY <1>14, <1>15

\* A manifest is synced: the process takes its files for its own.
LEMMA SyncedReasons ==
    ASSUME Plain, Made, Made', SyncSeal \/ SyncMerge, Asked(Mirror, call.todo)
    PROVE  OwnHistory' /\ Asked(Mirror, call.todo)'
<1>1. /\ dir \in past' /\ mem'.active = dir.man.active /\ Segs' = SegsOf(dir)
      /\ logs' = logs /\ call' = call /\ pc \in {"sealed", "merged"}
  BY SyncedPlainly
<1>2. pc' # "closed" /\ meant' = meant
  BY DEF SyncSeal, SyncMerge
<1>3. OwnHistory'
  <2>1. PICK d : d = dir
    OBVIOUS
  <2>2. d \in past' /\ d.man.active = mem'.active /\ SegsOf(d) = Segs'
    BY <1>1, <2>1 DEF SegsOf
  <2> QED
    BY <2>2 DEF OwnHistory, SegsOf
<1>4. ManifestSays
  BY <1>1, SealedSays, MergedSays
<1>5. Mirror' = Mirror
  <2> PICK a, m, S : a = dir.man.active /\ m = logs[a].accepted /\ S = SegsOf(dir)
    OBVIOUS
  <2>1. mem'.len = m
    BY <1>1, <1>2 DEF Made, Process
  <2>2. Log' = PartOf(First(logs[a].frames, m))
    BY <1>1, <2>1 DEF Log
  <2>3. Mine' = S \cup {PartOf(First(logs[a].frames, m))}
    BY <1>1, <2>2 DEF Mine
  <2>4. Mirror' = Answers(S \cup {PartOf(First(logs[a].frames, m))})
    BY <2>3 DEF Mirror, Answers, Answer, Of, Held, Noted, Dead, IdsIn
  <2>5. Parts(dir.man, dir, logs[dir.man.active].accepted) = S \cup {PartOf(First(logs[a].frames, m))}
    BY DEF Parts, SegsOf
  <2> QED
    BY <1>4, <2>4, <2>5 DEF ManifestSays
<1> QED
  BY <1>1, <1>2, <1>3, <1>5, AskedStays, SameIntents

\* A history is opened: no call is under way.
LEMMA OpenReasons ==
    ASSUME Plain, Made, Sized, Open
    PROVE  OwnHistory' /\ Asked(Mirror, call.todo)'
<1>1. /\ dir \in past' /\ mem'.active = dir.man.active /\ Segs' = SegsOf(dir)
      /\ call' = call /\ pc = "closed"
  BY OpenFiles
<1>2. call' = NoCall
  BY <1>1 DEF Sized
<1>3. OwnHistory'
  <2>1. PICK d : d = dir
    OBVIOUS
  <2>2. d \in past' /\ d.man.active = mem'.active /\ SegsOf(d) = Segs'
    BY <1>1, <2>1 DEF SegsOf
  <2> QED
    BY <2>2 DEF OwnHistory, SegsOf
<1>4. call'.todo = <<>> /\ Len(<<>>) = 0
  BY <1>2, EmptySeq DEF NoCall
<1>5. Asked(Mirror, call.todo)'
  BY <1>4 DEF Asked
<1> QED
  BY <1>3, <1>5

LEMMA ReasonsKept ==
    ASSUME Ordered, Kept, Plain', Made', Move, ~Begin, ~WritesOver, Intents, Reasons
    PROVE  Reasons' /\ Intents'
<1>1. Plain /\ Made /\ Sized /\ MemOrder /\ PastOrder' /\ OneAnswer /\ Intended
  BY DEF Ordered, Kept, Reasons
<1>2. pc # "closed" => OwnHistory /\ Asked(Mirror, call.todo)
  BY DEF Reasons
<1>3. Grows /\ Intents'
  <2>1. CASE Call
    BY <1>1, <2>1, CallGrows
  <2>2. CASE ~Call
    <3>1. meant' = meant
      BY <2>2, OtherGrows
    <3> QED
      BY <3>1, SameIntents DEF Intents
  <2> QED
    BY <2>1, <2>2
<1>4. OneAnswer' /\ Intended'
  <2>1. CASE Write
    <3>1. pc # "closed"
      BY <2>1 DEF Write
    <3> QED
      BY <1>1, <1>2, <2>1, <3>1, WriteReasons
  <2>2. CASE RenameManifest
    BY <1>1, <2>2, RenameReasons
  <2>3. CASE MergeManifest
    <3>1. pc # "closed"
      BY <2>3 DEF MergeManifest
    <3> QED
      BY <1>1, <1>2, <2>3, <3>1, MergeReasons
  <2>4. CASE ~Write /\ ~RenameManifest /\ ~MergeManifest
    <3>1. Plainly
      <4>1. pc = "newlog" => (\A d \in past : d.man.active # mem.nextFile + 1)
        <5> SUFFICES ASSUME pc = "newlog" PROVE \A d \in past : d.man.active # mem.nextFile + 1
          OBVIOUS
        <5>1. InStep
          BY DEF Ordered, MemOrder, OutOfStep
        <5> QED
          BY <5>1, NextIsNew
      <4> QED
        BY <2>4, <4>1, StepPlainly DEF Ordered
    <3> QED
      BY <1>1, <1>3, <3>1, NoneMore DEF Plainly
  <2> QED
    BY <2>1, <2>2, <2>3, <2>4
<1>5. ASSUME pc' # "closed" PROVE OwnHistory' /\ Asked(Mirror, call.todo)'
  <2>1. CASE Sync
    <3>1. pc # "closed"
      BY <2>1 DEF Sync
    <3> QED
      BY <1>2, <2>1, <3>1, SyncReasons
  <2>2. CASE SyncSeal \/ SyncMerge
    <3>1. pc # "closed"
      BY <2>2 DEF SyncSeal, SyncMerge
    <3> QED
      BY <1>1, <1>2, <2>2, <3>1, SyncedReasons
  <2>3. CASE pc = "closed"
    <3>1. Open
      BY <1>5, <2>3 DEF Move, Work, Begin, Call, Return, Writeback, LogExists, Fails, Kill,
           PowerLoss, Write, Sync, Seal, NewLog, RenameManifest, SyncSeal, Tiers, Merge,
           MergeManifest, SyncMerge
    <3> QED
      BY <1>1, <3>1, OpenReasons
  <2>4. CASE pc # "closed" /\ ~Sync /\ ~SyncSeal /\ ~SyncMerge
    <3>1. Stands
      BY <1>5, <2>4, StepStands DEF Ordered
    <3>2. OwnHistory' /\ Mirror' = Mirror
      BY <1>2, <2>4, <3>1, OwnStays DEF Stands
    <3>3. CASE Call
      BY <3>2, <3>3, CallAsks
    <3>4. CASE ~Call
      <4>1. call'.todo = call.todo \/ call' = NoCall
        <5>1. CASE Tiers
          BY <1>1, <5>1 DEF Plain, CallType, Tiers
        <5>2. CASE ~Tiers
          BY <2>4, <3>4, <5>2 DEF Move, Work, Begin, Open, Return, Writeback, LogExists, Fails, Kill,
             PowerLoss, Write, Seal, NewLog, RenameManifest, Merge, MergeManifest, GiveUp
        <5> QED
          BY <5>1, <5>2
      <4> QED
        BY <1>2, <1>3, <2>4, <3>2, <4>1, AskedStays
    <3> QED
      BY <3>2, <3>3, <3>4
  <2> QED
    BY <2>1, <2>2, <2>3, <2>4
<1> QED
  BY <1>3, <1>4, <1>5 DEF Reasons

\* The first history has nothing yet to delete.
LEMMA BeginReasons ==
    ASSUME Core, Begin, call = NoCall
    PROVE  Reasons' /\ meant' = meant
<1> PICK d : d = dir'
  OBVIOUS
<1>1. /\ past' = {d} /\ d.man.active = 1 /\ d.man.segments = <<>> /\ mem'.active = 1
      /\ mem'.segments = <<>> /\ dir' = d /\ logs' = [n \in {1} |-> EmptyLog]
      /\ call' = NoCall /\ meant' = meant
  BY DEF Begin
<1>2. logs'[1].frames = <<>> /\ Len(<<>>) = 0 /\ Range(<<>>) = {}
  BY <1>1, EmptySeq DEF EmptyLog, Range
<1>3. Len(FramesOf(d)') = 0
  BY <1>1, <1>2 DEF FramesOf
<1>4. OneAnswer'
  <2>1. ASSUME NEW x \in past', NEW y \in past' PROVE x = y
    BY <1>1
  <2> QED
    BY <2>1 DEF OneAnswer
<1>5. Intended'
  <2>1. ASSUME NEW x \in past', NEW k \in 1 .. Len(FramesOf(x)') PROVE FALSE
    <3>1. x = d
      BY <1>1
    <3> QED
      BY <1>3, <2>1, <3>1
  <2> QED
    BY <2>1 DEF Intended
<1>6. OwnHistory'
  <2>1. Segs' = {}
    BY <1>1, <1>2 DEF Segs
  <2>2. SegsOf(d) = {}
    BY <1>1, <1>2 DEF SegsOf
  <2> QED
    BY <1>1, <2>1, <2>2 DEF OwnHistory, SegsOf
<1>7. Asked(Mirror, call.todo)'
  <2>1. call'.todo = <<>>
    BY <1>1 DEF NoCall
  <2> QED
    BY <1>2, <2>1 DEF Asked
<1> QED
  BY <1>1, <1>4, <1>5, <1>6, <1>7 DEF Reasons

NInv == Intents /\ (Made /\ ~spoiled => Reasons)

LEMMA NStarts == ASSUME Init PROVE NInv
<1>1. New
  <2>1. DOMAIN <<>> = {}
    OBVIOUS
  <2> QED
    BY <2>1 DEF Init, New
<1> QED
  BY <1>1, NotBoth DEF NInv, Init, Intents

LEMMA NKeeps == ASSUME IInv, PInv, NInv, [Next]_vars PROVE NInv'
<1>1. CASE Next
  <2>1. Move /\ spoiled' = (spoiled \/ WritesOver)
    BY <1>1 DEF Next, Move
  <2>2. CASE Made
    <3>1. Plain' /\ Made' /\ ~Begin /\ (~spoiled' => Ordered /\ Kept)
      BY <1>1, <2>2, HistoryStep
    <3>2. CASE ~spoiled'
      BY <2>1, <2>2, <3>1, <3>2, ReasonsKept DEF NInv
    <3>3. CASE spoiled'
      <4>1. Intents'
        <5>1. CASE Call
          <6>1. Plain
            BY DEF IInv, Core
          <6> QED
            BY <2>2, <5>1, <6>1, CallGrows DEF NInv
        <5>2. CASE ~Call
          <6>1. meant' = meant
            BY <2>1, <5>2, OtherGrows
          <6> QED
            BY <6>1 DEF NInv, Intents
        <5> QED
          BY <5>1, <5>2
      <4> QED
        BY <3>3, <4>1 DEF NInv
    <3> QED
      BY <3>2, <3>3
  <2>3. CASE New
    <3>1. Core /\ Sized /\ pc = "closed"
      BY <2>3 DEF IInv, PInv, New
    <3>2. CASE Begin
      <4>1. call = NoCall
        BY <3>1 DEF Sized
      <4>2. Reasons' /\ meant' = meant
        BY <3>1, <3>2, <4>1, BeginReasons
      <4> QED
        BY <4>2 DEF NInv, Intents
    <3>3. CASE PowerLoss
      <4>1. ~Made'
        BY <2>3, <3>1, <3>3, NewLoss
      <4>2. meant' = meant
        BY <3>3 DEF PowerLoss
      <4> QED
        BY <4>1, <4>2 DEF NInv, Intents
    <3> QED
      BY <2>1, <2>3, <3>2, <3>3, NewMoves
  <2> QED
    BY <2>2, <2>3 DEF IInv, Core
<1>2. CASE UNCHANGED vars
  <2>1. /\ spoiled' = spoiled /\ meant' = meant
        /\ logs' = logs /\ dir' = dir /\ synced' = synced /\ past' = past /\ mem' = mem
        /\ pc' = pc /\ call' = call
    BY <1>2 DEF vars
  <2>2. Made' => Made
    <3>1. New => New'
      BY <2>1 DEF New
    <3>2. ~(New /\ Made)'
      BY NotBoth, PTL
    <3> QED
      BY <3>1, <3>2 DEF IInv, Core
  <2>3. Segs' = Segs /\ Mirror' = Mirror
    BY <2>1, MineStays
  <2>4. Reasons => Reasons'
    <3>1. OneAnswer => OneAnswer'
      BY <2>1 DEF OneAnswer, FramesOf, Upto, Said, SegsOf
    <3>2. Intended => Intended'
      <4>1. \A d : FramesOf(d)' = FramesOf(d) /\ \A k : Upto(d, k)' = Upto(d, k)
        BY <2>1 DEF FramesOf, Upto, Said, SegsOf
      <4> SUFFICES ASSUME Intended, NEW d \in past, NEW k \in 1 .. Len(FramesOf(d)'),
                          FramesOf(d)'[k].kind = "delete"
                   PROVE  Meant(Upto(d, k - 1), FramesOf(d)[k].id)'
        BY <2>1 DEF Intended
      <4>2. Meant(Upto(d, k - 1), FramesOf(d)[k].id)
        BY <4>1 DEF Intended
      <4> QED
        BY <2>1, <4>1, <4>2 DEF Meant
    <3>3. OwnHistory => OwnHistory'
      BY <2>1, <2>3 DEF OwnHistory, SegsOf
    <3>4. Asked(Mirror, call.todo) => Asked(Mirror, call.todo)'
      BY <2>1, <2>3, AskedStays, SameIntents
    <3> QED
      BY <2>1, <3>1, <3>2, <3>3, <3>4 DEF Reasons
  <2> QED
    BY <2>1, <2>2, <2>4 DEF NInv, Intents
<1> QED
  BY <1>1, <1>2

LEMMA LostStep ==
    ASSUME Ordered, ~unsure, Plain', Made', Goes, Intended,
           shown = Lasting(synced), shown' = Lasting(synced)',
           NEW id \in DOMAIN shown, id \notin DOMAIN shown'
    PROVE  \/ id \in meant.deleted
           \/ \E r \in meant.replaced :
                 /\ r[1] = id /\ r[2] \in DOMAIN shown'
                 /\ Carried(shown[id].events, shown'[r[2]].events)
<1>1. PICK d \in past, f \in Seq(Rec), k \in Nat :
              /\ f = FramesOf(d) /\ k = Sure(d.man.active) /\ k + 1 <= Len(f)
              /\ shown = Said(SegsOf(d), PartOf(First(f, k)))
              /\ shown' = Said(SegsOf(d), PartOf(First(f, k + 1)))
  BY OneMore
<1> PICK A, B, r : A = shown /\ B = shown' /\ r = f[k + 1]
  OBVIOUS
<1>2. Len(f) \in Nat /\ k + 1 \in 1 .. Len(f) /\ k + 1 - 1 = k /\ r \in Rec
  <2>1. Len(f) \in Nat
    BY LenProperties
  <2>2. k + 1 \in 1 .. Len(f)
    BY <1>1, <2>1
  <2> QED
    BY <2>1, <2>2, ElementOfSeq
<1>3. d.man.nextId \in Nat /\ Logged(f, d.man.nextId) /\ \A x \in AllIds(SegsOf(d)) : x < d.man.nextId
  <2>1. d.man.nextId \in Nat
    BY DirSet DEF Ordered, Plain, ManType
  <2> QED
    BY <1>1, <2>1 DEF Ordered, PastOrder
<1>4. r.kind = "entry" => r.id \notin Known(SegsOf(d), PartOf(First(f, k)))
  BY <1>1, <1>3, FreshEntry
<1>5. Adds(A, r, B)
  BY <1>1, <1>4, MoreAdds
<1>6. Shaped(A)
  BY <1>1, AnswersShaped DEF Said
<1>7. r.kind = "delete"
  BY <1>2, <1>5, <1>6, AddsNote
<1>8. B = Restrict(A, DOMAIN A \ {r.id})
  BY <1>5, <1>7 DEF Adds
<1>9. DOMAIN B = DOMAIN A \ {r.id} /\ \A x \in DOMAIN B : B[x] = A[x]
  BY <1>8 DEF Restrict
<1>10. id = r.id
  BY <1>9
<1>11. Meant(A, id)
  <2>1. Meant(Upto(d, k), r.id)
    BY <1>1, <1>2, <1>7 DEF Intended
  <2>2. Upto(d, k) = A
    BY <1>1 DEF Upto
  <2> QED
    BY <1>10, <2>1, <2>2
<1> QED
  BY <1>9, <1>10, <1>11 DEF Meant

Excused ==
    ~unsure /\ ~spoiled =>
         \A id \in DOMAIN shown \ DOMAIN shown' :
            \/ id \in meant.deleted
            \/ \E r \in meant.replaced :
                  /\ r[1] = id /\ r[2] \in DOMAIN shown'
                  /\ Carried(shown[id].events, shown'[r[2]].events)

LEMMA NextExcuses == ASSUME IInv, PInv, NInv, [Next]_vars PROVE Excused
<1> SUFFICES ASSUME ~unsure, ~spoiled, NEW id \in DOMAIN shown, id \notin DOMAIN shown'
             PROVE  \/ id \in meant.deleted
                    \/ \E r \in meant.replaced :
                          /\ r[1] = id /\ r[2] \in DOMAIN shown'
                          /\ Carried(shown[id].events, shown'[r[2]].events)
  BY DEF Excused
<1>1. Next
  BY DEF vars
<1>2. shown = Lasting(synced) /\ shown' = Lasting(synced)' /\ spoiled' = (spoiled \/ WritesOver)
  BY <1>1 DEF PInv, Next
<1>3. CASE Made
  <2>1. Plain
    BY <1>3, NotBoth DEF IInv, Core
  <2>2. ~spoiled'
    BY <1>2, <1>3, <2>1, SureNames
  <2>3. Plain' /\ Made' /\ Ordered /\ Kept
    BY <1>1, <1>3, <2>2, HistoryStep
  <2>4. Goes /\ Intended
    BY <1>3, <2>3 DEF Kept, NInv, Reasons
  <2> QED
    BY <1>2, <2>3, <2>4, LostStep
<1>4. CASE New
  <2>1. shown = <<>>
    BY <1>2, <1>4 DEF Lasting, IInv, Core, Plain, New
  <2> QED
    BY <2>1, NothingSaid
<1> QED
  BY <1>3, <1>4 DEF IInv, Core

\* ClipStore!NothingLost: an entry leaves the history for good only by a delete
\* that was asked for, or by a replace whose new entry is there, with as many
\* copies and pastes, each at its time but the earliest copy (lib.rs 718-735) -
\* whatever crashed or failed between the records of the call, and whatever was
\* sealed and merged since: the tombstone is behind them in the log.
THEOREM StoreLosesNothing == Spec => NothingLost
<1>1. Init => IInv /\ PInv /\ NInv
  BY Starts, PStarts, NStarts
<1>2. IInv /\ PInv /\ NInv /\ [Next]_vars => IInv' /\ PInv' /\ NInv'
  BY NextKeeps, PKeeps, NKeeps
<1>3. IInv /\ PInv /\ NInv /\ [Next]_vars => [Excused]_vars
  BY NextExcuses
<1>4. NothingLost <=> [][Excused]_vars
  BY PTL DEF NothingLost, Excused
<1> QED
  BY <1>1, <1>2, <1>3, <1>4, PTL DEF Spec

---------------------------------------------------------------------------
(* CompactErases: which files there are besides the history's, and which   *)
(* ids they may have.                                                      *)

\* The files the process does not count as its own are of a seal or of a
\* merge that has not ended, or failed.
Leftover ==
    pc # "closed" =>
        /\ DOMAIN dir.segs \subseteq Range(mem.segments) \cup {mem.nextFile}
        /\ dir.logs \subseteq {mem.active, mem.nextFile + 1}
        /\ mem.nextFile + 1 \in dir.logs =>
              /\ mem.len # 0
              /\ mem.nextFile + 1 \in DOMAIN logs
              /\ logs[mem.nextFile + 1].frames = <<>>
        /\ pc \in {"newlog", "manifest", "sealed"} => mem.len # 0
        /\ mem.len = 0 /\ mem.nextFile \in DOMAIN dir.segs =>
              IdsIn(dir.segs[mem.nextFile].entries) \subseteq IdsIn(Held(Segs))

\* A compact that ends leaves an empty log, and no tombstone.
Compacted ==
    /\ (pc = "compact" \/ (pc = "seal" /\ mem.len = 0)) => call.compact = "seal"
    /\ call.compact # "no" =>
          /\ call.todo = <<>>
          /\ call.compact = "all" => pc \in {"merge", "mergeman", "merged", "append"}
          /\ pc = "append" => mem.len = 0 /\ Dead(Segs) = {}

\* The entries' ids ascend in each log; those the process mirrors are below
\* the next, and none of the others is.
Rising == \A n \in DOMAIN logs : Ascends(logs[n].frames, Len(logs[n].frames))
Counting ==
    pc # "closed" =>
        /\ \A k \in mem.len + 1 .. Len(logs[mem.active].frames) :
              logs[mem.active].frames[k].kind = "entry" =>
                  mem.nextId <= logs[mem.active].frames[k].id
        /\ Fits(call.todo, mem.nextId)
        /\ pc = "sync" => logs[mem.active].frames[mem.len + 1] = Head(call.todo)

\* Whichever directory comes back, no id that was given is given again.
Reached(d, id) ==
    \/ id < d.man.nextId
    \/ \E e \in Held(SegsOf(d)) : id <= e.id
    \/ \E j \in 1 .. Sure(d.man.active) :
          FramesOf(d)[j].kind = "entry" /\ id <= FramesOf(d)[j].id
GivenReached == \A d \in past, id \in given : Reached(d, id)
GivenBelow == pc # "closed" => (\A id \in given : id < mem.nextId)

EInv ==
    Made => /\ Leftover /\ Compacted /\ Rising /\ HeldBelow /\ Counting
            /\ ~unsure => GivenReached /\ GivenBelow

LEMMA NoneHeld ==
    ASSUME Plain, Made, pc # "closed", mem.len = 0
    PROVE  Held(Mine) = Held(Segs) /\ Dead(Mine) = Dead(Segs) /\ Log = PartOf(<<>>)
<1>1. logs[mem.active].frames \in Seq(Rec) /\ 0 \in 0 .. Len(logs[mem.active].frames)
  BY ActiveLog DEF Made
<1>2. Len(First(logs[mem.active].frames, 0)) = 0 /\ First(logs[mem.active].frames, 0) \in Seq(Rec)
  BY <1>1, FirstOf
<1>3. First(logs[mem.active].frames, 0) = <<>>
  BY <1>2, EmptySeq
<1>4. Log = PartOf(<<>>)
  BY <1>3 DEF Log
<1>5. Log.entries = {} /\ Log.tombs = {}
  BY <1>4, EmptyPart
<1>6. Held(Mine) = Held(Segs) \cup Log.entries /\ Dead(Mine) = Dead(Segs) \cup Log.tombs
  BY PartsMore DEF Mine
<1> QED
  BY <1>4, <1>5, <1>6

LEMMA Erased ==
    ASSUME Plain, Made, Leftover, Compacted, Counting, GivenBelow, given \subseteq Ids,
           pc = "append", call.compact # "no"
    PROVE  (given \ DOMAIN Mirror) \cap OnDisk = {}
<1>1. mem.len = 0 /\ Dead(Segs) = {}
  BY DEF Compacted
<1>2. DOMAIN Mirror = IdsIn(Held(Segs))
  <2>1. Held(Mine) = Held(Segs) /\ Dead(Mine) = {}
    BY <1>1, NoneHeld
  <2> QED
    BY <2>1 DEF Mirror, Answers
<1> SUFFICES ASSUME NEW id \in given, id \in OnDisk PROVE id \in IdsIn(Held(Segs))
  BY <1>2
<1>3. ASSUME NEW n \in DOMAIN dir.segs, id \in IdsIn(dir.segs[n].entries)
      PROVE  id \in IdsIn(Held(Segs))
  <2>1. CASE n \in Range(mem.segments)
    <3>1. dir.segs[n] \in Segs
      BY <2>1 DEF Segs
    <3> QED
      BY <1>3, <3>1 DEF Held, IdsIn
  <2>2. CASE n = mem.nextFile
    BY <1>1, <1>3, <2>2 DEF Leftover
  <2> QED
    BY <1>3, <2>1, <2>2 DEF Leftover
<1>4. ASSUME NEW n \in dir.logs, id \in IdsIn(OfKind(Range(logs[n].frames), {"entry"}))
      PROVE  FALSE
  <2>1. n = mem.active
    BY <1>1, <1>4 DEF Leftover
  <2> DEFINE f == logs[mem.active].frames
  <2>2. f \in Seq(Rec)
    BY ActiveLog DEF Made
  <2>3. PICK r \in Range(f) : r.kind = "entry" /\ r.id = id
    BY <1>4, <2>1 DEF OfKind, IdsIn
  <2>4. PICK k \in 1 .. Len(f) : f[k] = r
    BY <2>2, <2>3, LenProperties DEF Range
  <2>5. mem.nextId <= id
    BY <1>1, <2>3, <2>4 DEF Counting
  <2>6. id < mem.nextId
    BY DEF GivenBelow
  <2>7. id \in Nat /\ mem.nextId \in Nat
    BY MemParts DEF Made, Ids
  <2> HIDE DEF f
  <2> QED
    BY <2>5, <2>6, <2>7
<1>5. \/ \E n \in DOMAIN dir.segs : id \in IdsIn(dir.segs[n].entries)
      \/ \E n \in dir.logs : id \in IdsIn(OfKind(Range(logs[n].frames), {"entry"}))
  BY DEF OnDisk
<1> QED
  BY <1>3, <1>4, <1>5

\* A step that adds no file and empties no log.
LEMMA LeftoverStill ==
    ASSUME Plain, Made, Leftover, pc # "closed",
           mem'.active = mem.active, mem'.segments = mem.segments, mem'.nextFile = mem.nextFile,
           mem.len # 0 => mem'.len # 0,
           dir'.segs = dir.segs, dir'.logs = dir.logs,
           \A x \in DOMAIN logs : x # mem.active =>
               x \in DOMAIN logs' /\ logs'[x].frames = logs[x].frames,
           pc' \in {"newlog", "manifest", "sealed"} => mem'.len # 0
    PROVE  Leftover'
<1>1. Segs' = Segs
  BY DEF Segs
<1>2. mem.active # mem.nextFile + 1
  BY MemParts DEF Made
<1>3. IdsIn(Held(Segs))' = IdsIn(Held(Segs))
  BY <1>1 DEF Held, IdsIn
<1> QED
  BY <1>2, <1>3 DEF Leftover

LEMMA OpenLeftover == ASSUME Plain, Made, Open PROVE Leftover'
<1> PICK man : man = dir.man
  OBVIOUS
<1> PICK segs : segs = Restrict(dir.segs, Range(man.segments))
  OBVIOUS
<1> DEFINE d == [dir EXCEPT !.logs = {man.active}, !.segs = segs]
<1>1. dir \in DirType /\ Openable(dir) /\ Numbered(man)
  BY DEF Plain, Made, Past
<1>2. /\ dir' = d /\ pc' = "idle"
      /\ mem'.active = man.active /\ mem'.segments = man.segments /\ mem'.nextFile = man.nextFile
  BY DEF Open, Change
<1>3. d.logs = {man.active} /\ d.segs = segs
  BY <1>1 DEF DirType
<1>4. DOMAIN segs = Range(man.segments)
  BY <1>1, RestrictedSegs, DirSet DEF Openable
<1>5. /\ man.nextFile \in Nat /\ man.active \in Nat
      /\ man.active < man.nextFile /\ \A i \in Range(man.segments) : i < man.nextFile
  BY <1>1 DEF Numbered, DirType, ManType
<1>6. man.nextFile + 1 # man.active /\ man.nextFile \notin Range(man.segments)
  BY <1>5
<1> HIDE DEF d
<1> QED
  BY <1>2, <1>3, <1>4, <1>6 DEF Leftover

LEMMA SyncSealLeftover == ASSUME Plain, Made, Leftover, SyncSeal PROVE Leftover'
<1> PICK n, a, s : n = mem.nextFile /\ a = mem.active /\ s = mem.segments
  OBVIOUS
<1> DEFINE d == [dir EXCEPT !.logs = @ \ {a}]
<1>1. /\ pc = "sealed" /\ pc' = "tiers" /\ dir' = d
      /\ mem'.active = n + 1 /\ mem'.segments = Append(s, n) /\ mem'.nextFile = n + 2
  BY DEF SyncSeal, SyncedThen
<1>2. d.logs = dir.logs \ {a} /\ d.segs = dir.segs
  BY DEF Plain, DirType
<1>3. n \in Nat /\ s \in Seq(Nat) /\ \A i \in Range(s) : i \in Nat /\ i < n
  BY <1>1, MemParts, OfRange DEF Made, Numbered
<1>4. Range(Append(s, n)) = Range(s) \cup {n}
  BY <1>3, OfAppend
<1>5. DOMAIN dir.segs \subseteq Range(s) \cup {n} /\ dir.logs \subseteq {a, n + 1}
  BY <1>1 DEF Leftover
<1>6. n + 2 \notin DOMAIN dir.segs /\ (n + 2) + 1 # n + 1
  BY <1>3, <1>5
<1> HIDE DEF d
<1> QED
  BY <1>1, <1>2, <1>4, <1>5, <1>6 DEF Leftover

LEMMA SyncMergeLeftover == ASSUME Plain, Made, Sized, Leftover, SyncMerge PROVE Leftover'
<1> PICK n, a, s, taken, r :
       n = mem.nextFile /\ a = mem.active /\ s = mem.segments /\ taken = Taken /\ r = AfterMerge
  OBVIOUS
<1> PICK segs : segs = Restrict(dir.segs, DOMAIN dir.segs \ taken)
  OBVIOUS
<1> DEFINE d == [dir EXCEPT !.segs = segs]
<1>1. /\ pc = "merged" /\ pc' \in {"append", "tiers"} /\ dir' = d
      /\ mem' = [mem EXCEPT !.nextFile = @ + 1, !.segments = r]
  BY DEF SyncMerge, SyncedThen
<1>2. d.logs = dir.logs /\ d.segs = segs /\ dir.segs \in SegFuns
  BY DEF Plain, DirType
<1>3. n \in Nat /\ s \in Seq(Nat) /\ a \in Nat /\ a < n /\ \A i \in Range(s) : i \in Nat /\ i < n
  BY <1>1, MemParts, OfRange DEF Made, Numbered
<1>4. mem'.active = a /\ mem'.segments = r /\ mem'.nextFile = n + 1
  BY <1>1, MemParts DEF Made, MemType
<1>5. Range(r) = (Range(s) \ taken) \cup {n}
  <2>1. s # <<>> /\ mem \in MemType /\ Numbered(mem)
    BY <1>1, MemParts DEF Made, Stage
  <2> QED
    BY <2>1, TakenOf
<1>6. DOMAIN segs = DOMAIN dir.segs \ taken
  BY <1>2, RestrictedSegs
<1>7. DOMAIN dir.segs \subseteq Range(s) \cup {n} /\ dir.logs \subseteq {a}
  BY <1>1 DEF Leftover, Sized
<1>8. n + 1 \notin DOMAIN segs /\ (n + 1) + 1 # a
  BY <1>3, <1>6, <1>7
<1>9. DOMAIN segs \subseteq Range(r) \cup {n + 1}
  BY <1>5, <1>6, <1>7
<1> HIDE DEF d
<1> QED
  BY <1>1, <1>2, <1>4, <1>7, <1>8, <1>9 DEF Leftover

\* The file of a seal, or of a merge.
LEMMA SegmentLeftover ==
    ASSUME Plain, Made, Sized, Leftover, (Seal /\ mem.len # 0) \/ Merge
    PROVE  Leftover'
<1> PICK n, seg : n = mem.nextFile /\ seg = IF pc = "merge" THEN Merged ELSE Sealed
  OBVIOUS
<1> PICK segs : segs = With(dir.segs, n, seg)
  OBVIOUS
<1> DEFINE d == [dir EXCEPT !.segs = segs]
<1>1. /\ pc # "closed" /\ mem' = mem /\ logs' = logs /\ Change(d)
      /\ \/ pc = "seal" /\ pc' = "newlog" /\ mem.len # 0
         \/ pc = "merge" /\ pc' = "mergeman"
  BY DEF Seal, Merge
<1>2. d.logs = dir.logs /\ d.segs = segs /\ dir' = d
  BY <1>1 DEF Plain, DirType, Change
<1>3. DOMAIN segs = DOMAIN dir.segs \cup {n} /\ segs[n] = seg
  BY DEF With
<1>4. n \notin Range(mem.segments)
  BY <1>1, MemParts DEF Made
<1>5. Segs' = Segs
  <2>1. \A i \in Range(mem.segments) : segs[i] = dir.segs[i]
    BY <1>1, <1>4 DEF With, Made, Process
  <2> HIDE DEF d
  <2> QED
    BY <1>1, <1>2, <2>1 DEF Segs
<1>6. pc = "merge" => IdsIn(seg.entries) \subseteq IdsIn(Held(Segs))
  <2> SUFFICES ASSUME pc = "merge" PROVE IdsIn(seg.entries) \subseteq IdsIn(Held(Segs))
    OBVIOUS
  <2>1. mem.segments # <<>> /\ mem \in MemType /\ Numbered(mem)
    BY MemParts DEF Made, Stage
  <2>2. Taken \subseteq Range(mem.segments)
    BY <2>1, TakenOf
  <2>3. Merged.entries \subseteq Held({dir.segs[i] : i \in Taken})
    BY DEF Merged, Written
  <2>4. Held({dir.segs[i] : i \in Taken}) \subseteq Held(Segs)
    BY <2>2 DEF Held, Segs
  <2> QED
    BY <2>3, <2>4 DEF IdsIn
<1>7. IdsIn(Held(Segs))' = IdsIn(Held(Segs))
  BY <1>5 DEF Held, IdsIn
<1>8. (mem.nextFile + 1 \in dir.logs => mem.len # 0) /\ (pc = "merge" => mem.len = 0)
  BY <1>1 DEF Leftover, Sized
<1> HIDE DEF d
<1> QED
  BY <1>1, <1>2, <1>3, <1>6, <1>7, <1>8 DEF Leftover

LEMMA NewLogLeftover ==
    ASSUME Plain, Made, Leftover, pc = "newlog", pc' \in {"manifest", "idle"}, mem' = mem,
           logs' = With(logs, mem.nextFile + 1, EmptyLog),
           Change([dir EXCEPT !.logs = @ \cup {mem.nextFile + 1}])
    PROVE  Leftover'
<1> PICK n : n = mem.nextFile + 1
  OBVIOUS
<1> DEFINE d == [dir EXCEPT !.logs = @ \cup {n}]
<1>1. d.logs = dir.logs \cup {n} /\ d.segs = dir.segs /\ dir' = d
  BY DEF Plain, DirType, Change
<1>2. n \in DOMAIN logs' /\ logs'[n].frames = <<>>
  BY EmptyLogType DEF With
<1> HIDE DEF d
<1>3. Segs' = Segs
  BY <1>1 DEF Segs
<1>4. IdsIn(Held(Segs))' = IdsIn(Held(Segs))
  BY <1>3 DEF Held, IdsIn
<1>5. mem.len # 0
  BY DEF Leftover
<1> QED
  BY <1>1, <1>2, <1>4, <1>5 DEF Leftover

LEMMA LeftoverKept ==
    ASSUME Plain, Made, Sized, Leftover, Move, ~Begin
    PROVE  Leftover'
<1> SUFFICES ASSUME pc' # "closed" PROVE Leftover'
  BY DEF Leftover
<1>1. ~Kill /\ ~PowerLoss
  BY DEF Kill, PowerLoss
<1>2. CASE Open
  BY <1>2, OpenLeftover
<1>3. CASE SyncSeal \/ SyncMerge
  BY <1>3, SyncSealLeftover, SyncMergeLeftover
<1>4. CASE (Seal /\ mem.len # 0) \/ Merge
  BY <1>4, SegmentLeftover
<1>5. CASE NewLog
  BY <1>5, NewLogLeftover DEF NewLog
<1>6. ASSUME pc # "closed", mem' = mem, dir'.segs = dir.segs, dir'.logs = dir.logs,
             \/ logs' = logs
             \/ /\ DOMAIN logs' = DOMAIN logs
                /\ \A x \in DOMAIN logs : x # mem.active => logs'[x].frames = logs[x].frames,
             pc' \in {"newlog", "manifest", "sealed"} => pc \in {"newlog", "manifest", "sealed"}
      PROVE  Leftover'
  <2>1. pc \in {"newlog", "manifest", "sealed"} => mem.len # 0
    BY <1>6 DEF Leftover
  <2> QED
    BY <1>6, <2>1, LeftoverStill
<1>7. CASE Call \/ Return \/ LogExists \/ Tiers
  <2>1. /\ pc # "closed" /\ UNCHANGED <<logs, dir, mem>>
        /\ pc' \notin {"newlog", "manifest", "sealed"}
    BY <1>7 DEF Call, Copy, Import, Record, Delete, Replace, Compact, Ask, Return, LogExists,
                Tiers, GiveUp
  <2> QED
    BY <1>6, <2>1
<1>8. CASE Seal /\ mem.len = 0
  BY <1>6, <1>8 DEF Seal
<1>9. CASE Write
  <2>1. pc = "append" /\ call.todo # <<>> /\ mem' = mem /\ dir' = dir /\ pc' = "sync"
    BY <1>9 DEF Write
  <2> DEFINE h == Append(First(logs[mem.active].frames, mem.len), Head(call.todo))
  <2>2. Rewriting(h, mem.len) /\ logs' = LogWith(h, mem.len)
    BY <1>9, <2>1, WriteRewrites DEF Write
  <2> HIDE DEF h
  <2>3. DOMAIN logs' = DOMAIN logs /\ \A x \in DOMAIN logs : x # mem.active => logs'[x] = logs[x]
    BY <2>1, <2>2, LogWithSteady DEF Rewriting
  <2> QED
    BY <1>6, <2>1, <2>3
<1>10. CASE Writeback
  <2>1. mem' = mem /\ dir' = dir /\ pc' = pc
    BY <1>10 DEF Writeback
  <2>2. DOMAIN logs' = DOMAIN logs /\ \A x \in DOMAIN logs : logs'[x].frames = logs[x].frames
    BY <1>10, WritebackLogs
  <2> QED
    BY <1>6, <2>1, <2>2
<1>11. CASE Sync
  <2>1. /\ pc = "sync" /\ dir' = dir /\ pc' \in {"seal", "append"} /\ mem \in MemType
        /\ mem' = [mem EXCEPT !.len = @ + 1,
                              !.nextId = IF Head(call.todo).kind = "entry" THEN @ + 1 ELSE @]
    BY <1>11, MemParts DEF Sync, Applied, Made
  <2>2. /\ mem'.active = mem.active /\ mem'.segments = mem.segments /\ mem'.nextFile = mem.nextFile
        /\ mem'.len = mem.len + 1 /\ mem.len \in Nat
    BY <2>1 DEF MemType
  <2>3. mem'.len # 0
    BY <2>2
  <2>4. DOMAIN logs' = DOMAIN logs /\ \A x \in DOMAIN logs : logs'[x].frames = logs[x].frames
    BY <1>11, SyncLogs
  <2> QED
    BY <2>1, <2>2, <2>3, <2>4, LeftoverStill
<1>12. CASE RenameManifest \/ MergeManifest
  <2>1. PICK m : /\ Change([dir EXCEPT !.man = m]) /\ mem' = mem /\ logs' = logs
                 /\ \/ pc = "manifest" /\ pc' = "sealed"
                    \/ pc = "mergeman" /\ pc' = "merged"
    BY <1>12 DEF RenameManifest, MergeManifest
  <2>2. dir'.segs = dir.segs /\ dir'.logs = dir.logs
    BY <2>1 DEF Plain, DirType, Change
  <2> QED
    BY <1>6, <2>1, <2>2
<1>13. CASE Fails
  <2>1. mem' = mem /\ pc' = "idle" /\ pc # "closed"
    BY <1>13 DEF Fails, GiveUp
  <2>2. CASE UNCHANGED <<logs, dir>>
    BY <1>6, <2>1, <2>2
  <2>3. CASE dir' = dir /\ logs' = LogWith(First(logs[mem.active].frames, mem.len), mem.len)
    <3> DEFINE h == First(logs[mem.active].frames, mem.len)
    <3>1. mem.len \in mem.len .. Len(logs[mem.active].frames)
      BY <2>1, ActiveLog, LenProperties DEF Made
    <3>2. Rewriting(h, mem.len)
      BY <2>1, <3>1, CutRewrites
    <3>3. logs' = LogWith(h, mem.len)
      BY <2>3
    <3> HIDE DEF h
    <3>4. DOMAIN logs' = DOMAIN logs /\ \A x \in DOMAIN logs : x # mem.active => logs'[x] = logs[x]
      BY <2>1, <3>2, <3>3, LogWithSteady DEF Rewriting
    <3> QED
      BY <1>6, <2>1, <2>3, <3>4
  <2>4. CASE /\ pc = "newlog" /\ logs' = With(logs, mem.nextFile + 1, EmptyLog)
             /\ Change([dir EXCEPT !.logs = @ \cup {mem.nextFile + 1}])
    BY <2>1, <2>4, NewLogLeftover
  <2> QED
    BY <1>13, <2>2, <2>3, <2>4 DEF Fails
<1> QED
  BY <1>1, <1>2, <1>3, <1>4, <1>5, <1>7, <1>8, <1>9, <1>10, <1>11, <1>12, <1>13 DEF Move, Work

\* The merge of all leaves one segment, of no tombstone.
LEMMA MergedAll ==
    ASSUME Plain, Made, Sized, SyncMerge, call.compact = "all"
    PROVE  mem'.len = 0 /\ Dead(Segs)' = {}
<1> PICK n, a, s, taken, r :
       n = mem.nextFile /\ a = mem.active /\ s = mem.segments /\ taken = Taken /\ r = AfterMerge
  OBVIOUS
<1> PICK segs : segs = Restrict(dir.segs, DOMAIN dir.segs \ taken)
  OBVIOUS
<1> DEFINE d == [dir EXCEPT !.segs = segs]
<1>1. /\ pc = "merged" /\ dir' = d
      /\ mem' = [mem EXCEPT !.nextFile = @ + 1, !.segments = r]
  BY DEF SyncMerge, SyncedThen
<1>2. d.segs = segs /\ dir.segs \in SegFuns
  BY DEF Plain, DirType
<1>3. s \in Seq(Nat) /\ s # <<>> /\ mem \in MemType /\ Numbered(mem) /\ mem.len = 0
  BY <1>1, MemParts DEF Made, Stage, Sized
<1>4. mem'.segments = r /\ mem'.len = 0
  BY <1>1, <1>3 DEF MemType
<1>5. taken = Range(s)
  <2>1. MergeFrom = 1
    BY DEF MergeFrom
  <2>2. taken = {s[i] : i \in 1 .. Len(s)}
    BY <2>1 DEF Taken
  <2> QED
    BY <1>3, <2>2, LenProperties DEF Range
<1>6. Range(r) = {n} /\ n \notin taken
  BY <1>3, <1>5, TakenOf
<1>7. MergedSegment
  BY <1>1 DEF Made, Stage
<1>8. segs[n] = Merged
  BY <1>2, <1>6, <1>7, RestrictedSegs DEF MergedSegment
<1>9. Merged.tombs = {}
  <2>1. Log.entries = {}
    BY <1>1, <1>3, NoneHeld, EmptyPart
  <2>2. {dir.segs[i] : i \in Range(mem.segments) \ Taken} = {}
    BY <1>5
  <2>3. Outside = {}
    BY <2>1, <2>2 DEF Outside, IdsIn, Held
  <2> QED
    BY <2>3 DEF Merged, Written
<1> HIDE DEF d
<1>10. Segs' = {segs[n]}
  BY <1>1, <1>2, <1>4, <1>6 DEF Segs
<1>11. Dead({segs[n]}) = {}
  BY <1>8, <1>9 DEF Dead
<1>12. Dead(Segs)' = Dead({segs[n]})
  BY <1>10 DEF Dead
<1> QED
  BY <1>4, <1>11, <1>12

LEMMA CompactedKept ==
    ASSUME Plain, Made, Sized, Compacted, Move, ~Begin
    PROVE  Compacted'
<1>1. ASSUME call'.compact = "no", pc' # "compact", pc' = "seal" => mem'.len # 0
      PROVE  Compacted'
  BY <1>1 DEF Compacted
<1>2. NoCall.compact = "no"
  BY DEF NoCall
<1>3. CASE Open
  BY <1>1, <1>2, <1>3 DEF Open, Sized
<1>4. CASE Kill \/ PowerLoss \/ Return \/ LogExists \/ Fails
  BY <1>1, <1>2, <1>4 DEF Kill, PowerLoss, Return, LogExists, Fails, GiveUp
<1>5. CASE Call
  <2>1. CASE Compact
    BY <2>1 DEF Compact, Compacted
  <2>2. ASSUME NEW todo, Ask(todo) PROVE Compacted'
    <3>1. call'.compact = "no" /\ pc' = "append"
      BY <2>2 DEF Ask
    <3> QED
      BY <1>1, <3>1
  <2> QED
    BY <1>5, <2>1, <2>2 DEF Call, Copy, Import, Record, Delete, Replace
<1>6. CASE Write
  BY <1>1, <1>6 DEF Write, Compacted, Plain, CallType
<1>7. CASE Sync
  <2>1. pc = "sync" /\ call.todo # <<>> /\ call \in CallType /\ mem \in MemType
    BY <1>7, MemParts DEF Sync, Made, Stage, Plain
  <2>2. call.compact = "no"
    BY <2>1 DEF Compacted, CallType
  <2>3. call' = [call EXCEPT !.todo = Tail(@)] /\ pc' \in {"seal", "append"}
        /\ mem' = [mem EXCEPT !.len = @ + 1,
                              !.nextId = IF Head(call.todo).kind = "entry" THEN @ + 1 ELSE @]
    BY <1>7 DEF Sync, Applied
  <2>4. call'.compact = "no"
    BY <2>1, <2>2, <2>3 DEF CallType
  <2>5. mem'.len = mem.len + 1 /\ mem.len \in Nat
    BY <2>1, <2>3 DEF MemType
  <2>6. mem'.len # 0
    BY <2>5
  <2> QED
    BY <1>1, <2>3, <2>4, <2>6
<1>8. CASE Writeback
  <2>1. UNCHANGED <<dir, mem, pc, call>>
    BY <1>8 DEF Writeback
  <2>2. Segs' = Segs
    BY <2>1 DEF Segs
  <2>3. Dead(Segs)' = Dead(Segs)
    BY <2>2 DEF Dead
  <2> QED
    BY <2>1, <2>3 DEF Compacted
<1>9. CASE Seal
  BY <1>9 DEF Seal, Compacted
<1>10. CASE NewLog \/ RenameManifest \/ SyncSeal \/ Merge \/ MergeManifest
  BY <1>10 DEF NewLog, RenameManifest, SyncSeal, Merge, MergeManifest, Compacted
<1>11. CASE Tiers
  <2>1. UNCHANGED <<dir, mem>> /\ pc \in {"tiers", "compact"} /\ mem.len = 0
    BY <1>11 DEF Tiers, Sized
  <2>2. Segs' = Segs
    BY <2>1 DEF Segs
  <2>3. Dead(Segs)' = Dead(Segs)
    BY <2>2 DEF Dead
  <2>4. CASE pc = "tiers"
    <3>1. call' = call /\ call.compact # "all"
      BY <1>11, <2>4 DEF Tiers, Compacted
    <3>2. \/ pc' = "merge"
          \/ pc' = "compact" /\ call.compact = "seal"
          \/ pc' = "append" /\ call.compact # "seal"
      BY <1>11, <2>4 DEF Tiers
    <3>3. call.compact \in {"no", "seal", "all"}
      BY DEF Plain, CallType
    <3> QED
      BY <3>1, <3>2, <3>3 DEF Compacted
  <2>5. CASE pc = "compact"
    <3>1. call.compact = "seal" /\ call.todo = <<>> /\ call \in CallType
      BY <2>5 DEF Compacted, Plain
    <3>2. CASE pc' = "merge" /\ call' = [call EXCEPT !.compact = "all"]
      <4>1. call'.compact = "all" /\ call'.todo = <<>>
        BY <3>1, <3>2 DEF CallType
      <4> QED
        BY <3>2, <4>1 DEF Compacted
    <3>3. CASE pc' = "append" /\ call' = call /\ \A seg \in Segs : seg.tombs = {}
      <4>1. Dead(Segs) = {}
        BY <3>3 DEF Dead
      <4> QED
        BY <2>1, <2>3, <3>1, <3>3, <4>1 DEF Compacted
    <3> QED
      BY <1>11, <2>5, <3>2, <3>3 DEF Tiers
  <2> QED
    BY <2>1, <2>4, <2>5
<1>12. CASE SyncMerge
  <2>1. call' = call /\ pc = "merged" /\ pc' = IF call.compact = "all" THEN "append" ELSE "tiers"
    BY <1>12 DEF SyncMerge
  <2>2. CASE call.compact = "all"
    <3>1. mem'.len = 0 /\ Dead(Segs)' = {}
      BY <1>12, <2>2, MergedAll
    <3> QED
      BY <2>1, <2>2, <3>1 DEF Compacted
  <2>3. CASE call.compact # "all"
    BY <2>1, <2>3 DEF Compacted
  <2> QED
    BY <2>2, <2>3
<1> QED
  BY <1>3, <1>4, <1>5, <1>6, <1>7, <1>8, <1>9, <1>10, <1>11, <1>12 DEF Move, Work

\* Logs that lose records, and empty ones.
LEMMA RisingLogs ==
    ASSUME Plain, Rising,
           \A n \in DOMAIN logs' : \/ n \in DOMAIN logs /\ Shorter(n)
                                   \/ logs'[n].frames = <<>>
    PROVE  Rising'
<1> SUFFICES ASSUME NEW n \in DOMAIN logs'
             PROVE  Ascends(logs'[n].frames, Len(logs'[n].frames))
  BY DEF Rising
<1> DEFINE f == logs[n].frames
           g == logs'[n].frames
<1>1. CASE n \in DOMAIN logs /\ Shorter(n)
  <2>1. Len(f) \in Nat /\ Len(g) \in Nat /\ Len(g) <= Len(f) /\ \A i \in 1 .. Len(g) : g[i] = f[i]
    BY <1>1, LogsAre, LenProperties DEF Shorter, LogFacts
  <2>2. Ascends(f, Len(f))
    BY <1>1 DEF Rising
  <2> HIDE DEF f, g
  <2>3. \A i \in 1 .. Len(g) : i \in 1 .. Len(f)
    BY <2>1
  <2> QED
    BY <2>1, <2>2, <2>3 DEF Ascends, f, g
<1>2. CASE g = <<>>
  <2>1. Len(g) = 0
    BY <1>2, EmptySeq
  <2> HIDE DEF g
  <2> QED
    BY <2>1 DEF Ascends, g
<1> QED
  BY <1>1, <1>2

LEMMA RisingSame ==
    ASSUME Plain, Rising, DOMAIN logs' = DOMAIN logs,
           \A n \in DOMAIN logs : logs'[n].frames = logs[n].frames
    PROVE  Rising'
<1>1. \A n \in DOMAIN logs : Shorter(n)
  BY LogsAre, SameShorter DEF LogFacts
<1> QED
  BY <1>1, RisingLogs

LEMMA RisingCut ==
    ASSUME Plain, Made, Sized, Rising, pc # "closed",
           NEW n \in mem.len .. Len(logs[mem.active].frames),
           logs' = LogWith(First(logs[mem.active].frames, n), n)
    PROVE  Rising'
<1> DEFINE f == logs[mem.active].frames
           g == First(f, n)
<1>1. f \in Seq(Rec) /\ n \in 0 .. Len(f)
  <2>1. f \in Seq(Rec) /\ mem.len \in Nat
    BY ActiveLog, MemParts DEF Made
  <2> QED
    BY <2>1, LenProperties
<1>2. Rewriting(g, n) /\ logs' = LogWith(g, n)
  BY CutRewrites
<1> HIDE DEF g
<1>3. /\ DOMAIN logs' = DOMAIN logs /\ logs'[mem.active].frames = g
      /\ \A x \in DOMAIN logs : x # mem.active => logs'[x] = logs[x]
  BY <1>2, LogWithSteady DEF Rewriting
<1>4. Shorter(mem.active)
  BY <1>1, <1>3, FirstShorter DEF g
<1>5. ASSUME NEW x \in DOMAIN logs PROVE Shorter(x)
  <2>1. CASE x = mem.active
    BY <1>4, <2>1
  <2>2. CASE x # mem.active
    BY <1>3, <2>2, LogsAre, SameShorter DEF LogFacts
  <2> QED
    BY <2>1, <2>2
<1> QED
  BY <1>3, <1>5, RisingLogs

LEMMA LogBelow ==
    ASSUME Plain, Made, HeldBelow, pc # "closed"
    PROVE  \A j \in 1 .. mem.len : logs[mem.active].frames[j].kind = "entry" =>
               logs[mem.active].frames[j].id < mem.nextId
<1> DEFINE f == logs[mem.active].frames
           g == First(f, mem.len)
<1> SUFFICES ASSUME NEW j \in 1 .. mem.len, f[j].kind = "entry" PROVE f[j].id < mem.nextId
  OBVIOUS
<1>1. f \in Seq(Rec) /\ mem.len \in 0 .. Len(f)
  BY ActiveLog DEF Made
<1>2. g \in Seq(Rec) /\ Len(g) = mem.len /\ \A i \in 1 .. mem.len : g[i] = f[i]
  BY <1>1, FirstOf
<1>3. f[j] \in Range(g)
  <2> HIDE DEF f, g
  <2> QED
    BY <1>2, LenProperties DEF Range
<1>4. f[j] \in Log.entries
  BY <1>3 DEF Log, PartOf, OfKind
<1>5. f[j] \in Held(Mine)
  BY <1>4 DEF Held, Mine
<1> QED
  BY <1>5 DEF HeldBelow

LEMMA WriteRises ==
    ASSUME Plain, Made, Rising, HeldBelow, Counting, Write
    PROVE  Rising' /\ Counting'
<1> PICK a, n : a = mem.active /\ n = mem.len
  OBVIOUS
<1> DEFINE f == logs[a].frames
           r == Head(call.todo)
           h == Append(First(f, n), r)
<1>1. /\ pc = "append" /\ pc' = "sync" /\ call.todo # <<>> /\ call' = call /\ mem' = mem
      /\ logs' = LogWith(h, n)
  BY DEF Write
<1>2. Rewriting(h, n)
  BY <1>1, WriteRewrites
<1>3. f \in Seq(Rec) /\ n \in 0 .. Len(f) /\ mem.nextId \in Nat
  BY <1>1, ActiveLog, MemParts DEF Made
<1>4. First(f, n) \in Seq(Rec) /\ Len(First(f, n)) = n /\ \A i \in 1 .. n : First(f, n)[i] = f[i]
  BY <1>3, FirstOf
<1>5. r \in Rec /\ (r.kind = "entry" => r.id = mem.nextId)
  <2>1. call.todo \in Seq(Rec) /\ Fits(call.todo, mem.nextId)
    BY <1>1 DEF Plain, CallType, Counting
  <2> QED
    BY <1>1, <2>1, HeadFits
<1>6. Len(h) = n + 1 /\ h[n + 1] = r /\ \A i \in 1 .. n : h[i] = f[i]
  <2> DEFINE p == First(f, n)
  <2>1. p \in Seq(Rec) /\ Len(p) = n /\ \A i \in 1 .. n : p[i] = f[i]
    BY <1>4
  <2>2. h = Append(p, r) /\ r \in Rec
    BY <1>5
  <2>3. n \in Nat
    BY <1>3
  <2> HIDE DEF p, r, f, h
  <2>4. Len(h) = n + 1 /\ h[n + 1] = r /\ \A i \in 1 .. n : h[i] = p[i]
    BY <2>1, <2>2, <2>3, AppendProperties
  <2> QED
    BY <2>1, <2>4
<1> HIDE DEF h
<1>7. /\ DOMAIN logs' = DOMAIN logs /\ logs'[a].frames = h
      /\ \A x \in DOMAIN logs : x # a => logs'[x] = logs[x]
  BY <1>1, <1>2, LogWithSteady DEF Rewriting
<1>8. \A j \in 1 .. n : f[j].kind = "entry" => f[j].id < mem.nextId
  BY <1>1, LogBelow
<1>9. Ascends(f, Len(f))
  BY <1>1 DEF Rising, Made, Process
<1>10. Ascends(h, n + 1)
  <2> SUFFICES ASSUME NEW i \in 1 .. n + 1, NEW j \in 1 .. n + 1, i < j,
                      h[i].kind = "entry", h[j].kind = "entry"
               PROVE  h[i].id < h[j].id
    BY DEF Ascends
  <2>1. i \in 1 .. n /\ i \in 1 .. Len(f) /\ h[i] = f[i]
    <3>1. i \in 1 .. n /\ i \in 1 .. Len(f)
      BY <1>3, LenProperties
    <3> QED
      BY <1>6, <3>1
  <2>2. CASE j = n + 1
    <3>1. f[i].id < mem.nextId
      BY <1>8, <2>1
    <3>2. h[j].id = mem.nextId
      BY <1>5, <1>6, <2>2
    <3> QED
      BY <2>1, <3>1, <3>2
  <2>3. CASE j # n + 1
    <3>1. j \in 1 .. n /\ j \in 1 .. Len(f)
      BY <1>3, <2>3, LenProperties
    <3> HIDE DEF f
    <3> QED
      BY <1>6, <1>9, <2>1, <3>1 DEF Ascends
  <2> QED
    BY <2>2, <2>3
<1>11. Rising'
  <2> HIDE DEF f, r
  <2> SUFFICES ASSUME NEW x \in DOMAIN logs PROVE Ascends(logs'[x].frames, Len(logs'[x].frames))
    BY <1>7 DEF Rising
  <2>1. CASE x = a
    BY <1>6, <1>7, <1>10, <2>1
  <2>2. CASE x # a
    BY <1>7, <2>2 DEF Rising
  <2> QED
    BY <2>1, <2>2
<1>12. Counting'
  <2>1. \A k \in n + 1 .. Len(h) : k = n + 1
    BY <1>3, <1>6
  <2>2. Fits(call.todo, mem.nextId)
    BY <1>1 DEF Counting
  <2>3. \A k \in n + 1 .. Len(h) : h[k].kind = "entry" => mem.nextId <= h[k].id
    BY <1>3, <1>5, <1>6, <2>1
  <2> HIDE DEF f, r
  <2> QED
    BY <1>1, <1>6, <1>7, <2>2, <2>3 DEF Counting, r
<1> QED
  BY <1>11, <1>12

\* What the manifest renamed last names is of what the process has.
ManifestHeld ==
    /\ Held(SegsOf(dir)) \subseteq Held(Mine)
    /\ pc = "sealed" => FramesOf(dir) = <<>>
    /\ pc = "merged" => dir.man.active = mem.active
LEMMA ManifestHolds == Plain /\ Made /\ pc \in {"sealed", "merged"} => ManifestHeld
<1> SUFFICES ASSUME Plain, Made, pc \in {"sealed", "merged"} PROVE ManifestHeld
  OBVIOUS
<1> PICK n, s, r : n = mem.nextFile /\ s = mem.segments /\ r = AfterMerge
  OBVIOUS
<1>1. n \in Nat /\ s \in Seq(Nat) /\ mem \in MemType /\ Numbered(mem)
  BY MemParts DEF Made
<1>2. Segs \subseteq Mine /\ Log \in Mine
  BY DEF Mine
<1>3. CASE pc = "sealed"
  <2>1. /\ dir.man.segments = Append(s, n) /\ dir.man.active = n + 1
        /\ dir.segs[n] = Sealed /\ logs[n + 1] = EmptyLog
    BY <1>3 DEF Made, Stage, NewSegment, MadeLog, Manifest
  <2>2. Range(Append(s, n)) = Range(s) \cup {n}
    BY <1>1, OfAppend
  <2>3. \A p \in SegsOf(dir) : p \in Segs \/ p = Sealed
    BY <2>1, <2>2 DEF SegsOf, Segs
  <2>4. Sealed.entries \subseteq Log.entries
    BY DEF Sealed, Written, Held
  <2>5. Held(SegsOf(dir)) \subseteq Held(Mine)
    BY <1>2, <2>3, <2>4 DEF Held
  <2>6. FramesOf(dir) = <<>>
    BY <2>1, EmptyLogType DEF FramesOf
  <2> QED
    BY <1>3, <2>5, <2>6 DEF ManifestHeld
<1>4. CASE pc = "merged"
  <2>1. /\ dir.man.segments = r /\ dir.man.active = mem.active
        /\ dir.segs[n] = Merged /\ s # <<>>
    BY <1>4 DEF Made, Stage, MergedSegment, Manifest
  <2>2. Range(r) = (Range(s) \ Taken) \cup {n} /\ Taken \subseteq Range(s)
    BY <1>1, <2>1, TakenOf
  <2>3. \A p \in SegsOf(dir) : p \in Segs \/ p = Merged
    BY <2>1, <2>2 DEF SegsOf, Segs
  <2>4. Merged.entries \subseteq Held({dir.segs[i] : i \in Taken})
    BY DEF Merged, Written
  <2>5. Held({dir.segs[i] : i \in Taken}) \subseteq Held(Segs)
    BY <2>2 DEF Held, Segs
  <2>6. Held(SegsOf(dir)) \subseteq Held(Mine)
    BY <1>2, <2>3, <2>4, <2>5 DEF Held
  <2> QED
    BY <1>4, <2>1, <2>6 DEF ManifestHeld
<1> QED
  BY <1>3, <1>4

\* What the process has stays.
LEMMA StandsCounts ==
    ASSUME HeldBelow, Counting, Stands, pc # "closed",
           logs'[mem.active].frames = logs[mem.active].frames, Fits(call'.todo, mem.nextId),
           pc' = "sync" => pc = "sync" /\ call' = call
    PROVE  HeldBelow' /\ Counting'
<1>1. Segs' = Segs /\ mem' = mem
  BY DEF Stands, Segs
<1>2. Log' = Log
  BY <1>1 DEF Stands, Log
<1>3. Held(Mine)' = Held(Mine)
  BY <1>1, <1>2 DEF Mine, Held
<1> QED
  BY <1>1, <1>3 DEF HeldBelow, Counting

LEMMA StandsBelow == ASSUME HeldBelow, Stands, pc # "closed" PROVE HeldBelow'
<1>1. Segs' = Segs /\ mem' = mem
  BY DEF Stands, Segs
<1>2. Log' = Log
  BY <1>1 DEF Stands, Log
<1>3. Held(Mine)' = Held(Mine)
  BY <1>1, <1>2 DEF Mine, Held
<1> QED
  BY <1>1, <1>3 DEF HeldBelow

LEMMA SyncCounts ==
    ASSUME Plain, Made, HeldBelow, Counting, Sync
    PROVE  HeldBelow' /\ Counting'
<1> PICK a, n, r : a = mem.active /\ n = mem.len /\ r = Head(call.todo)
  OBVIOUS
<1> PICK next : next = IF r.kind = "entry" THEN mem.nextId + 1 ELSE mem.nextId
  OBVIOUS
<1> DEFINE f == logs[a].frames
<1>1. /\ pc = "sync" /\ pc' \in {"seal", "append"} /\ dir' = dir
      /\ call' = [call EXCEPT !.todo = Tail(@)] /\ call \in CallType
      /\ mem' = [mem EXCEPT !.len = @ + 1,
                            !.nextId = IF Head(call.todo).kind = "entry" THEN @ + 1 ELSE @]
  BY DEF Sync, Applied, Plain
<1>2. /\ mem \in MemType /\ call.todo # <<>> /\ call.todo \in Seq(Rec) /\ Len(f) = n + 1
      /\ n \in Nat /\ mem.nextId \in Nat /\ f \in Seq(Rec) /\ a \in DOMAIN logs
  BY <1>1, ActiveLog, MemParts DEF Made, Stage, CallType, Process
<1>3. /\ mem'.active = a /\ mem'.segments = mem.segments /\ mem'.len = n + 1 /\ mem'.nextId = next
      /\ call'.todo = Tail(call.todo)
  BY <1>1, <1>2 DEF MemType, CallType
<1>4. logs'[a].frames = f
  BY <1>2, SyncLogs
<1>5. /\ f[n + 1] = r /\ Fits(call.todo, mem.nextId)
      /\ r = call.todo[1] /\ (r.kind = "entry" => r.id = mem.nextId)
  BY <1>1, <1>2, HeadFits DEF Counting
<1>6. Fits(Tail(call.todo), next)
  BY <1>2, <1>5, TailFits
<1>7. Counting'
  <2>1. \A k \in (n + 1) + 1 .. Len(f) : FALSE
    BY <1>2
  <2> HIDE DEF f
  <2>2. \A k \in mem'.len + 1 .. Len(logs'[mem'.active].frames) : FALSE
    BY <1>3, <1>4, <2>1
  <2> QED
    BY <1>1, <1>3, <1>6, <2>2 DEF Counting
<1>8. Segs' = Segs /\ Log' = PartOf(First(f, n + 1)) /\ Log = PartOf(First(f, n))
  BY <1>1, <1>3, <1>4 DEF Segs, Log
<1>9. \A e \in Log'.entries : e \in Log.entries \/ (e = r /\ r.kind = "entry")
  <2>1. LET p == PartOf(First(f, n))
            q == PartOf(First(f, n + 1))
        IN  /\ f[n + 1] \in Rec
            /\ f[n + 1].kind = "entry" => EntryMade(p, q, f[n + 1])
            /\ f[n + 1].kind \in {"copied", "pasted"} => EventMade(p, q, f[n + 1])
            /\ f[n + 1].kind = "delete" => TombMade(p, q, f[n + 1].id)
    BY <1>2, PartMore
  <2>2. f[n + 1].kind \in {"entry", "copied", "pasted", "delete"}
    BY <2>1, RecIds
  <2> HIDE DEF f
  <2> QED
    BY <1>5, <1>8, <2>1, <2>2 DEF EntryMade, EventMade, TombMade
<1>10. HeldBelow'
  <2>1. \A e \in Held(Mine) : e.id \in Nat /\ e.id < mem.nextId
    <3>1. Mine \subseteq PartType
      BY <1>1, MineType DEF Made
    <3>2. \A e \in Held(Mine) : e.id \in Ids
      BY <3>1 DEF Held, PartType, EntryRec
    <3> QED
      BY <1>1, <3>2 DEF HeldBelow, Ids
  <2>2. \A e \in Held(Mine)' : e \in Held(Mine) \/ (e = r /\ r.kind = "entry")
    <3>1. Mine' = Segs \cup {Log'}
      BY <1>8 DEF Mine
    <3>2. Held(Mine)' = Held(Segs \cup {Log'})
      BY <3>1 DEF Held
    <3>3. Held(Segs \cup {Log'}) = Held(Segs) \cup Log'.entries
      BY PartsMore
    <3>4. Held(Mine) = Held(Segs) \cup Log.entries
      BY PartsMore DEF Mine
    <3> QED
      BY <1>9, <3>2, <3>3, <3>4
  <2>3. \A e \in Held(Mine)' : e.id < next
    BY <1>2, <1>5, <2>1, <2>2
  <2> QED
    BY <1>3, <2>3 DEF HeldBelow
<1> QED
  BY <1>7, <1>10

\* The directory's sync behind a seal or a merge.
LEMMA SyncedCounts ==
    ASSUME Plain, Made, Sized, HeldBelow, Counting, SyncSeal \/ SyncMerge
    PROVE  HeldBelow' /\ Counting'
<1>1. /\ pc \in {"sealed", "merged"} /\ pc' \in {"tiers", "append"} /\ logs' = logs /\ call' = call
      /\ mem'.active = dir.man.active /\ Segs' = SegsOf(dir)
  BY SyncedPlainly DEF SyncSeal, SyncMerge
<1>2. ManifestHeld
  BY <1>1, ManifestHolds
<1>3. mem'.len = 0 /\ mem'.nextId = mem.nextId /\ mem.nextId \in Nat
  <2>1. mem \in MemType /\ mem.nextId \in Nat
    BY <1>1, MemParts DEF Made
  <2>2. CASE SyncSeal
    BY <2>1, <2>2 DEF SyncSeal
  <2>3. CASE SyncMerge
    <3>1. PICK r : mem' = [mem EXCEPT !.nextFile = @ + 1, !.segments = r]
      BY <2>3 DEF SyncMerge
    <3>2. mem.len = 0
      BY <2>3 DEF SyncMerge, Sized
    <3> QED
      BY <2>1, <3>1, <3>2 DEF MemType
  <2> QED
    BY <2>1, <2>2, <2>3
<1>4. FramesOf(dir) \in Seq(Rec) /\ 0 \in 0 .. Len(FramesOf(dir))
  BY LogsAre, LenProperties DEF Made, Past, Plain, FramesOf, LogFacts
<1>5. Len(First(FramesOf(dir), 0)) = 0 /\ First(FramesOf(dir), 0) \in Seq(Rec)
  BY <1>4, FirstOf
<1>6. First(FramesOf(dir), 0) = <<>>
  BY <1>5, EmptySeq
<1>7. Log' = PartOf(<<>>)
  BY <1>1, <1>3, <1>6 DEF Log, FramesOf
<1>8. Log'.entries = {}
  BY <1>7, EmptyPart
<1>9. Held(Mine)' = Held(SegsOf(dir))
  <2>1. Mine' = SegsOf(dir) \cup {Log'}
    BY <1>1 DEF Mine
  <2>2. Held(Mine)' = Held(SegsOf(dir) \cup {Log'})
    BY <2>1 DEF Held
  <2>3. Held(SegsOf(dir) \cup {Log'}) = Held(SegsOf(dir)) \cup Log'.entries
    BY PartsMore
  <2> QED
    BY <1>8, <2>2, <2>3
<1>10. HeldBelow'
  BY <1>1, <1>2, <1>3, <1>9 DEF HeldBelow, ManifestHeld
<1>11. \A k \in 1 .. Len(FramesOf(dir)) : FramesOf(dir)[k].kind = "entry" =>
           mem.nextId <= FramesOf(dir)[k].id
  <2>1. CASE pc = "sealed"
    <3>1. Len(FramesOf(dir)) = 0
      BY <1>2, <2>1, EmptySeq DEF ManifestHeld
    <3> QED
      BY <3>1
  <2>2. CASE pc = "merged"
    BY <1>2, <2>2 DEF ManifestHeld, Counting, FramesOf, Sized
  <2> QED
    BY <1>1, <2>1, <2>2
<1>12. Counting'
  <2>1. Fits(call.todo, mem.nextId)
    BY <1>1 DEF Counting
  <2>2. logs'[mem'.active].frames = FramesOf(dir) /\ mem'.len + 1 = 1
    BY <1>1, <1>3 DEF FramesOf
  <2> QED
    BY <1>1, <1>3, <1>11, <2>1, <2>2 DEF Counting
<1> QED
  BY <1>10, <1>12

\* The next id of an open is above the manifest's and every entry's.
LEMMA NextIdAbove ==
    ASSUME NEW d \in DirType, NEW f \in Seq(Rec), Openable(d)
    PROVE  /\ NextId(d, f) \in Nat /\ d.man.nextId \in Nat /\ d.man.nextId <= NextId(d, f)
           /\ \A j \in 1 .. Len(f) : f[j].kind = "entry" => f[j].id \in Nat /\ f[j].id < NextId(d, f)
           /\ \A e \in Held(SegsOf(d)) : e.id \in Nat /\ e.id < NextId(d, f)
<1> DEFINE F == {x.id + 1 : x \in OfKind(Range(f), {"entry"})}
           H == Held(SegsOf(d))
           E == {e.id + 1 : e \in H}
           base == d.man.nextId
           S == {1, base} \cup F \cup E
           b == base + MaxId + 1
           n == Len(f)
<1>1. MaxId \in Nat /\ base \in Nat /\ d.segs \in SegFuns
  BY StoreAssumption DEF DirType, ManType
<1>2. /\ n \in Nat /\ Range(f) = {f[j] : j \in 1 .. n} /\ Range(f) \subseteq Rec
      /\ \A j \in 1 .. n : f[j].id \in Nat
  <2>1. n \in Nat /\ DOMAIN f = 1 .. n /\ Range(f) \subseteq Rec
    BY LenProperties, OfRange
  <2>2. Range(f) = {f[j] : j \in 1 .. n}
    BY <2>1 DEF Range
  <2>3. \A j \in 1 .. n : f[j] \in Rec
    BY ElementOfSeq
  <2> QED
    BY <2>1, <2>2, <2>3, RecIds
<1>3. F \subseteq Nat /\ \A x \in F : x <= b
  <2>1. \A r \in OfKind(Range(f), {"entry"}) : r.id \in Ids
    BY <1>2, RecIds DEF OfKind
  <2>2. \A k \in Ids : k + 1 \in Nat /\ k + 1 <= b
    BY <1>1 DEF Ids
  <2> QED
    BY <2>1, <2>2
<1>4. E \subseteq Nat /\ (\A x \in E : x <= b) /\ \A e \in H : e.id \in Nat
  <2>1. \A i \in Range(d.man.segments) : d.segs[i] \in PartType
    BY <1>1, SegOf DEF Openable
  <2>2. \A e \in H : e.id \in Ids
    BY <2>1 DEF Held, SegsOf, PartType, EntryRec
  <2>3. \A k \in Ids : k \in Nat /\ k + 1 \in Nat /\ k + 1 <= b
    BY <1>1 DEF Ids
  <2> HIDE DEF H, b, base
  <2> QED
    BY <2>2, <2>3
<1>5. b \in Nat /\ 1 <= b /\ base <= b
  BY <1>1
<1>6. NextId(d, f) = Max(S)
  BY DEF NextId, SegsOf
<1>7. \A j \in 1 .. n : f[j].kind = "entry" => f[j].id + 1 \in F
  BY <1>2 DEF OfKind
<1>8. \A e \in H : e.id + 1 \in E
  OBVIOUS
<1> HIDE DEF F, E, b, base, H
<1>9. /\ S \subseteq Nat /\ S # {} /\ base \in S /\ F \subseteq S /\ E \subseteq S
      /\ \A x \in S : x <= b
  <2>1. {1, base} \subseteq Nat /\ \A x \in {1, base} : x <= b
    BY <1>1, <1>5
  <2> QED
    BY ONLY <1>3, <1>4, <2>1
<1> HIDE DEF S
<1> PICK m : m = Max(S)
  OBVIOUS
<1>10. m \in S /\ \A x \in S : x <= m
  BY <1>5, <1>9, MaxIn
<1>11. m \in Nat /\ base <= m
  BY <1>9, <1>10
<1>12. \A j \in 1 .. n : f[j].kind = "entry" => f[j].id \in Nat /\ f[j].id < m
  <2>1. \A j \in 1 .. n : f[j].kind = "entry" => f[j].id + 1 <= m
    BY <1>7, <1>9, <1>10
  <2> QED
    BY <1>2, <1>11, <2>1
<1>13. \A e \in H : e.id \in Nat /\ e.id < m
  <2>1. \A e \in H : e.id + 1 <= m
    BY <1>8, <1>9, <1>10
  <2> QED
    BY <1>4, <1>11, <2>1
<1> QED
  BY <1>1, <1>6, <1>11, <1>12, <1>13 DEF base, H

\* What is sure of a log stays, and stays sure.
Stay(n) ==
    /\ Sure(n) <= Sure(n)'
    /\ \A j \in 1 .. Sure(n) : logs'[n].frames[j] = logs[n].frames[j]

OpenTakes ==
    LET f == FramesOf(dir)
    IN  /\ f \in Seq(Rec) /\ dir \in DirType /\ Openable(dir)
        /\ DOMAIN logs' = DOMAIN logs /\ \A x \in DOMAIN logs : logs'[x].frames = logs[x].frames
        /\ \A x \in DOMAIN logs : Stay(x)
        /\ mem'.active = dir.man.active /\ mem'.len = Len(f) /\ mem'.nextId = NextId(dir, f)
        /\ pc' = "idle" /\ call' = NoCall

LEMMA OpenTakesAll == ASSUME Plain, Made, Sized, Rising, Open PROVE OpenTakes
<1> PICK a : a = dir.man.active
  OBVIOUS
<1> DEFINE man == dir.man
           log == logs[a]
           f == log.frames
           n == Len(f)
           v == [frames |-> f, safe |-> Min({log.safe, n}), accepted |-> n]
<1>1. dir \in past /\ dir \in DirType /\ Openable(dir) /\ a \in DOMAIN logs
  BY DirSet DEF Plain, Made, Past
<1>2. /\ f \in Seq(Rec) /\ n \in Nat /\ log.safe \in Nat /\ log.safe <= n
      /\ log.accepted \in Nat /\ log.accepted <= n
      /\ Sure(a) = IF log.safe <= log.accepted THEN log.safe ELSE log.accepted
  BY <1>1, LogsAre DEF LogFacts
<1>3. Good(f) = f
  <2>1. Ascends(f, Len(f))
    BY <1>1 DEF Rising
  <2> HIDE DEF f
  <2> QED
    BY <1>2, <2>1, GoodAscends
<1>4. /\ pc = "closed" /\ pc' = "idle" /\ call' = call
      /\ logs' = [logs EXCEPT ![a] = v]
      /\ mem' = [active |-> a, len |-> n, segments |-> man.segments,
                 nextFile |-> man.nextFile, nextId |-> NextId(dir, f)]
  BY <1>3 DEF Open
<1>5. v.frames = f /\ v.accepted = n /\ v.safe = Min({log.safe, n})
  OBVIOUS
<1> HIDE DEF v
<1>6. /\ DOMAIN logs' = DOMAIN logs /\ \A x \in DOMAIN logs : x # a => logs'[x] = logs[x]
      /\ logs'[a] = v
  BY <1>1, <1>4
<1>7. Stay(a)
  <2>1. Min({log.safe, n}) = log.safe
    BY <1>2, MinOfTwo
  <2>2. Sure(a)' = log.safe
    BY <1>5, <1>6, <2>1 DEF Sure
  <2> QED
    BY <1>2, <1>5, <1>6, <2>2 DEF Stay
<1>8. ASSUME NEW x \in DOMAIN logs PROVE Stay(x) /\ logs'[x].frames = logs[x].frames
  <2>1. CASE x = a
    BY <1>5, <1>6, <1>7, <2>1
  <2>2. CASE x # a
    <3>1. logs'[x] = logs[x]
      BY <1>6, <2>2
    <3>2. Sure(x)' = Sure(x) /\ Sure(x) \in Nat
      BY <3>1, LogsAre DEF Sure, LogFacts
    <3> QED
      BY <3>1, <3>2 DEF Stay
  <2> QED
    BY <2>1, <2>2
<1>9. /\ mem'.active = a /\ mem'.len = n /\ mem'.nextId = NextId(dir, f)
  <2> DEFINE k == NextId(dir, f)
  <2> HIDE DEF f, n, k
  <2> QED
    BY <1>4
<1>10. call' = NoCall
  BY <1>4 DEF Sized
<1> QED
  BY <1>1, <1>2, <1>4, <1>6, <1>8, <1>9, <1>10 DEF OpenTakes, FramesOf

LEMMA OpenCounts ==
    ASSUME Plain, Made, Sized, Rising, Open
    PROVE  Rising' /\ HeldBelow' /\ Counting'
<1> PICK f : f = FramesOf(dir)
  OBVIOUS
<1> PICK next : next = NextId(dir, f)
  OBVIOUS
<1>1. OpenTakes
  BY OpenTakesAll
<1>2. Rising'
  BY <1>1, RisingSame DEF OpenTakes
<1>3. f \in Seq(Rec) /\ Len(f) \in Nat
  BY <1>1, LenProperties DEF OpenTakes
<1>4. /\ \A j \in 1 .. Len(f) : f[j].kind = "entry" => f[j].id < next
      /\ \A e \in Held(SegsOf(dir)) : e.id < next
  BY <1>1, <1>3, NextIdAbove DEF OpenTakes
<1>5. Segs' = SegsOf(dir)
  BY OpenFiles
<1>6. /\ logs'[mem'.active].frames = f /\ mem'.len = Len(f) /\ mem'.nextId = next
      /\ pc' = "idle" /\ call' = NoCall
  <2>1. dir.man.active \in DOMAIN logs
    BY DEF Plain, Made, Past
  <2> QED
    BY <1>1, <2>1 DEF OpenTakes, FramesOf
<1>7. First(f, Len(f)) = f
  <2>1. Len(f) \in 0 .. Len(f)
    BY <1>3
  <2>2. First(f, Len(f)) \in Seq(Rec) /\ Len(First(f, Len(f))) = Len(f)
        /\ \A i \in 1 .. Len(f) : First(f, Len(f))[i] = f[i]
    BY <1>3, <2>1, FirstOf
  <2> QED
    BY <1>3, <2>2, SeqEqual
<1>8. Log' = PartOf(f)
  BY <1>6, <1>7 DEF Log
<1>9. \A e \in Log'.entries : e.id < next
  <2>1. \A e \in Log'.entries : e \in Range(f) /\ e.kind = "entry"
    BY <1>8 DEF PartOf, OfKind
  <2>2. \A e \in Range(f) : \E j \in 1 .. Len(f) : e = f[j]
    BY <1>3, LenProperties DEF Range
  <2> QED
    BY <1>4, <2>1, <2>2
<1>10. Held(Mine)' = Held(SegsOf(dir)) \cup Log'.entries
  <2>1. Mine' = SegsOf(dir) \cup {Log'}
    BY <1>5 DEF Mine
  <2>2. Held(Mine)' = Held(SegsOf(dir) \cup {Log'})
    BY <2>1 DEF Held
  <2>3. Held(SegsOf(dir) \cup {Log'}) = Held(SegsOf(dir)) \cup Log'.entries
    BY PartsMore
  <2> QED
    BY <2>2, <2>3
<1>11. HeldBelow'
  BY <1>4, <1>6, <1>9, <1>10 DEF HeldBelow
<1>12. Counting'
  <2>1. \A k \in Len(f) + 1 .. Len(f) : FALSE
    BY <1>3
  <2>2. Fits(NoCall.todo, next)
    BY NothingFits
  <2> QED
    BY <1>6, <2>1, <2>2 DEF Counting
<1> QED
  BY <1>2, <1>11, <1>12

LEMMA CountsKept ==
    ASSUME Plain, Made, Sized, Rising, HeldBelow, Counting, Move, ~Begin
    PROVE  Rising' /\ HeldBelow' /\ Counting'
<1>1. ASSUME pc' = "closed" PROVE HeldBelow' /\ Counting'
  BY <1>1 DEF HeldBelow, Counting
<1>2. ASSUME logs' = logs PROVE Rising'
  BY <1>2 DEF Rising
<1>3. CASE Open
  BY <1>3, OpenCounts
<1>4. CASE Kill
  <2>1. PICK n \in mem.len .. Len(logs[mem.active].frames) :
           logs' = LogWith(First(logs[mem.active].frames, n), n)
    BY <1>4 DEF Kill
  <2>2. pc # "closed" /\ pc' = "closed"
    BY <1>4 DEF Kill
  <2>3. Rising'
    BY <2>1, <2>2, RisingCut
  <2> QED
    BY <1>1, <2>2, <2>3
<1>5. CASE PowerLoss
  <2>1. pc' = "closed" /\ DOMAIN logs' = DOMAIN logs
    BY <1>5, LossLogs DEF PowerLoss
  <2>2. ASSUME NEW x \in DOMAIN logs PROVE Shorter(x)
    <3>1. /\ logs[x].frames \in Seq(Rec) /\ logs[x].safe \in 0 .. Len(logs[x].frames)
      BY LogsAre DEF LogFacts
    <3>2. logs'[x].frames = First(logs[x].frames, logs[x].safe)
      BY <1>5, LossLogs
    <3> QED
      BY <3>1, <3>2, FirstShorter
  <2>3. Rising'
    BY <2>1, <2>2, RisingLogs
  <2> QED
    BY <1>1, <2>1, <2>3
<1>6. CASE Sync
  <2>1. Rising'
    BY <1>6, SyncLogs, RisingSame
  <2> QED
    BY <1>6, <2>1, SyncCounts
<1>7. CASE SyncSeal \/ SyncMerge
  <2>1. logs' = logs
    BY <1>7 DEF SyncSeal, SyncMerge
  <2> QED
    BY <1>2, <1>7, <2>1, SyncedCounts
<1>8. CASE Writeback
  <2>1. pc' = pc /\ call' = call
    BY <1>8 DEF Writeback
  <2>2. Rising'
    BY <1>8, WritebackLogs, RisingSame
  <2>3. CASE pc # "closed"
    <3>1. Stands
      BY <1>8, <2>1, <2>3, StepStands DEF Writeback, Sync, SyncSeal, SyncMerge, Work
    <3>2. logs'[mem.active].frames = logs[mem.active].frames
      BY <1>8, <2>3, WritebackLogs DEF Made, Process
    <3>3. Fits(call.todo, mem.nextId)
      BY <2>3 DEF Counting
    <3> QED
      BY <2>1, <2>2, <2>3, <3>1, <3>2, <3>3, StandsCounts
  <2> QED
    BY <1>1, <2>1, <2>2, <2>3
<1> SUFFICES ASSUME ~Open, ~Kill, ~PowerLoss, ~Sync, ~SyncSeal, ~SyncMerge, ~Writeback
             PROVE  Rising' /\ HeldBelow' /\ Counting'
  BY <1>3, <1>4, <1>5, <1>6, <1>7, <1>8
<1>9. pc # "closed" /\ pc' # "closed"
  BY DEF Move, Work, Call, Copy, Import, Record, Delete, Replace, Compact, Ask, Return, Write,
         Seal, NewLog, RenameManifest, Tiers, Merge, MergeManifest, LogExists, Fails, GiveUp
<1>10. Stands
  BY <1>9, StepStands
<1>11. CASE Write
  BY <1>9, <1>10, <1>11, WriteRises, StandsBelow
<1>12. Fits(call.todo, mem.nextId) /\ Fits(NoCall.todo, mem.nextId)
  BY <1>9, NothingFits DEF Counting
<1>13. ASSUME logs' = logs, Fits(call'.todo, mem.nextId), pc' # "sync"
       PROVE  Rising' /\ HeldBelow' /\ Counting'
  BY <1>2, <1>9, <1>10, <1>13, StandsCounts
<1>14. CASE Call
  <2>1. logs' = logs /\ pc' # "sync"
    BY <1>14 DEF Call, Copy, Import, Record, Delete, Replace, Compact, Ask
  <2> QED
    BY <1>13, <1>14, <2>1, CallFits
<1>15. CASE Return \/ LogExists
  <2>1. logs' = logs /\ pc' = "idle" /\ call' = NoCall
    BY <1>15 DEF Return, LogExists, GiveUp
  <2> QED
    BY <1>12, <1>13, <2>1
<1>16. CASE Seal \/ RenameManifest \/ Merge \/ MergeManifest
  <2>1. logs' = logs /\ pc' # "sync" /\ call' = call
    BY <1>16 DEF Seal, RenameManifest, Merge, MergeManifest
  <2> QED
    BY <1>12, <1>13, <2>1
<1>17. CASE Tiers
  <2>1. logs' = logs /\ pc' # "sync" /\ (call' = call \/ call' = [call EXCEPT !.compact = "all"])
    BY <1>17 DEF Tiers
  <2>2. call'.todo = call.todo
    BY <2>1 DEF Plain, CallType
  <2> QED
    BY <1>12, <1>13, <2>1, <2>2
<1>18. ASSUME logs' = With(logs, mem.nextFile + 1, EmptyLog), call' \in {call, NoCall}, pc' # "sync"
       PROVE  Rising' /\ HeldBelow' /\ Counting'
  <2> PICK n : n = mem.nextFile + 1
    OBVIOUS
  <2>1. /\ DOMAIN logs' = DOMAIN logs \cup {n} /\ logs'[n] = EmptyLog /\ mem.active # n
        /\ \A x \in DOMAIN logs : x # n => logs'[x] = logs[x]
    BY <1>9, <1>18, NewLogLogs
  <2>2. logs'[n].frames = <<>>
    BY <2>1, EmptyLogType
  <2>3. \A x \in DOMAIN logs : x # n => Shorter(x)
    BY <2>1, LogsAre, SameShorter DEF LogFacts
  <2>4. Rising'
    BY <2>1, <2>2, <2>3, RisingLogs
  <2>5. logs'[mem.active].frames = logs[mem.active].frames
    BY <1>9, <2>1 DEF Made, Process
  <2> QED
    BY <1>9, <1>10, <1>12, <1>18, <2>4, <2>5, StandsCounts
<1>19. CASE NewLog
  BY <1>18, <1>19 DEF NewLog
<1>20. CASE Fails
  <2>1. pc' = "idle" /\ call' = NoCall /\ mem' = mem
    BY <1>20 DEF Fails, GiveUp
  <2>2. CASE logs' = logs
    BY <1>12, <1>13, <2>1, <2>2
  <2>3. CASE logs' = LogWith(First(logs[mem.active].frames, mem.len), mem.len)
    <3> DEFINE f == logs[mem.active].frames
               h == First(f, mem.len)
    <3>1. f \in Seq(Rec) /\ mem.len \in 0 .. Len(f) /\ mem.len \in Nat
      BY <1>9, ActiveLog, MemParts DEF Made
    <3>2. mem.len \in mem.len .. Len(f)
      BY <3>1, LenProperties
    <3>3. Rising'
      BY <1>9, <2>3, <3>2, RisingCut
    <3>4. Rewriting(h, mem.len) /\ logs' = LogWith(h, mem.len)
      BY <1>9, <2>3, <3>2, CutRewrites
    <3>5. Len(h) = mem.len
      BY <3>1, FirstOf
    <3> HIDE DEF h, f
    <3>6. logs'[mem.active].frames = h
      BY <1>9, <3>4, LogWithSteady DEF Rewriting
    <3>7. \A k \in mem.len + 1 .. Len(h) : FALSE
      BY <3>1, <3>5
    <3>8. HeldBelow'
      BY <1>9, <1>10, StandsBelow
    <3> QED
      BY <1>12, <2>1, <3>3, <3>6, <3>7, <3>8 DEF Counting
  <2>4. CASE logs' = With(logs, mem.nextFile + 1, EmptyLog)
    BY <1>18, <2>1, <2>4
  <2> QED
    BY <1>20, <2>2, <2>3, <2>4 DEF Fails
<1> QED
  BY <1>11, <1>14, <1>15, <1>16, <1>17, <1>19, <1>20 DEF Move, Work

\* What lasts of a directory has its entries in its segments, or in its log.
LastsEntries ==
    \A d \in past : \A id \in DOMAIN Lasting(d) :
       \/ \E e \in Held(SegsOf(d)) : e.id = id
       \/ \E j \in 1 .. Sure(d.man.active) :
             FramesOf(d)[j].kind = "entry" /\ FramesOf(d)[j].id = id
LEMMA LastsOfEntries == Plain /\ Made => LastsEntries
<1> SUFFICES ASSUME Plain, Made, NEW d \in past, NEW id \in DOMAIN Lasting(d)
             PROVE  \/ \E e \in Held(SegsOf(d)) : e.id = id
                    \/ \E j \in 1 .. Sure(d.man.active) :
                          FramesOf(d)[j].kind = "entry" /\ FramesOf(d)[j].id = id
  BY DEF LastsEntries
<1> PICK a, k : a = d.man.active /\ k = Sure(a)
  OBVIOUS
<1> DEFINE f == FramesOf(d)
           p == PartOf(First(f, k))
<1>1. a \in DOMAIN logs
  BY DEF Made, Past
<1>2. f \in Seq(Rec) /\ Len(f) \in Nat /\ k \in Nat /\ k <= Len(f)
  BY <1>1, LogsAre DEF LogFacts, FramesOf
<1>3. k \in 0 .. Len(f)
  BY <1>2
<1>4. First(f, k) \in Seq(Rec) /\ Len(First(f, k)) = k /\ \A i \in 1 .. k : First(f, k)[i] = f[i]
  BY <1>2, <1>3, FirstOf
<1>5. Lasting(d) = Said(SegsOf(d), p)
  BY LastingSays DEF SaidOf
<1>6. id \in IdsIn(Held(SegsOf(d) \cup {p}))
  BY <1>5 DEF Said, Answers
<1>7. Held(SegsOf(d) \cup {p}) = Held(SegsOf(d)) \cup p.entries
  BY PartsMore
<1>8. PICK e : e \in Held(SegsOf(d)) \cup p.entries /\ e.id = id
  BY <1>6, <1>7 DEF IdsIn
<1>9. CASE e \in p.entries
  <2>1. e \in Range(First(f, k)) /\ e.kind = "entry"
    BY <1>9 DEF PartOf, OfKind
  <2>2. PICK j \in 1 .. k : First(f, k)[j] = e
    <3> DEFINE g == First(f, k)
    <3>1. g \in Seq(Rec) /\ Len(g) = k /\ e \in Range(g)
      BY <1>4, <2>1
    <3> HIDE DEF g
    <3>2. \E j \in 1 .. k : g[j] = e
      BY <3>1, LenProperties DEF Range
    <3> QED
      BY <3>2 DEF g
  <2> QED
    BY <1>4, <1>8, <2>1, <2>2
<1> QED
  BY <1>8, <1>9

LastsReached == \A d \in past : \A id \in DOMAIN Lasting(d) : Reached(d, id)
LEMMA LastsReach == Plain /\ Made => LastsReached
<1> SUFFICES ASSUME Plain, Made, NEW d \in past, NEW id \in DOMAIN Lasting(d)
             PROVE  Reached(d, id)
  BY DEF LastsReached
<1>1. id \in Nat
  BY LastingIds DEF Core, Ids
<1>2. id <= id
  BY <1>1
<1> QED
  BY <1>2, LastsOfEntries DEF LastsEntries, Reached

\* All that lasts, while all is sure, is below the process's next id.
LastsBelow ==
    pc # "closed" /\ ~unsure => \A d \in past : \A id \in DOMAIN Lasting(d) : id < mem.nextId
LEMMA LastsAreBelow == Plain /\ Made /\ Sized /\ HeldBelow => LastsBelow
<1> SUFFICES ASSUME Plain, Made, Sized, HeldBelow, pc # "closed", ~unsure,
                    NEW d \in past, NEW id \in DOMAIN Lasting(d)
             PROVE  id < mem.nextId
  BY DEF LastsBelow
<1> PICK a : a = d.man.active
  OBVIOUS
<1>1. a \in DOMAIN logs /\ mem.len \in Nat
  BY MemParts DEF Made, Past
<1>2. Agree(d, mem) \/ (pc \in {"sealed", "merged"} /\ d = dir)
  BY DEF Made, Agreed
<1>3. Held(SegsOf(d)) \subseteq Held(Mine)
  <2>1. CASE Agree(d, mem)
    <3>1. SegsOf(d) = Segs
      BY <2>1 DEF Agree, SegsOf, Segs
    <3> QED
      BY <3>1 DEF Mine, Held
  <2>2. CASE pc \in {"sealed", "merged"} /\ d = dir
    BY <2>2, ManifestHolds DEF ManifestHeld
  <2> QED
    BY <1>2, <2>1, <2>2
<1>4. ASSUME NEW j \in 1 .. Sure(a) PROVE a = mem.active /\ j \in 1 .. mem.len
  <2>1. /\ Sure(a) = IF logs[a].safe <= logs[a].accepted THEN logs[a].safe ELSE logs[a].accepted
        /\ logs[a].safe \in Nat /\ logs[a].accepted \in Nat
        /\ logs[a].safe <= Len(logs[a].frames)
    BY <1>1, LogsAre DEF LogFacts
  <2>2. CASE a = mem.active
    <3>1. logs[a].accepted = mem.len
      BY <2>2 DEF Made, Process
    <3> QED
      BY <1>1, <2>1, <2>2, <3>1
  <2>3. CASE a # mem.active
    <3>1. pc \in {"sealed", "merged"} /\ d = dir
      BY <1>2, <2>3 DEF Agree
    <3>2. FramesOf(d) = <<>>
      BY <2>3, <3>1, ManifestHolds DEF ManifestHeld
    <3>3. Len(logs[a].frames) = 0
      BY <3>2, EmptySeq DEF FramesOf
    <3>4. Sure(a) <= 0
      BY <2>1, <3>3
    <3> QED
      BY <2>1, <3>4
  <2> QED
    BY <2>2, <2>3
<1>5. CASE \E e \in Held(SegsOf(d)) : e.id = id
  BY <1>3, <1>5 DEF HeldBelow
<1>6. CASE \E j \in 1 .. Sure(a) : FramesOf(d)[j].kind = "entry" /\ FramesOf(d)[j].id = id
  BY <1>4, <1>6, LogBelow DEF FramesOf
<1> QED
  BY <1>5, <1>6, LastsOfEntries DEF LastsEntries

LEMMA SteadyStays ==
    ASSUME Plain, Plain', NEW n \in DOMAIN logs, n \in DOMAIN logs', Steadily(n) \/ Gains(n)
    PROVE  Stay(n)
<1> DEFINE k == Sure(n)
           f == logs[n].frames
           g == logs'[n].frames
<1>1. k \in Nat /\ f \in Seq(Rec) /\ k <= Len(f) /\ Len(f) \in Nat
  BY LogsAre DEF LogFacts
<1>2. LogFacts'
  BY LogsAre, PTL
<1>3. g \in Seq(Rec) /\ Sure(n)' \in Nat /\ Sure(n)' <= Len(g) /\ Len(g) \in Nat
  BY <1>2 DEF LogFacts
<1>4. CASE Steadily(n)
  <2>1. Sure(n)' = k /\ First(g, k) = First(f, k)
    BY <1>4 DEF Steadily
  <2> HIDE DEF f, g, k
  <2>2. k \in 0 .. Len(f) /\ k \in 0 .. Len(g)
    BY <1>1, <1>3, <2>1
  <2>3. (\A i \in 1 .. k : First(f, k)[i] = f[i]) /\ (\A i \in 1 .. k : First(g, k)[i] = g[i])
    BY <1>1, <1>3, <2>2, FirstOf
  <2>4. k <= Sure(n)' /\ \A i \in 1 .. k : g[i] = f[i]
    BY <1>1, <2>1, <2>3
  <2> QED
    BY <2>4 DEF Stay, f, g, k
<1>5. CASE Gains(n)
  BY <1>1, <1>5 DEF Gains, Stay
<1> QED
  BY <1>4, <1>5

\* While all is sure, a new log's name is none that a manifest has.
LEMMA NewNames ==
    ASSUME Plain, Made, ~unsure, pc = "newlog"
    PROVE  \A d \in past : d.man.active # mem.nextFile + 1
BY MemParts DEF Made, Agreed, Agree

LEMMA LogsStay ==
    ASSUME Plain, Made, Sized, Rising, Move, ~Begin, ~unsure, Plain', Made'
    PROVE  \A d \in past : Stay(d.man.active)
<1> SUFFICES ASSUME NEW d \in past PROVE Stay(d.man.active)
  OBVIOUS
<1> PICK a : a = d.man.active
  OBVIOUS
<1>1. a \in DOMAIN logs
  BY DEF Made, Past
<1>2. ASSUME a \in DOMAIN logs', Steadily(a) \/ Gains(a) PROVE Stay(d.man.active)
  BY <1>1, <1>2, SteadyStays
<1>3. CASE logs' = logs
  BY <1>1, <1>2, <1>3, Untouched
<1>4. CASE Open
  BY <1>1, <1>4, OpenTakesAll DEF OpenTakes
<1>5. CASE Writeback
  BY <1>1, <1>2, <1>5, WritebackLogs
<1>6. CASE Sync
  BY <1>1, <1>2, <1>6, SyncLogs
<1>7. CASE PowerLoss
  BY <1>1, <1>2, <1>7, LossLogs
<1>8. ASSUME pc # "closed", NEW h, NEW n, Rewriting(h, n), logs' = LogWith(h, n)
      PROVE  Stay(d.man.active)
  BY <1>1, <1>2, <1>8, LogWithSteady DEF Rewriting
<1>9. CASE Write
  BY <1>8, <1>9, WriteRewrites DEF Write
<1>10. ASSUME pc # "closed", NEW n \in mem.len .. Len(logs[mem.active].frames),
              logs' = LogWith(First(logs[mem.active].frames, n), n)
       PROVE  Stay(d.man.active)
  BY <1>8, <1>10, CutRewrites
<1>11. CASE Kill
  BY <1>10, <1>11 DEF Kill
<1>12. ASSUME pc = "newlog", logs' = With(logs, mem.nextFile + 1, EmptyLog)
       PROVE  Stay(d.man.active)
  <2>1. a # mem.nextFile + 1
    BY <1>12, NewNames
  <2>2. a \in DOMAIN logs' /\ Steadily(a)
    BY <1>1, <1>12, <2>1, NewLogLogs
  <2> QED
    BY <1>2, <2>2
<1>13. CASE NewLog
  BY <1>12, <1>13 DEF NewLog
<1>14. CASE Fails
  <2>1. CASE pc = "append" /\ logs' = LogWith(First(logs[mem.active].frames, mem.len), mem.len)
    <3>1. mem.len \in mem.len .. Len(logs[mem.active].frames)
      BY <2>1, ActiveLog, LenProperties DEF Made
    <3> QED
      BY <1>10, <2>1, <3>1
  <2> QED
    BY <1>3, <1>12, <1>14, <2>1 DEF Fails
<1>15. CASE Call \/ Return \/ LogExists \/ Seal \/ RenameManifest \/ SyncSeal \/ Tiers
            \/ Merge \/ MergeManifest \/ SyncMerge
  <2>1. logs' = logs
    BY <1>15 DEF Call, Copy, Import, Record, Delete, Replace, Compact, Ask, Return, LogExists,
                 Seal, RenameManifest, SyncSeal, Tiers, Merge, MergeManifest, SyncMerge
  <2> QED
    BY <1>3, <2>1
<1> QED
  BY <1>4, <1>5, <1>6, <1>7, <1>9, <1>11, <1>13, <1>14, <1>15 DEF Move, Work

\* A directory that may come back did before, or has a manifest of now.
LEMMA StepComes ==
    ASSUME Plain, Made, Sized, Move, ~Begin, ~unsure
    PROVE  \A d \in past' : Comes(d) \/ (pc # "closed" /\ d.man.nextId = mem.nextId)
<1>1. ASSUME NEW d \in past PROVE Comes(d)
  BY DEF Comes
<1>2. ~WritesOver
  BY SureNames
<1>3. CASE RenameManifest \/ MergeManifest
  <2>1. PICK m : /\ m.nextId = mem.nextId /\ Change([dir EXCEPT !.man = m]) /\ pc # "closed"
    BY <1>3 DEF RenameManifest, MergeManifest, Manifest
  <2> PICK d : d = [dir EXCEPT !.man = m]
    OBVIOUS
  <2>2. d.man = m /\ past' = past \cup {d}
    BY <2>1 DEF Plain, DirType, Change
  <2> QED
    BY <1>1, <2>1, <2>2
<1>4. CASE Write
  BY <1>1, <1>4 DEF Write
<1>5. CASE ~RenameManifest /\ ~MergeManifest /\ ~Write
  <2>1. Plainly
    BY <1>2, <1>5, StepPlainly, NewNames
  <2> QED
    BY <2>1 DEF Plainly
<1> QED
  BY <1>3, <1>4, <1>5

\* The next id only grows.
LEMMA NextGrows ==
    ASSUME Plain, Made, Sized, Move, pc # "closed", pc' # "closed"
    PROVE  mem.nextId \in Nat /\ mem'.nextId \in Nat /\ mem.nextId <= mem'.nextId
<1>1. mem \in MemType /\ mem.nextId \in Nat
  BY MemParts DEF Made, MemType
<1>2. CASE Sync
  <2>1. mem' = [mem EXCEPT !.len = @ + 1,
                           !.nextId = IF Head(call.todo).kind = "entry" THEN @ + 1 ELSE @]
    BY <1>2 DEF Sync, Applied
  <2>2. mem'.nextId \in {mem.nextId, mem.nextId + 1}
    BY <1>1, <2>1 DEF MemType
  <2> QED
    BY <1>1, <2>2
<1>3. CASE SyncSeal
  <2>1. mem'.nextId = mem.nextId
    BY <1>3 DEF SyncSeal
  <2> QED
    BY <1>1, <2>1
<1>4. CASE SyncMerge
  <2>1. mem'.nextId = mem.nextId
    BY <1>1, <1>4 DEF SyncMerge, MemType
  <2> QED
    BY <1>1, <2>1
<1>5. CASE ~Sync /\ ~SyncSeal /\ ~SyncMerge
  <2>1. mem' = mem
    BY <1>5, StepStands DEF Stands
  <2> QED
    BY <1>1, <2>1
<1> QED
  BY <1>2, <1>3, <1>4, <1>5

\* What was reached still is, whichever directory comes back.
LEMMA ReachedStays ==
    ASSUME Plain, Made, Sized, Rising, GivenReached, GivenBelow, Move, ~Begin, ~unsure,
           Plain', Made', NEW d \in past', NEW id \in given
    PROVE  Reached(d, id)'
<1>1. CASE pc # "closed" /\ d.man.nextId = mem.nextId
  BY <1>1 DEF GivenBelow, Reached
<1>2. CASE Comes(d)
  <2>1. PICK e \in past : e.man = d.man /\ SegsOf(e) = SegsOf(d)
    BY <1>2 DEF Comes
  <2> PICK a : a = d.man.active
    OBVIOUS
  <2>2. Reached(e, id) /\ Stay(a)
    BY <2>1, LogsStay DEF GivenReached
  <2>3. a \in DOMAIN logs /\ a \in DOMAIN logs'
    <3>1. e.man.active \in DOMAIN logs
      BY DEF Made, Past
    <3>2. d.man.active \in DOMAIN logs'
      BY DEF Made, Past
    <3> QED
      BY <2>1, <3>1, <3>2
  <2>4. Sure(a) \in Nat
    BY <2>3, LogsAre DEF LogFacts
  <2>5. Sure(a)' \in Nat
    <3>1. LogFacts'
      BY LogsAre, PTL
    <3> QED
      BY <2>3, <3>1 DEF LogFacts
  <2>6. CASE \E j \in 1 .. Sure(a) : FramesOf(e)[j].kind = "entry" /\ id <= FramesOf(e)[j].id
    <3>1. PICK j \in 1 .. Sure(a) :
             logs[a].frames[j].kind = "entry" /\ id <= logs[a].frames[j].id
      BY <2>1, <2>6 DEF FramesOf
    <3>2. j \in 1 .. Sure(a)' /\ logs'[a].frames[j] = logs[a].frames[j]
      BY <2>2, <2>4, <2>5 DEF Stay
    <3>3. \E i \in 1 .. Sure(a)' :
             FramesOf(d)'[i].kind = "entry" /\ id <= FramesOf(d)'[i].id
      BY <3>1, <3>2 DEF FramesOf
    <3> QED
      BY <3>3 DEF Reached
  <2>7. CASE id < e.man.nextId \/ \E r \in Held(SegsOf(e)) : id <= r.id
    BY <2>1, <2>7 DEF Reached
  <2> QED
    BY <2>1, <2>2, <2>6, <2>7 DEF Reached
<1> QED
  BY <1>1, <1>2, StepComes

\* What an open reads is above every id that was given.
LEMMA OpenAbove ==
    ASSUME Plain, Made, Sized, Rising, GivenReached, Open, NEW id \in given, id \in Nat
    PROVE  id < mem'.nextId
<1> PICK f : f = FramesOf(dir)
  OBVIOUS
<1>1. f \in Seq(Rec) /\ dir \in DirType /\ Openable(dir) /\ mem'.nextId = NextId(dir, f)
  BY OpenTakesAll DEF OpenTakes
<1>2. /\ NextId(dir, f) \in Nat /\ dir.man.nextId \in Nat /\ dir.man.nextId <= NextId(dir, f)
      /\ \A j \in 1 .. Len(f) : f[j].kind = "entry" => f[j].id \in Nat /\ f[j].id < NextId(dir, f)
      /\ \A e \in Held(SegsOf(dir)) : e.id \in Nat /\ e.id < NextId(dir, f)
  BY <1>1, NextIdAbove
<1> PICK n : n = NextId(dir, f)
  OBVIOUS
<1>3. Reached(dir, id)
  BY DEF GivenReached, Plain
<1>4. CASE id < dir.man.nextId
  BY <1>1, <1>2, <1>4
<1>5. CASE \E e \in Held(SegsOf(dir)) : id <= e.id
  BY <1>1, <1>2, <1>5
<1>6. CASE \E j \in 1 .. Sure(dir.man.active) : f[j].kind = "entry" /\ id <= f[j].id
  <2>1. dir.man.active \in DOMAIN logs
    BY DEF Made, Past, Plain
  <2>2. Sure(dir.man.active) \in Nat /\ Sure(dir.man.active) <= Len(f) /\ Len(f) \in Nat
    BY <2>1, LogsAre DEF LogFacts, FramesOf
  <2>3. PICK j \in 1 .. Len(f) : f[j].kind = "entry" /\ id <= f[j].id
    BY <1>6, <2>2
  <2> QED
    BY <1>1, <1>2, <2>3
<1> QED
  BY <1>3, <1>4, <1>5, <1>6 DEF Reached

LEMMA GivenKept ==
    ASSUME Plain, Made, Sized, Rising, ~unsure => GivenReached /\ GivenBelow, Move, ~Begin,
           Plain', Made', Sized', HeldBelow', given \subseteq Ids, shown' = Lasting(synced)',
           given' = (IF unsure THEN {} ELSE given) \cup DOMAIN shown', ~unsure'
    PROVE  GivenReached' /\ GivenBelow'
<1>1. \A id \in given' : (~unsure /\ id \in given) \/ id \in DOMAIN Lasting(synced)'
  OBVIOUS
<1>2. GivenReached'
  <2> SUFFICES ASSUME NEW d \in past', NEW id \in given' PROVE Reached(d, id)'
    BY DEF GivenReached
  <2>1. CASE ~unsure /\ id \in given
    BY <2>1, ReachedStays
  <2>2. CASE id \in DOMAIN Lasting(synced)'
    <3>1. AllAlike' /\ LastsReached'
      BY Alike, LastsReach, PTL
    <3>2. Lasting(d)' = Lasting(synced)'
      BY <3>1 DEF AllAlike
    <3> QED
      BY <2>2, <3>1, <3>2 DEF LastsReached
  <2> QED
    BY <1>1, <2>1, <2>2
<1>3. GivenBelow'
  <2> SUFFICES ASSUME pc' # "closed", NEW id \in given' PROVE id < mem'.nextId
    BY DEF GivenBelow
  <2>1. CASE id \in DOMAIN Lasting(synced)'
    <3>1. LastsBelow'
      BY LastsAreBelow, PTL
    <3>2. synced' \in past'
      BY DEF Plain
    <3> QED
      BY <2>1, <3>1, <3>2 DEF LastsBelow
  <2>2. CASE ~unsure /\ id \in given
    <3>1. id \in Nat
      BY <2>2 DEF Ids
    <3>2. CASE pc = "closed"
      <4>1. Open
        BY <3>2 DEF Move, Call, Return, Work, Writeback, LogExists, Fails, Kill, PowerLoss, Write,
                    Sync, Seal, NewLog, RenameManifest, SyncSeal, Tiers, Merge, MergeManifest, SyncMerge
      <4> QED
        BY <2>2, <3>1, <4>1, OpenAbove
    <3>3. CASE pc # "closed"
      <4>1. mem.nextId \in Nat /\ mem'.nextId \in Nat /\ mem.nextId <= mem'.nextId
        BY <3>3, NextGrows
      <4>2. id < mem.nextId
        BY <2>2, <3>3 DEF GivenBelow
      <4> QED
        BY <3>1, <4>1, <4>2
    <3> QED
      BY <3>2, <3>3
  <2> QED
    BY <1>1, <2>1, <2>2
<1> QED
  BY <1>2, <1>3

LEMMA BeginErases ==
    ASSUME Core, Begin, call = NoCall, given' = {}
    PROVE  /\ Leftover' /\ Compacted' /\ Rising' /\ HeldBelow' /\ Counting'
           /\ GivenReached' /\ GivenBelow'
<1>1. /\ pc' = "idle" /\ logs' = [n \in {1} |-> EmptyLog] /\ call' = NoCall
      /\ dir'.logs = {1} /\ dir'.segs = <<>>
      /\ mem' = [active |-> 1, len |-> 0, segments |-> <<>>, nextFile |-> 2, nextId |-> 1]
  BY DEF Begin
<1>2. DOMAIN logs' = {1} /\ logs'[1].frames = <<>> /\ \A k : k \notin 1 .. Len(logs'[1].frames)
  BY <1>1, EmptySeq DEF EmptyLog
<1>3. /\ mem'.active = 1 /\ mem'.segments = <<>> /\ mem'.len = 0 /\ mem'.nextFile = 2
      /\ Range(<<>>) = {} /\ DOMAIN <<>> = {} /\ NoCall.compact = "no" /\ NoCall.todo = <<>>
  BY <1>1, EmptySeq DEF Range, NoCall
<1>4. Leftover'
  BY <1>1, <1>3 DEF Leftover
<1>5. Compacted'
  BY <1>1, <1>3 DEF Compacted
<1>6. Rising'
  BY <1>2 DEF Rising, Ascends
<1>7. HeldBelow'
  <2>1. Segs' = {}
    BY <1>3 DEF Segs
  <2>2. First(<<>>, 0) = <<>>
    <3>1. <<>> \in Seq(Nat) /\ Len(<<>>) = 0 /\ 0 \in 0 .. 0
      BY EmptySeq
    <3>2. First(<<>>, 0) \in Seq(Nat) /\ Len(First(<<>>, 0)) = 0
      BY ONLY <3>1, FirstOf
    <3> QED
      BY <3>2, EmptySeq
  <2>3. Log' = PartOf(<<>>)
    BY <1>2, <1>3, <2>2 DEF Log
  <2>4. Mine' = {PartOf(<<>>)}
    BY <2>1, <2>3 DEF Mine
  <2>5. Held(Mine)' = {}
    BY <2>4, EmptyPart DEF Held
  <2> QED
    BY <2>5 DEF HeldBelow
<1>8. Counting'
  <2>1. Fits(<<>>, mem'.nextId)
    BY EmptySeq DEF Fits
  <2>2. \A k \in mem'.len + 1 .. Len(logs'[mem'.active].frames) : FALSE
    BY <1>2, <1>3, EmptySeq
  <2> QED
    BY <1>1, <1>3, <2>1, <2>2 DEF Counting
<1>9. GivenReached' /\ GivenBelow'
  BY DEF GivenReached, GivenBelow
<1> QED
  BY <1>4, <1>5, <1>6, <1>7, <1>8, <1>9

LEMMA EStarts == ASSUME Init PROVE EInv
<1>1. New
  <2>1. DOMAIN <<>> = {}
    OBVIOUS
  <2> QED
    BY <2>1 DEF Init, New
<1> QED
  BY <1>1, NotBoth DEF EInv

LEMMA EStays == ASSUME IInv, EInv, UNCHANGED vars PROVE EInv'
<1>1. /\ unsure' = unsure /\ given' = given /\ logs' = logs /\ dir' = dir /\ past' = past
      /\ mem' = mem /\ pc' = pc /\ call' = call
  BY DEF vars
<1>2. Made' => Made
  <2>1. New => New'
    BY <1>1 DEF New
  <2>2. ~(New /\ Made)'
    BY NotBoth, PTL
  <2> QED
    BY <2>1, <2>2 DEF IInv, Core
<1>3. Segs' = Segs /\ Mine' = Mine
  BY <1>1 DEF Segs, Mine, Log
<1>4. (Leftover => Leftover') /\ (Compacted => Compacted') /\ (HeldBelow => HeldBelow')
  BY <1>1, <1>3 DEF Leftover, Compacted, HeldBelow
<1>5. (Rising => Rising') /\ (Counting => Counting')
  BY <1>1 DEF Rising, Counting
<1>6. GivenReached => GivenReached'
  BY <1>1 DEF GivenReached, Reached, FramesOf, Sure
<1>7. GivenBelow => GivenBelow'
  BY <1>1 DEF GivenBelow
<1> QED
  BY <1>1, <1>2, <1>4, <1>5, <1>6, <1>7 DEF EInv

LEMMA EKeeps == ASSUME IInv, PInv, EInv, [Next]_vars PROVE EInv'
<1>1. CASE Next
  <2>1. /\ Move /\ shown' = Lasting(synced)'
        /\ given' = (IF unsure THEN {} ELSE given) \cup DOMAIN shown'
    BY <1>1 DEF Next, Move
  <2>2. CASE Made
    <3>1. Plain /\ Sized /\ given \subseteq Ids
      BY <2>2, NotBoth DEF IInv, Core, Lasts, PInv
    <3>2. Plain' /\ Made' /\ ~Begin /\ Sized'
      BY <1>1, <2>2, HistoryStep
    <3>3. /\ Leftover /\ Compacted /\ Rising /\ HeldBelow /\ Counting
          /\ ~unsure => GivenReached /\ GivenBelow
      BY <2>2 DEF EInv
    <3>4. Leftover' /\ Compacted'
      BY <2>1, <2>2, <3>1, <3>2, <3>3, LeftoverKept, CompactedKept
    <3>5. Rising' /\ HeldBelow' /\ Counting'
      BY <2>1, <2>2, <3>1, <3>2, <3>3, CountsKept
    <3>6. ~unsure' => GivenReached' /\ GivenBelow'
      BY <2>1, <2>2, <3>1, <3>2, <3>3, <3>5, GivenKept
    <3> QED
      BY <3>4, <3>5, <3>6 DEF EInv
  <2>3. CASE New
    <3>1. Core /\ Sized /\ pc = "closed" /\ given = {}
      BY <2>3 DEF IInv, PInv, New, Lasts
    <3>2. CASE Begin
      <4>1. call = NoCall
        BY <3>1 DEF Sized
      <4>2. Lasting(synced)' = <<>>
        BY <3>1, <3>2, <4>1, BeginOrder
      <4>3. given' = {}
        BY <2>1, <3>1, <4>2, NothingSaid
      <4> QED
        BY <3>1, <3>2, <4>1, <4>3, BeginErases DEF EInv
    <3>3. CASE PowerLoss
      <4>1. ~Made'
        BY <2>3, <3>1, <3>3, NewLoss
      <4> QED
        BY <4>1 DEF EInv
    <3> QED
      BY <2>1, <2>3, <3>2, <3>3, NewMoves
  <2> QED
    BY <2>2, <2>3 DEF IInv, Core
<1>2. CASE UNCHANGED vars
  BY <1>2, EStays
<1> QED
  BY <1>1, <1>2

ErasedAll ==
    pc = "append" /\ pc' = "idle" /\ call.compact # "no" /\ call.todo = <<>> /\ ~unsure =>
        (given \ DOMAIN Mirror) \cap OnDisk = {}

LEMMA AppendErased == ASSUME IInv, EInv PROVE ErasedAll
<1> SUFFICES ASSUME pc = "append", call.compact # "no", ~unsure
             PROVE  (given \ DOMAIN Mirror) \cap OnDisk = {}
  BY DEF ErasedAll
<1>1. Plain /\ Made /\ given \subseteq Ids
  BY DEF IInv, Core, New, Lasts
<1> QED
  BY <1>1, Erased DEF EInv

\* ClipStore!CompactErases: when compact has done its work no file of the
\* directory has an entry that was deleted, by a delete or by a replace (lib.rs
\* 1198-1199): not the log and the segment that a seal or a merge that failed
\* left, nor the record a sync that failed left in the log, which no mirror has.
THEOREM StoreErases == Spec => CompactErases
<1>1. Init => IInv /\ PInv /\ EInv
  BY Starts, PStarts, EStarts
<1>2. IInv /\ PInv /\ EInv /\ [Next]_vars => IInv' /\ PInv' /\ EInv'
  BY NextKeeps, PKeeps, EKeeps
<1>3. IInv /\ PInv /\ EInv => [ErasedAll]_vars
  BY AppendErased
<1>4. CompactErases <=> [][ErasedAll]_vars
  BY PTL DEF CompactErases, ErasedAll
<1> QED
  BY <1>1, <1>2, <1>3, <1>4, PTL DEF Spec

=============================================================================
