----------------------------- MODULE ClipStore -----------------------------
(***************************************************************************)
(* The clipboard history's store (clip/src/lib.rs, active.rs, segment.rs): *)
(* a log that is appended to and synced record by record, sealed into an   *)
(* immutable segment when it is long enough, segments merged when they     *)
(* pile up, and a manifest, replaced by rename, that says which files are  *)
(* the history.  One process has it open (the flock); each of its calls is *)
(* the steps between which the process can be killed, the power lost, or a *)
(* write fail.                                                             *)
(*                                                                         *)
(* What a file system keeps: a file's synced bytes; of the changes to a    *)
(* directory since its last sync, any first part, in their order.  past is *)
(* the states of the directory a loss of power may bring back, dir the one *)
(* the processes see, synced the one that lasts.                           *)
(*                                                                         *)
(* Left out: encryption, the search, the lock file, the temporary files (a *)
(* rename is where a file comes to be; the next open removes the rest), a  *)
(* record's place in bytes.  Sizes are counted in records.                 *)
(***************************************************************************)
EXTENDS Naturals, Sequences, FiniteSets, Functions, SequencesExt, FiniteSetsExt

CONSTANTS Contents,         \* what can be copied
          SealAt,           \* Options::seal_bytes, in records
          Fanout,           \* Options::fanout
          MaxId, MaxCalls,  \* bounds: entries; calls
          MaxMs,            \* bound: what the clock of a copy or a paste says
          MaxFaults,        \* bound: writes and syncs that fail
          MaxCrashes        \* bound: kills and losses of power

ASSUME StoreAssumption ==
    /\ {SealAt, MaxId, MaxCalls} \subseteq Nat \ {0}
    /\ Fanout \in Nat \ {0, 1}
    /\ {MaxMs, MaxFaults, MaxCrashes} \subseteq Nat

VARIABLES
    logs,       \* every log's records; how many are safe; how many were
                \* acknowledged, or taken at an open
    dir,        \* the directory: its logs, segments and manifest
    synced,     \* as it was at its last sync, and since, in turn: past
    past,
    mem,        \* the process's: History and Active
    pc,         \* where it is in a call
    call,       \* the records the call has still to write; what it was for
    calls, faults, crashes,  \* how many there were
    shown,      \* history: what lasts
    unsure,     \* history: a manifest is renamed, its directory's sync failed
    spoiled,    \* history: a segment the manifest names was written over
    given,      \* history: the ids that lasted, since all was last sure
    meant       \* history: the ids deleted on purpose, those replaced
vars == <<logs, dir, synced, past, mem, pc, call, calls, faults, crashes,
          shown, unsure, spoiled, given, meant>>

---------------------------------------------------------------------------
\* When a copy or a paste was: what the caller's clock said - it may be long
\* ago, and once more - and, as the store keeps a record for each, which one
\* of that time it is.
Stamp(ms, n) == [ms |-> ms, no |-> 2 * calls + n]
Stamps == [ms : 0..MaxMs, no : 0..(2 * MaxCalls + 1)]

\* Records, and what a log or a segment holds.
Entry(id, c, at) == [kind |-> "entry", id |-> id, contents |-> c, at |-> at]
Event(kind, id, at) == [kind |-> kind, id |-> id, at |-> at]
Tombstone(id) == [kind |-> "delete", id |-> id]

OfKind(S, kinds) == {r \in S : r.kind \in kinds}
IdsIn(S) == {r.id : r \in S}

\* Active::apply: a log's records as a part of the history; an entry is its
\* own first copy.
PartOf(frames) ==
    LET S == Range(frames)
        E == OfKind(S, {"entry"})
    IN  [entries |-> E,
         events |-> OfKind(S, {"copied", "pasted"})
                        \cup {Event("copied", e.id, e.at) : e \in E},
         tombs |-> IdsIn(OfKind(S, {"delete"}))]

\* is_deleted: a tombstone anywhere.
Dead(parts) == UNION {p.tombs : p \in parts}
Held(parts) == UNION {p.entries : p \in parts}
Noted(parts) == UNION {p.events : p \in parts}

\* segment::write: the live entries with their events, and the tombstones
\* whose entries are elsewhere.
\* Mutant of Written: no tombstone is kept.
Written_NoTombs(parts, dead, outside) ==
    [entries |-> {e \in Held(parts) : e.id \notin dead},
     events |-> {e \in Noted(parts) : e.id \notin dead},
     tombs |-> {}]
\* Mutant of Written: a deleted entry is copied like the others.
Written_KeepsDead(parts, dead, outside) ==
    [entries |-> Held(parts),
     events |-> Noted(parts),
     tombs |-> Dead(parts)]
Written(parts, dead, outside) ==
    [entries |-> {e \in Held(parts) : e.id \notin dead},
     events |-> {e \in Noted(parts) : e.id \notin dead},
     tombs |-> Dead(parts) \cap outside]

\* What get answers of each id: an entry that is somewhere and deleted nowhere.
Of(S, id) == {r \in S : r.id = id}
Answer(entries, events) ==
    [contents |-> (CHOOSE e \in entries : TRUE).contents,
     events |-> {[kind |-> e.kind, at |-> e.at] : e \in events}]
Answers(parts) ==
    [id \in IdsIn(Held(parts)) \ Dead(parts) |->
        Answer(Of(Held(parts), id), Of(Noted(parts), id))]

---------------------------------------------------------------------------
\* The process.
NoMan == [active |-> 0, segments |-> <<>>, nextFile |-> 0, nextId |-> 0]
NoMem == [active |-> 0, len |-> 0, segments |-> <<>>, nextFile |-> 0, nextId |-> 0]
NoCall == [todo |-> <<>>, compact |-> "no"]

First(frames, n) == SubSeq(frames, 1, n)
\* The history a manifest names, of whose log the first n records count.
Parts(man, d, n) ==
    {d.segs[i] : i \in Range(man.segments)}
        \cup {PartOf(First(logs[man.active].frames, n))}

\* What the process answers from: its segments, and the records it mirrors.
Log == PartOf(First(logs[mem.active].frames, mem.len))
Segs == {dir.segs[i] : i \in Range(mem.segments)}
Mine == Segs \cup {Log}
Mirror == Answers(Mine)

\* What lasts of a directory: the records both safe and accepted.
Lasting(d) ==
    IF d.man = NoMan THEN <<>>
    ELSE LET log == logs[d.man.active]
         IN  Answers(Parts(d.man, d, Min({log.safe, log.accepted})))

\* Active::open reads the records whose ids ascend.
Ascends(frames, n) ==
    \A i, j \in 1..n : /\ i < j
                       /\ frames[i].kind = "entry" /\ frames[j].kind = "entry"
                       => frames[i].id < frames[j].id
Good(frames) ==
    First(frames, Max({n \in 0..Len(frames) : Ascends(frames, n)}))

\* tier: how often the size, in halves of a seal, divides by the fanout.
Halves(size) == size \div Max({SealAt \div 2, 1})
Tier(size) ==
    LET t[n \in Nat] == IF n < Fanout THEN 0 ELSE 1 + t[n \div Fanout]
    IN  t[Halves(size)]
Size(seg) == Cardinality(seg.entries) + Cardinality(seg.events) + Cardinality(seg.tombs)

\* merge_tiers: where the newest run of segments of one tier begins.
RunStart ==
    LET segs == mem.segments
        n == Len(segs)
        T(i) == Tier(Size(dir.segs[segs[i]]))
    IN  Min({lo \in 1..n : \A i \in lo..n : T(i) = T(n)})
RunIsLong == LET n == Len(mem.segments) IN n >= Fanout /\ n - RunStart + 1 >= Fanout
\* The segments a merge takes: compact's are all, else the newest run.
MergeFrom == IF call.compact = "all" THEN 1 ELSE RunStart

---------------------------------------------------------------------------
\* Steps every call is made of.

Init ==
    /\ logs = <<>>
    /\ dir = [logs |-> {}, segs |-> <<>>, man |-> NoMan]
    /\ synced = dir /\ past = {dir}
    /\ mem = NoMem
    /\ pc = "closed" /\ call = NoCall
    /\ calls = 0 /\ faults = 0 /\ crashes = 0
    /\ shown = <<>> /\ unsure = FALSE /\ spoiled = FALSE /\ given = {}
    /\ meant = [deleted |-> {}, replaced |-> {}]

Counters == <<calls, faults, crashes>>

\* A file more among some, or another in its place.
With(files, n, file) == [x \in DOMAIN files \cup {n} |-> IF x = n THEN file ELSE files[x]]
EmptyLog == [frames |-> <<>>, safe |-> 0, accepted |-> 0]

\* The directory changes; the change is not synced.
Change(d) == dir' = d /\ past' = past \cup {d} /\ UNCHANGED synced
\* It is synced (sync_dir), and then files are removed, which is not.
SyncedThen(d) == dir' = d /\ synced' = dir /\ past' = {dir, d} /\ unsure' = FALSE

\* open_with, of a directory with no manifest: an empty log, then the manifest.
Begin ==
    /\ pc = "closed" /\ dir.man = NoMan
    /\ LET man == [active |-> 1, segments |-> <<>>, nextFile |-> 2, nextId |-> 1]
       IN  /\ logs' = [n \in {1} |-> EmptyLog]
           /\ dir' = [logs |-> {1}, segs |-> <<>>, man |-> man]
           /\ synced' = dir' /\ past' = {dir'}
           /\ mem' = [active |-> 1, len |-> 0, segments |-> <<>>, nextFile |-> 2, nextId |-> 1]
    /\ pc' = "idle"
    /\ UNCHANGED <<call, Counters, unsure, meant>>

\* The manifest's files are there to be opened.
Openable(d) == d.man.active \in d.logs /\ Range(d.man.segments) \subseteq DOMAIN d.segs

NextId(d, frames) ==
    Max({1, d.man.nextId}
            \cup {f.id + 1 : f \in OfKind(Range(frames), {"entry"})}
            \cup {e.id + 1 : e \in Held({d.segs[i] : i \in Range(d.man.segments)})})

\* open_with, of a history: its files are opened, the log's torn tail cut,
\* what the manifest does not name removed.
Open ==
    /\ pc = "closed" /\ dir.man # NoMan /\ Openable(dir)
    /\ LET man == dir.man
           frames == Good(logs[man.active].frames)
           named == [dir EXCEPT !.logs = {man.active},
                                !.segs = Restrict(@, Range(man.segments))]
       IN  /\ logs' = [logs EXCEPT ![man.active] =
                          [frames |-> frames, safe |-> Min({@.safe, Len(frames)}),
                           accepted |-> Len(frames)]]
           /\ mem' = [active |-> man.active, len |-> Len(frames),
                      segments |-> man.segments,
                      nextFile |-> man.nextFile, nextId |-> NextId(dir, frames)]
           /\ Change(named)
    /\ pc' = "idle"
    /\ UNCHANGED <<call, Counters, unsure, meant>>

---------------------------------------------------------------------------
\* The calls: each is the records it will write, in order.

Ask(todo) ==
    /\ calls' = calls + 1
    /\ pc' = "append"
    /\ call' = [todo |-> todo, compact |-> "no"]
    /\ UNCHANGED <<logs, dir, synced, past, mem, faults, crashes, unsure>>

\* The entries that have these contents: append takes the newest.
Twins(c) == LET mirror == Mirror IN {id \in DOMAIN mirror : mirror[id].contents = c}
FirstRecord(c, ms) ==
    IF Twins(c) = {} THEN Entry(mem.nextId, c, Stamp(ms, 0))
                     ELSE Event("copied", Max(Twins(c)), Stamp(ms, 0))

Copy(c, ms) ==
    /\ mem.nextId <= MaxId
    /\ Ask(<<FirstRecord(c, ms)>>)
    /\ UNCHANGED meant

\* import: an entry of another history, copied there once and pasted once.  One
\* that is already here is copied twice: by append, which does not know what
\* import does next, and with the others.
Import(c, ms) ==
    /\ mem.nextId <= MaxId
    /\ LET first == FirstRecord(c, ms)
           copy == Event("copied", first.id, Stamp(ms, 1))
           paste == Event("pasted", first.id, Stamp(ms, 0))
       IN  Ask(IF Twins(c) = {} THEN <<first, paste>> ELSE <<first, copy, paste>>)
    /\ UNCHANGED meant

\* record_copy, record_paste; a paste is told when it is made, after all that was.
Record(kind, id, ms) ==
    /\ kind = "pasted" => ms = MaxMs
    /\ Ask(<<Event(kind, id, Stamp(ms, 0))>>)
    /\ UNCHANGED meant

Delete(id) ==
    /\ Ask(<<Tombstone(id)>>)
    /\ meant' = [meant EXCEPT !.deleted = @ \cup {id}]

\* events_of: the earliest first.
Before(a, b) == a.ms < b.ms \/ (a.ms = b.ms /\ a.no < b.no)
InOrder(S) == CHOOSE s \in [1..Cardinality(S) -> S] :
                  \A i, j \in 1..Cardinality(S) : i < j => Before(s[i], s[j])

\* The time that is written with the entry itself.
CopiedAt(id) == (CHOOSE e \in Of(Held(Mine), id) : TRUE).at

\* replace: the new entry, in the place of the old one's earliest copy but under
\* the old one's copied_at; its other copies and its pastes; and only then the
\* old one's tombstone.
\* Mutant of Replacement: the old one goes as soon as the new one is there.
Replacement_DeletesEarly(id, c) ==
    LET old == Mirror[id].events
        copies == InOrder({e.at : e \in OfKind(old, {"copied"})})
        pastes == InOrder({e.at : e \in OfKind(old, {"pasted"})})
        Events(kind, s) == [i \in DOMAIN s |-> Event(kind, mem.nextId, s[i])]
        first == [ms |-> CopiedAt(id).ms, no |-> copies[1].no]
    IN  <<Entry(mem.nextId, c, first), Tombstone(id)>>
            \o Events("copied", Tail(copies))
            \o Events("pasted", pastes)
Replacement(id, c) ==
    LET old == Mirror[id].events
        copies == InOrder({e.at : e \in OfKind(old, {"copied"})})
        pastes == InOrder({e.at : e \in OfKind(old, {"pasted"})})
        Events(kind, s) == [i \in DOMAIN s |-> Event(kind, mem.nextId, s[i])]
        first == [ms |-> CopiedAt(id).ms, no |-> copies[1].no]
    IN  <<Entry(mem.nextId, c, first)>>
            \o Events("copied", Tail(copies))
            \o Events("pasted", pastes)
            \o <<Tombstone(id)>>

Replace(id, c) ==
    /\ mem.nextId <= MaxId
    /\ Ask(Replacement(id, c))
    /\ meant' = [meant EXCEPT !.replaced = @ \cup {<<id, mem.nextId>>}]

\* compact: the log is sealed, then every segment merged into one.
Compact ==
    /\ calls' = calls + 1
    /\ pc' = "seal"
    /\ call' = [todo |-> <<>>, compact |-> "seal"]
    /\ UNCHANGED <<logs, dir, synced, past, mem, faults, crashes, unsure, meant>>

Return ==
    /\ pc = "append" /\ call.todo = <<>>
    /\ pc' = "idle" /\ call' = NoCall
    /\ UNCHANGED <<logs, dir, synced, past, mem, Counters, unsure, meant>>

---------------------------------------------------------------------------
\* A record: written after the last good one, synced, and only then mirrored.

\* The process's log with these records, of which the first n were there.
LogWith(frames, n) ==
    [logs EXCEPT ![mem.active] = [frames |-> frames, safe |-> Min({@.safe, n}),
                                  accepted |-> @.accepted]]

\* Active::write, up to the sync.
Write ==
    /\ pc = "append" /\ call.todo # <<>>
    /\ logs' = LogWith(Append(First(logs[mem.active].frames, mem.len), Head(call.todo)), mem.len)
    /\ pc' = "sync"
    /\ UNCHANGED <<dir, synced, past, mem, call, Counters, unsure, meant>>

\* The kernel writes a record back, asked or not.
Writeback ==
    /\ \E n \in DOMAIN logs :
          /\ logs[n].safe < Len(logs[n].frames)
          /\ logs' = [logs EXCEPT ![n].safe = @ + 1]
    /\ UNCHANGED <<dir, synced, past, mem, pc, call, Counters, unsure, meant>>

\* Active::write's sync_data - what was not safe before it goes first - and
\* the record is applied; maybe_seal.
Synced ==
    /\ logs[mem.active].safe >= mem.len
    /\ logs' = [logs EXCEPT ![mem.active].safe = mem.len + 1,
                            ![mem.active].accepted = mem.len + 1]
\* Mutant of Applied: the mirror counts the record twice.
Applied_Twice ==
    LET record == Head(call.todo)
    IN  mem' = [mem EXCEPT !.len = @ + 2,
                           !.nextId = IF record.kind = "entry" THEN @ + 1 ELSE @]
Applied ==
    LET record == Head(call.todo)
    IN  mem' = [mem EXCEPT !.len = @ + 1,
                           !.nextId = IF record.kind = "entry" THEN @ + 1 ELSE @]
Sync ==
    /\ pc = "sync"
    /\ Synced /\ Applied
    /\ call' = [call EXCEPT !.todo = Tail(@)]
    /\ pc' = IF mem.len + 1 >= SealAt THEN "seal" ELSE "append"
    /\ UNCHANGED <<dir, synced, past, Counters, unsure, meant>>

---------------------------------------------------------------------------
\* seal: the log becomes a segment, and a new log begins.

\* What the log's segment holds: a tombstone of an entry of the log goes with
\* the entry, one of a segment's entry stays.
Sealed == Written({Log}, Dead(Mine), IdsIn(Held(Segs)))

\* The segment's file, written whole and renamed into place.  What a killed
\* process left unsynced in the log is taken to be written back by then.
Seal ==
    /\ pc = "seal"
    /\ logs[mem.active].safe >= mem.len
    /\ IF mem.len = 0
         THEN /\ pc' = "compact"       \* only compact seals an empty log
              /\ UNCHANGED <<dir, synced, past>>
         ELSE /\ pc' = "newlog"
              /\ Change([dir EXCEPT !.segs = With(@, mem.nextFile, Sealed)])
    /\ UNCHANGED <<logs, mem, call, Counters, unsure, meant>>

\* Active::create: the name must not exist.
NewLog ==
    /\ pc = "newlog"
    /\ mem.nextFile + 1 \notin dir.logs
    /\ logs' = With(logs, mem.nextFile + 1, EmptyLog)
    /\ Change([dir EXCEPT !.logs = @ \cup {mem.nextFile + 1}])
    /\ pc' = "manifest"
    /\ UNCHANGED <<mem, call, Counters, unsure, meant>>

\* write_manifest, up to the rename.
\* Mutant of Manifest: the next id is the one of the files' names.
Manifest_NoId(nextFile, segments, active) ==
    [active |-> active, segments |-> segments,
     nextFile |-> nextFile, nextId |-> 1]
Manifest(nextFile, segments, active) ==
    [active |-> active, segments |-> segments,
     nextFile |-> nextFile, nextId |-> mem.nextId]

RenameManifest ==
    /\ pc = "manifest"
    /\ LET n == mem.nextFile
       IN  Change([dir EXCEPT !.man = Manifest(n + 2, Append(mem.segments, n), n + 1)])
    /\ pc' = "sealed"
    /\ UNCHANGED <<logs, mem, call, Counters, unsure, meant>>

\* The directory synced, the new log is the log, and the old one removed.
SyncSeal ==
    /\ pc = "sealed"
    /\ LET n == mem.nextFile
       IN  /\ mem' = [active |-> n + 1, len |-> 0, segments |-> Append(mem.segments, n),
                      nextFile |-> n + 2, nextId |-> mem.nextId]
           /\ SyncedThen([dir EXCEPT !.logs = @ \ {mem.active}])
    /\ pc' = "tiers"
    /\ UNCHANGED <<logs, call, Counters, meant>>

---------------------------------------------------------------------------
\* merge: neighbouring segments become one.

\* merge_tiers, and what compact does after its seal.
Tiers ==
    /\ pc \in {"tiers", "compact"}
    /\ \/ /\ pc = "tiers" /\ RunIsLong
          /\ pc' = "merge" /\ UNCHANGED call
       \/ /\ pc = "tiers" /\ ~RunIsLong
          /\ pc' = IF call.compact = "seal" THEN "compact" ELSE "append"
          /\ UNCHANGED call
       \/ /\ pc = "compact"
          /\ IF Len(mem.segments) > 1 \/ \E seg \in Segs : seg.tombs # {}
               THEN pc' = "merge" /\ call' = [call EXCEPT !.compact = "all"]
               ELSE pc' = "append" /\ UNCHANGED call
    /\ UNCHANGED <<logs, dir, synced, past, mem, Counters, unsure, meant>>

\* What is merged, and the tombstones that stay: of entries outside it.
Taken == {mem.segments[i] : i \in MergeFrom..Len(mem.segments)}
Outside ==
    IdsIn(Log.entries)
        \cup IdsIn(Held({dir.segs[i] : i \in Range(mem.segments) \ Taken}))
Merged == Written({dir.segs[i] : i \in Taken}, Dead(Mine), Outside)

\* Mutant of Merge: the segments merged go at once.
Merge_RemovesAtOnce ==
    /\ pc = "merge"
    /\ Change([dir EXCEPT !.segs = With(Restrict(@, DOMAIN @ \ Taken), mem.nextFile, Merged)])
    /\ pc' = "mergeman"
    /\ UNCHANGED <<logs, mem, call, Counters, unsure, meant>>
Merge ==
    /\ pc = "merge"
    /\ Change([dir EXCEPT !.segs = With(@, mem.nextFile, Merged)])
    /\ pc' = "mergeman"
    /\ UNCHANGED <<logs, mem, call, Counters, unsure, meant>>

AfterMerge == Append(First(mem.segments, MergeFrom - 1), mem.nextFile)
MergeManifest ==
    /\ pc = "mergeman"
    /\ Change([dir EXCEPT !.man = Manifest(mem.nextFile + 1, AfterMerge, mem.active)])
    /\ pc' = "merged"
    /\ UNCHANGED <<logs, mem, call, Counters, unsure, meant>>

SyncMerge ==
    /\ pc = "merged"
    /\ mem' = [mem EXCEPT !.nextFile = @ + 1, !.segments = AfterMerge]
    /\ SyncedThen([dir EXCEPT !.segs = Restrict(@, DOMAIN @ \ Taken)])
    /\ pc' = IF call.compact = "all" THEN "append" ELSE "tiers"
    /\ UNCHANGED <<logs, call, Counters, meant>>

---------------------------------------------------------------------------
\* What goes wrong.

\* The call's error: what it had still to do is not done.
GiveUp == pc' = "idle" /\ call' = NoCall

\* A seal that failed after the new log was made left it there.
LogExists ==
    /\ pc = "newlog" /\ mem.nextFile + 1 \in dir.logs
    /\ GiveUp
    /\ UNCHANGED <<logs, dir, synced, past, mem, Counters, unsure, meant>>

\* A write, or a sync of a record, fails: of a record half written the tail is
\* cut; of a new log the file may be there; a manifest renamed stays renamed.
Fails ==
    /\ faults < MaxFaults /\ faults' = faults + 1
    /\ GiveUp
    /\ \/ /\ pc = "append" /\ call.todo # <<>>
          /\ logs' = LogWith(First(logs[mem.active].frames, mem.len), mem.len)
          /\ UNCHANGED <<dir, synced, past, unsure>>
       \/ /\ pc \in {"sync", "seal", "newlog", "manifest", "merge", "mergeman"}
          /\ pc = "seal" => mem.len > 0
          /\ UNCHANGED <<logs, dir, synced, past, unsure>>
       \/ /\ pc = "newlog" /\ mem.nextFile + 1 \notin dir.logs
          /\ logs' = With(logs, mem.nextFile + 1, EmptyLog)
          /\ Change([dir EXCEPT !.logs = @ \cup {mem.nextFile + 1}])
          /\ UNCHANGED unsure
       \/ /\ pc \in {"sealed", "merged"}
          /\ unsure' = TRUE
          /\ UNCHANGED <<logs, dir, synced, past>>
    /\ UNCHANGED <<mem, calls, crashes, meant>>

\* The process ends, at any step: a record being written may be torn.
Kill ==
    /\ pc # "closed" /\ crashes < MaxCrashes
    /\ crashes' = crashes + 1
    /\ pc' = "closed" /\ call' = NoCall
    /\ unsure' = (unsure \/ pc \in {"sealed", "merged"})
    /\ \E n \in mem.len..Len(logs[mem.active].frames) :
          logs' = LogWith(First(logs[mem.active].frames, n), n)
    /\ mem' = NoMem
    /\ UNCHANGED <<dir, synced, past, calls, faults, meant>>

\* The power goes, the process open or not: of every log what is safe is left -
\* as much of the rest as the kernel wrote back before (Writeback) is safe too -,
\* of the directory's changes a first part.
PowerLoss ==
    /\ crashes < MaxCrashes
    /\ crashes' = crashes + 1
    /\ pc' = "closed" /\ call' = NoCall
    /\ \E d \in past : dir' = d /\ synced' = d /\ past' = {d}
    /\ logs' = [n \in DOMAIN logs |->
                  LET m == logs[n].safe
                  IN  [frames |-> First(logs[n].frames, m), safe |-> m,
                       accepted |-> Min({m, logs[n].accepted})]]
    /\ mem' = NoMem /\ unsure' = FALSE
    /\ UNCHANGED <<calls, faults, meant>>

---------------------------------------------------------------------------

Call ==
    /\ pc = "idle" /\ calls < MaxCalls
    /\ \/ \E c \in Contents, ms \in 0..MaxMs : Copy(c, ms) \/ Import(c, ms)
       \/ \E id \in DOMAIN Mirror :           \* exists
             \/ \E kind \in {"copied", "pasted"}, ms \in 0..MaxMs : Record(kind, id, ms)
             \/ Delete(id)
             \/ \E c \in Contents : Replace(id, c)
       \/ Compact

Work ==
    \/ Write \/ Sync
    \/ Seal \/ NewLog \/ RenameManifest \/ SyncSeal
    \/ Tiers \/ Merge \/ MergeManifest \/ SyncMerge

\* After a manifest whose directory's sync failed the next file keeps its
\* number: the next segment takes the place of the one the manifest names.
WritesOver ==
    /\ pc \in {"seal", "merge"} /\ pc' \in {"newlog", "mergeman"}
    /\ mem.nextFile \in Range(dir.man.segments)

Next ==
    /\ \/ Begin \/ Open \/ Call \/ Return \/ Work \/ Writeback
       \/ LogExists \/ Fails \/ Kill \/ PowerLoss
    /\ shown' = Lasting(synced)'
    /\ given' = (IF unsure THEN {} ELSE given) \cup DOMAIN shown'
    /\ spoiled' = (spoiled \/ WritesOver)

Spec == Init /\ [][Next]_vars

---------------------------------------------------------------------------
\* What is checked.

TypeOK ==
    /\ \A n \in DOMAIN logs :
          {logs[n].safe, logs[n].accepted} \subseteq 0..Len(logs[n].frames)
    /\ dir \in past
    /\ pc \in {"closed", "idle", "append", "sync", "seal", "newlog", "manifest", "sealed",
               "tiers", "compact", "merge", "mergeman", "merged"}
    /\ pc = "sync" => call.todo # <<>>
    /\ pc # "closed" => mem.len <= Len(logs[mem.active].frames)
    /\ unsure \in BOOLEAN
    /\ given \subseteq 1..MaxId /\ DOMAIN shown \subseteq given

\* Whatever the power's loss brings back, the manifest's files are there to
\* be opened (lib.rs 543-545, the order of seal and merge): no crash between
\* a rename, a new manifest and a removal costs the history.
AlwaysOpens == \A d \in past : IF d.man = NoMan THEN given = {} ELSE Openable(d)

\* What the open history answers is what the next open would, had every
\* record it took been written - at each step of a seal and of a merge, and
\* after each that failed (lib.rs 1115-1145, 1209-1251).
MemoryIsDisk ==
    pc # "closed" /\ ~unsure =>
        LET mirror == Mirror
        IN  \A d \in past :
               mirror = Answers(Parts(d.man, d, logs[d.man.active].accepted))

\* That an event of some others is there: itself, or, of the earliest copy, one
\* of another time in its place.
StandsFor(f, e, others) ==
    \/ f = e
    \/ /\ e.kind = "copied" /\ f.kind = "copied" /\ f.at.no = e.at.no
       /\ \A x \in OfKind(others, {"copied"}) : e.at.ms <= x.at.ms
Carried(old, new) == \A e \in old : \E f \in new : StandsFor(f, e, old)

\* An entry leaves the history for good only when it was asked to go: by a
\* delete, or by a replace whose new entry is there with as many copies and as
\* many pastes, durable before it (lib.rs 709-711), each at its time but for the
\* earliest copy: that one is at copied_at (723, 728), whenever it was.
NothingLost ==
    [][~unsure /\ ~spoiled =>
         \A id \in DOMAIN shown \ DOMAIN shown' :
            \/ id \in meant.deleted
            \/ \E r \in meant.replaced :
                  /\ r[1] = id /\ r[2] \in DOMAIN shown'
                  /\ Carried(shown[id].events, shown'[r[2]].events)]_vars

\* The ids of the entries that any file of the directory has.
OnDisk ==
    (UNION {IdsIn(dir.segs[n].entries) : n \in DOMAIN dir.segs})
        \cup (UNION {IdsIn(OfKind(Range(logs[n].frames), {"entry"})) : n \in dir.logs})

\* When compact has done its work nothing of a deleted entry is in any file
\* of the directory (lib.rs 1198-1199: "its deleted entries gone from the
\* disk").
CompactErases ==
    [][pc = "append" /\ pc' = "idle" /\ call.compact # "no" /\ call.todo = <<>> /\ ~unsure =>
         (given \ DOMAIN Mirror) \cap OnDisk = {}]_vars

\* The store keeps the history's promise.
Promise == INSTANCE ClipHistory
    WITH unsure <- unsure \/ spoiled,
         Ids <- 1..MaxId, Times <- Stamps, Kinds <- {"copied", "pasted"}
KeepsPromise == Promise!Spec
=============================================================================
