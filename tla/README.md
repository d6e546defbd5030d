# A verification development of cellward

cellward runs programs in *containers*; a running container is an *instance*,
whose way out is one *zone* (a network namespace with a tunnel in it) or
nothing at all. This directory holds TLA+ modules of the parts of it where
several processes act on the same files, locks, cgroups and sockets, the TLC
configurations that check them on small instances, and the proofs, checked by
TLAPS, of what should hold for any number of zones, launches and failures.
Paths are relative to the repository; `zone.rs` is `rust/src/zone.rs`, and so on.

## 1. The system's parts

| part | state it keeps | operations | talks to |
|---|---|---|---|
| instance keeper (`zone.rs` `keep`, `Transport`, `Epochs`; `switch.rs`, `epoch.rs`) | bound network, link, why cut, fingerprint, watch; current epoch, whole, outside; known programs, armed | poll: link's end, zone's directory, doorbell, requests, programs' ends; calls: switch, return, reattach, renew, attach; idle end | zone (bridge socket, directory), launches (lock, doorbell, control socket), kernel (cgroups, nft, netlink) |
| container-enter (`enter.rs`, `netqueue/gate.rs`) | the shared lock, the epoch it read, its child | hold the instance, fork, place, register, exec, release, ring | keeper, kernel |
| zone (`zone.rs` `run_inner`, `supervise`; `bridge.rs` `serve`) | `ready`, bridge socket, passt per instance | come up, serve an attach, hold a passt, die | instances |
| strict network (`netqueue.rs`, `netqueue/driver.rs`, `strict_network.rs`, `archive.rs`, `netask.rs`) | session of tokens and tickets, kernel queue, archive, nft map, questions | register, receive, decide, renew, rotate, fail | kernel (nfqueue), launches |
| flow gate (`relay.rs`, `verdicts.rs`, `netask.rs`, `netrules.rs`, `owners.rs`) | held frames, two shared tables, questions | hold, decide, ask, count | relay, keeper, person |
| clipboard store (`clip/src/lib.rs`, `active.rs`, `segment.rs`) | log, sealed segments, key | append, seal, merge, delete, open | disk |
| clipboard broker (`clip/src/broker*.rs`, `controller.rs`, `input_authority.rs`) | selections per scope, announced copies, leases | announce, capture, paste, expire | proxies, paste helpers |
| clipboard of a launch (`wl_frame/private_clipboard.rs`, `smart_paste.rs`, `focus/paste.rs`) | what its applications selected and are offered, the paste held back | select, announce, capture, publish, look; ask, confirm, press | broker, person |
| launcher (`launch.rs`, `instance.rs`, `container.rs`, `profile.rs`) | registry, records | resolve, start the instance, enter | systemd, instance |
| questions (`broker.rs`, `picker.rs`, `microphone.rs`, `camask.rs`, `connect.rs`) | rules remembered | ask, remember, deny | person |
| Wayland proxy, filters, windows, Nix modules | protocol tables, drawing | - | not modelled |

What is hard in it, and what has to be right:

- **Keeper against launches.** The keeper is one thread with long calls; a
  launch enters between any two steps of one. Nothing of the network before a
  switch may go out through the network after it; the lock that keeps launches
  out must not make the keeper wait for a launch that waits for the keeper.
- **Keeper against zones.** Zones die and come back, as themselves or as
  another provider, at any moment - between a look and the connect that follows
  it. An instance goes out through the network it is bound to or nowhere.
- **Failure half way.** Every step of a renewal can fail; what is left behind
  must be a state the next call can go on from.
- **Strict queue.** A packet passes only with the person's word for its launch, or
  a rule for its program, of the policy and epoch in force; verdicts, their
  acknowledgements and answers come late, and the queue itself is replaced.
- **Flow gate.** Two tables with one writer each, read while they are written; a
  flow leaves one while the other still has its decision, or waits for a person who
  edits the rules meanwhile.
- **Clipboard.** A paste that overtakes its copy; a copy, an end or a clearing
  while the person looks at what would be pasted; late captures and late news.
- **Store.** A crash between two writes, an error that leaves half a seal.

The hazards, each at the line where it bites and with the properties that cover
it, are listed in `PROJECT.json`.

## 2. Modules

| module | of | role |
|---|---|---|
| `Exit` | `docs/LEAK-MODEL.md`, section 29 (G1-G3), as `zone.rs` means it | abstract: what an instance promises about its way out |
| `InstanceSwitch` | keeper, epochs, launches entering, zones | detailed; implements `Exit` |
| `MCInstanceSwitch` | - | small sets for TLC |
| `InstanceSwitchProofs` | - | theorems and proofs |
| `InstanceLife` | `keep`'s looks and end, `hold_instance`, `wait_ending`, `up_instance`, `held_instance`, container-enter | detailed: start, idle end, restart |
| `MCInstanceLife` | - | small sets for TLC |
| `InstanceLifeProofs` | - | theorems and proofs |
| `StrictQueue` | `Session`, `Driver`, `Runtime`, `Archive`, `Asker` of the strict network | detailed: packets held, decided, asked about |
| `MCStrictQueue` | - | small sets for TLC |
| `SeqLemmas` | - | lemmas on sequences, finite sets and numbers, for the proofs |
| `StrictQueueProofs` | - | theorems and proofs |
| `FlowGate` | the relay's `Notes`, `Gate`, `flows::Table`; the keeper's `heard_news`, `heard_answers`, `verdicts::Table`, `Asker`, `Rules` | detailed: flows held, decided, asked about |
| `MCFlowGate` | - | small sets for TLC |
| `FlowGateProofs` | - | theorems and proofs |
| `ClipHistory` | the head of `clip/src/lib.rs` | abstract: what a clipboard history promises |
| `ClipStore` | `History`, `Active`, `segment::write` | detailed; implements `ClipHistory` |
| `MCClipStore` | - | small sets for TLC |
| `ClipStoreProofs`, `ClipStoreDeletes` | - | theorems and proofs: the promise; what a delete takes away |
| `ClipBroker` | `Broker`, `PasteState` | the broker's operations, as operators on its state |
| `Paste` | `private_clipboard`, `metadata`, `smart_paste`, `Controller`, the paste helper | composes proxies, broker, helpers and the person |
| `MCPaste` | - | small sets for TLC |
| `PasteProofs` | - | theorems and proofs |

### InstanceSwitch

State and code: `network`, `link`, `why`, `fp`, `zonePid`, `watch` are the
fields of `Transport` (`zone.rs` 3150); `now`, `whole`, `outside` those of
`Epochs` (2983); `file` is the epoch written in the instance's directory, which
launches read; `dirs` the epochs' cgroups that exist. `pc` is where the keeper
is: `poll`, or one of the steps of a call (`back`, `lock`, `cut`, `make`,
`move`, `seal`, `attach`, `bridge`), or the `look` at the programs after a
doorbell or a request. `op` says what the call is about. A launch goes through
`asking`, `held` (its waiter has the lock shared), `forked`, `placed`,
`registered` (strict), `running`, `done`.

A step of the keeper's is what it does between two points at which somebody
else's step could matter: a `flock`, a cgroup made, one launch's processes
moved, the rules sealed, the zone looked at, the bridge's answer. A switch is
`AskSwitch; TryLock; Cut; MakeEpoch; MoveOne*; Moved; Seal; Attach; Bridge`,
each of which may fail and end in `GiveUp`; a zone's return and a reattach are
the same from `TryLock` or `Attach` on. Zones, launches, programs and the
person act between any two.

A socket carries the cgroup (epoch) it was born in and the network its program
was in. `GoesOut` is the ruleset the relay loads (`zone.rs` `instance_ruleset`):
with a wall, only a socket born in that epoch passes.

What is abstracted, and why it is sound for the properties:

- the values of `why` other than `offline` and `zone-changed` are one, `cut`:
  no code branches on them;
- the refusals of a switch that do not change while the instance runs (locked
  zone, settings, search domains) are the constant `Barred`;
- the kernel may refuse to move a launch into its epoch, at will; tools that
  fail, relays that end and waiters that die are bounded by `MaxFaults`;
- each program holds a socket of every epoch it ever ran in, and the destruction
  of sockets at the seal is left out: the wall alone has to hold;
- a launch's own network at exec is the one it asked for - or, moved by a
  renewal before its exec, the one the instance was bound to then;
- a request is answered in a turn of its own; a stop request during a call
  (`NoLink::Stopped`) and the making of the inotify watch failing are left out;
- epoch numbers do not overflow (2^32 renewals of one instance).

### InstanceLife

The same keeper and launches from their other side: who is in, who is on the
way in, and when the instance goes. `kpc` is where the keeper is: coming up
(`setup`, `opening`), at its poll, in a look (`check`, `trylock`, `recheck`), on
its way out (`closing`, `unlink`, `rmdir`, `exit`). `armed` and `known` are
`keep`'s `armed` and `members`; `listed` the pids a look that is going on read
from `/proc`. The lock is a file of the instance's directory: `file` is its
inode (0: none), `klock` the inode the keeper has open, `inode[l]` a launch's;
an `flock` is of an inode, so that two processes exclude one another only if
they opened the same. `lpc` takes a launch through `up_instance` (`wait`,
`waiting`, `start`, `starting`), `held_instance` (`open`, `locking`,
`checking`), and `enter::run` (`held`, `forked`, `registered`, `running`), with
`owes` for a doorbell not rung yet. `unit` is what systemd thinks.

A look is three steps, as between any two a program forks, a launch executes or
a lock is dropped; what `members` returns is any set between those listed and
those listed that still live. The end of an instance is five steps, as a launch
may make the lock's file anew between any two. Abstracted: the network a launch
asks for (`InstanceSwitch` has it), what makes the set-up fail, and the
programs' own stop, waited for with no clock.

### StrictQueue

An instance under the strict network: each launch is registered with a token
before it runs, the kernel marks a packet with the token of the cgroup its
socket was born in and holds it in a queue, and the keeper answers it. `life` is
a launch's; `policy` the rules in the record, `rules` those of the `Runtime`,
`snap` those a turn read. `kmap`, `pk`, `inbox`, `outbox` are the kernel's: nft's
map, the packets, the messages of the netlink socket, the verdicts on their way.
`sess`, `epoch`, `revision`, `next`, `cache`, `armed`, `order`, `pend` are the
fields of `Session` (with `per_launch` read off `pend`), `ready` and `acks` those
of `Driver`, `arch` the archive's rows, `round`, `waiting`, `open`, `queue`,
`grants` (its `session`), `workers` and `answers` (its channel) those of `Asker`,
`pending` and `failed` those of `Runtime`. `now` is the keeper's epoch, `file` the
one in the instance's directory, `whole` whether the last renewal came through.
`ruled` and `consent` only remember: which programs rules allowed in which
revision, and for which scopes the person said yes.

`pc` is where the keeper is: at its poll; in a turn (`barrier` while the drops of
a policy change are flushed, `answers`, `verdicts`, `telling` while an answer's
verdict is flushed, `intake`, `asking`); or in a renewal (`draining`,
`enlisting`). A turn is `Begin` or `ChangePolicy; Flush*; PolicyChanged`, then
`(Stale | TakeAnswer)*; Answered; (Tell; Flush*; Told)*; StartIntake; Intake*;
EndIntake; Decide*; DecideRound`. The kernel, the person and the programs act
between any two. Whatever the code answers with an error closes the network
(`Fail`), until the instance is started again; nothing is followed after that.

Abstracted:

- the destination of a packet, blocked names, the exception of the DNS forwarder
  and diagnostic launches: a packet is decided by its program's rule alone; one
  without a destination is denied at once, as one of a program denied;
- the kernel applies verdicts in any order and any time after they are sent,
  which is more than netlink does and all the code counts on; a packet may come
  at any time, in a renewal too, where the code has fenced and frozen;
- packet numbers are never used twice and the nonce is left out, so that a replay
  or a wrap, which close the queue, do not occur;
- the clock of a flush is a number of messages, an acknowledgement that is overdue
  a failure; a round is `Round` messages;
- a registration is one step (its caller waits; the one thread does nothing else),
  and so is a rotation; the early failures of a renewal, which do not touch the
  strict network, are `InstanceSwitch`'s;
- a turn with nothing to do, the asker closed for want of a pipe, and an instance
  without a record, where "always" is not offered, are left out;
- `snap` and `left` are put back when they will not be read again, so that states
  that differ in nothing are one.

### FlowGate

The gate of an instance that is not under the strict network. Two threads of two
processes share two tables and two pipes: the relay writes the flows' table and
reads the verdicts', the keeper the other way round; one byte of `news` says that
a flow is new, one of `wake` that decisions are there. `rpc` is where the relay is
with a frame: its flow's slot being written (`note`), the word to be said
(`news`), the gate to be asked (`gate`), or the held frames looked at again
(`release`). `flows` is the table as seconds of first and last sight, `cached` and
`held` the fields of `Gate`. `kpc` is the keeper's: `scan` between the news read
dry and the table read, `put` while a round's decisions are written one by one,
`write` while an answer's rule is. `known` is `owners::Keeper`'s, `slots` and
`next` `verdicts::Table`'s, `waiting`, `queue`, `open` and `session` `Asker`'s;
`rules` is the record as a default and two sets of programs.

A flow's frame goes `Frame; NoteKnown | NoteNew; News; Gate`, a decision `Hear;
Scan; Put*`, a question `Answer; (WriteLine;) Put*`, a release `Woken; Release`.
A relay may be killed at any of its steps (`Restart`); the next takes over the
table, with the slot that was half written emptied, and begins with no cache and
no held frames. The record is edited at any time (`Edit`).

`right` remembers the flows that a rule or the person's word allowed, `went`
those that sent a frame, `said` the programs allowed for the instance's life. A
flow that left both tables is a new one: what was right of it is forgotten. Four
more name the cases in which the code does less than it says, and the properties
leave these out by name (section 3, known gaps): `pushed`, `unheard`, `loose`,
`raced`. Abstracted:

- the frames with no flow (`class`: always or never through) and the byte bound
  of the held frames, beside their number;
- how an owner is found: the look may find it or not, and the owner of a key does
  not change;
- the name a destination has; a destination is blocked or not (`Blocked`), with
  no edit of that; Nix's lines, instances without isolation, an asker that could
  not be made, the end of the keeper;
- one answer is handled and its decisions put before the next; the code takes all
  that are there, which are decisions of other flows;
- a rule that denies takes hold of the running launches' cgroups too
  (`epoch::regroup`), at the next new flow: not modelled;
- the rules' load and the read in `write_line` are one step, and a person's edit
  is one; `write_line`'s own read and writes are not.

### ClipStore

`logs` is every log's records, with how many are safe on the disk and how many
were acknowledged; `dir` the directory as the process sees it, `synced` as of its
last sync, `past` every state of it a loss of power may bring back. `mem` is the
open `History`, `pc` where a call is: `append`, `sync`, `seal`, `newlog`,
`manifest`, `sealed`, `tiers`, `merge`, `mergeman`, `merged`, `compact`. The calls
are `Copy`, `Import`, `Record`, `Delete`, `Replace`, `Compact`; each asks for its
records (`call.todo`), and they are written, synced, applied and perhaps sealed
one after the other. At any step the process is killed (`Kill`), the power goes
(`PowerLoss`), or a write, rename or sync fails (`Fails`).

A copy or a paste has the time its caller gives (`Stamp`: `ms`), which `append`,
`import` and `record_copy` take from anywhere - an entry moved or marked carries its
old times - and `record_paste` from the clock (`MaxMs`, the present). `no` only tells
two of one time apart. `Import` of what is already there (`Twins`) records the first
copy twice, as the code does: by `append`, and with the others, of which it then skips
none. `Replacement` is the code's, its slip included: the new entry is written at
`copied_at` and takes the place of the earliest copy, which need not be that one
(known gaps, below). So `NothingLost` says no more than holds: what a replace takes away has,
in the new entry, for each copy and paste one of its own (`Carried`), at the same
time but for the earliest copy.

The assumptions on the system below: directory operations last in their order, as
a prefix of those since the last `sync_dir`; the sync of a file says nothing of its
directory; of a log at least the synced records survive; what a killed process
left unsynced is written back before a seal reads the log. Abstracted: `sync =
false`; encryption, codecs and the search; sizes in records; an import
is one copy and one paste, both of one time; `compact` and `record_copy` are called by
tests only.

A loss of power cuts every log to what is safe: as much of the rest as the kernel had
written back, `Writeback` has made safe one record at a time before. Two crashes are the
bound because a record can survive a kill unsynced, be taken by the next open
(`accepted`) and only then be lost by the second: that open's records count too.

`ClipHistory` is the promise: `shown`, what the history would answer after a loss
of power now, changes as one `Add`, `Note` or `Delete` does or not at all. The
refinement maps `shown`, `given` and `unsure` to the history variables of
`ClipStore` of the same names, which `PowerLoss` and every step compute from the
files that would last (`Lasting`). While `unsure` - a manifest was renamed and its
directory's sync failed - nothing is promised; and nothing any more once a segment
that such a manifest names has been written over (`spoiled`), which no later
sync undoes. So the promise is `ClipHistory` with `unsure \/ spoiled` for its
`unsure`.

### Paste

`broker` is the record of `ClipBroker`: `offers`, `captures`, `last` and `seen` are
the fields of `Broker` and `PasteState` for CLIPBOARD, `next` the one serial of
epochs and revisions, `late` the epochs whose deadline is over. `px[l]` is a
launch's proxy: `local`, `changing`, `epochs`, `clear`, `refresh` as in
`private_clipboard::State`; `begin` and `aborts` what waits in `Metadata`; `capture`
and `publish` a copy being read and one to be told, `told` the answer to it,
`clearing` a `Clear` under way; `changed` the eventfd, `snap` the revision offered
to applications, `reads` what they will ask for. `pend` is `smart_paste::State`,
`helper[t]` the paste helper of a ticket (`prepare`, `question`, `secret`, `tell`,
`told`, `reaped`; `dropped`: never started), `up` the instances whose holder runs,
`home` those of the real home, which are one container. `announced` only remembers
the epoch each selection was announced with.

A copy goes `Select; Announce; Captured; Publish; Answered`, a paste `AskPaste;
Prepare; (AskSecret;) Confirm; Tell; Press; ReadSelection`. The announcement is on
one socket and the publication on the other, so that the broker may see one
launch's requests in either order. An offer that changes sets the eventfd of the
watchers of its instance, each of which looks in its own time (`Notice; Look`).

A request and its answer are one step except where something between them can be
seen: the application selects again before the answer to `FinishCapture`, or the
next announcement is served before a `Clear`. An application that replaces its
selection before the broker serves `FinishCapture` is, in the model, one that
replaced it before the request was sent; the answer then only asks for a refresh.
Aborts are unordered; the code sends them in turn, and their order does not change
what they do. Abstracted:

- PRIMARY, whose requests share the sockets; its announcements and pastes have no
  epochs of the person's;
- a copy is a value with a kind: `user`, `secret`, `restored` (from a history,
  announced as no copy), `empty` (announced and never read: no types, or too many)
  or `clear`; what fits the budgets, and what can be read, is a choice;
- an instance's deadlines: `TimeOut` passes the oldest that is waited for, all being
  nine seconds long; the helper's ten seconds and the paste's sixty and two may
  pass at any time;
- a proxy that lost a socket, after which it has no clipboard or no epochs; the
  manager's own copies and its leases (`input_authority.rs`); instances and launches
  that start later; reads that no paste asked for.

### Exit

Five actions: `Rebind` (bound to a network and without a way out, in one step),
`Begin`, `Renew`, `Open` (only when the epoch is clean), `Close`. The refinement
maps `bound <- network`, `way <- link.on`, `epoch <- now`, `clean <- whole` and
not yet `make`.

## 3. Runs

| run | checks | bounds | shows |
|---|---|---|---|
| `instance_switch` | `TypeOK`, `NoCarryOver`, `WayOutIsBound`, `ReturnIsTheSameZone`, `SwitchEndsAsTable`, `ImplementsExit` | 2 zones, 2 fingerprints, 1 launch, 1 zone start, 2 words of the person, 1 fault | the way out, in every interleaving |
| `instance_liveness` | `KeeperReturns`, `LaunchEnds`, `ReturnIsAttached` | 2 zones, 1 fingerprint, 1 strict launch, 1 start, 1 word, 1 fault | nobody waits for ever |
| `instance_return_lost` | `ReturnIsAlwaysAttached` | as above, no fault | violated: finding 2 |
| `instance_epoch_stuck` | `NewEpochCanBeTriedAgain` | as the first | violated: finding 1 |
| `instance_life` | `TypeOK`, `IdleEndsNobody`, `VacantEnds`, `LaunchSettles` | 2 strict launches, 2 starts of the unit, 3 processes, 1 fault | the idle end against launches |
| `instance_idle_entry` | `IdleEndMeetsNoLaunch` | 3 launches, 2 starts, no fault | violated: finding 3 |
| `strict_queue` | `TypeOK`, `NoStaleAccept`, `PassesOnlyWithConsent`, `NothingStranded`, `HealthyKeepsWay`, `ObsoleteAnswerWritesNothing`, `DenialStands` | 2 launches of one program, 2 packets, 2 events (edits, renewals, rotations, failures), cache of 3, 1 packet a launch, 1 question thread | the queue against late verdicts, acknowledgements and answers |
| `strict_settles` | `PacketSettles`, `ClosesOnlyBySize` | the same, 1 event, 2 messages a flush | no packet is left without an answer; a healthy network is closed by a size only |
| `strict_renew_lost` | `LiveLaunchesKeepWay` | the same, no packet, 3 events, only the seal fails | violated: finding 4 |
| `flow_gate` | `TypeOK`, `Consented`, `NothingStranded`, `QuestionsShown`, `Refusals` | 3 flows, one of them DNS, 1 program, tables of 1 slot, 2 frames held at most, 3 frames, 1 second, 1 event (an edit or a relay's end) | the gate against late looks, answers, edits and new relays |
| `clip_store` | `TypeOK`, `AlwaysOpens`, `MemoryIsDisk`, `NothingLost`, `CompactErases`, `KeepsPromise` | 2 entries of one text, 3 calls, copies at 2 times, a seal every 2 records, a merge of 2 segments, 1 failed write, 2 kills or losses of power | a crash between any two steps of a seal and of a merge |
| `paste` | `TypeOK`, `PastesTheLatest`, `ImportStays`, `SnapshotIsCurrent`, `ReadsWhatWasAnswered`, `OnlyConfirmed`, `NoReorder` | 2 instances, of one container or two, with a launch each; 2 selections of 5 kinds, 1 paste, 1 fault (an end, a deadline, a copy that does not fit, a window that does not come back) | a copy and a paste, in every order of two sockets each, broker, helper and person |

Two words are the least with which a switch follows a failed one, and two zones
the least with which a switch changes the network and can come back; one zone
start is a zone that comes back, as itself or as another (two fingerprints).
One launch is enough for every order of a launch's steps against the keeper's;
launches touch one another only through the lock, which the proofs treat for
any number. Deadlock is not checked: with the bounds used up the system rests.

For the life of an instance two launches are the least with which one ends the
instance while the other waits, two starts the least with which the lock's file
has two generations, and a third process lets a program fork while it is looked
at; the fault may be a failed set-up, a failed or killed entry, a stop, or the
death of the space. `MaxPids` keeps a process for every launch, so that no
launch waits for ever because of a bound.

For the strict network two launches of one program are the least with which
something said of one could be taken for the other's, and with one question
thread the second's question has to wait for the first's; two packets are the
least with which one comes while another's verdict is on its way. A cache of 3
overflows at a renewal of two launches (tokens 3 and 4), so that the archive is
read. An event is only begun while fewer than `MaxEvents` have been, and a
failed step of one counts as well; a rule written for an answer is no event, so
that two events are a rotation and a renewal, or an edit and a failure, on top
of any answers. Launches are interchangeable there, and TLC takes them so
(`Symmetry`), but not in the run with liveness. In `strict_queue`
`FlushTime` is more than its packets can use up. In `strict_settles` it is 2: a
packet that comes in among the acknowledgements of a renewal's drops leaves no time
for the last of them, and the network is closed though nothing failed - the hazard
of `driver.rs` 316, and with that the case `ClosesOnlyBySize` speaks of. (With the
sizes of `strict_queue`, nothing closes a network in which nothing fails.)

For the gate, three flows are the least with which two wait while a third goes
by; a table of one slot is full with the first, so that the second pushes it out
and the third brings it back; one program has two flows, known and unknown. Runs
by hand with two slots in the flows' table (one edit; 4.9 million states), with
two flows, two slots and both kinds of event, and with four frames passed as well.
Keys are interchangeable but for the forwarder's, and TLC takes them so.

For the store, three calls are an entry, another and a delete, with a seal after
two records; a merge needs two segments. The second crash falls on what an open
after the first left. Two times are the least with which a copy is older than its
entry. By hand all passed with three crashes (281544 states), with four calls and one
crash (570654), with two texts (590785) and with a seal after one record (379830),
each at one time, and with a seal after three.

For the paste, two selections are the least with which one replaces, overtakes or
outlives another, in one instance or in two; one paste is asked for and answered
anywhere between them. The instances are interchangeable, each with its launch, and
TLC takes them so. By hand three copies with one paste (1.5 million states) and two
copies with two pastes (1.8 million) passed as well. Two launches of one instance
touch one another only through its offer and its captures, which an import also
changes.

**Fairness.** Weak fairness of the keeper's own next step (a single thread that
runs), of its three reasons to leave the poll (`poll(2)` is level-triggered, so
what is ready stays ready), and of each launch's processes. None is assumed of
zones, of failures, of the end of a program or of a person; and nothing counts
on the strict gate's ten seconds, which only end a launch (`GateTimesOut`). In
`InstanceLife` likewise: weak fairness of the keeper, of systemd's notice of the
unit's end, and of each launch; strong fairness of a registration, as the
keeper leaves its poll and comes back while the request waits in its socket and
is read at one of the next turns. None of programs, requests or the person.
In `StrictQueue`: weak fairness of the keeper's turn and of the rest of a renewal
(one thread, whose poll wakes every 250 ms while the queue is open), and of the
kernel's application of verdicts. None of the person, of edits or of packets; a
packet may wait for the person for ever, and the network may close.

### Findings

1. **A renewal that failed half way bricks the instance's way out**
   (`instance_epoch_stuck`). `Transport::renew` makes the next epoch's cgroup,
   then freezes and moves. If that fails, `epochs.now` stays, the cgroup stays,
   and `epoch::make` of the same number is an error ever after; `whole` is false,
   so `attach` refuses. The comment at `zone.rs` 3794 promises an attach "only
   after a new epoch that is whole", and there can be none.
2. **A zone's return is lost while a launch enters** (`instance_return_lost`).
   `with_lock` refuses rather than waits, the event is consumed, and the
   launch's end is not an event of the zone's directory.
3. **A launch goes in under a lock file that is gone** (`instance_idle_entry`).
   `held_instance` waits on the file it opened; the keeper that has it removes it
   with the directory; a second launch starts the next keeper with a new file;
   the first, woken with the old one, finds the instance up and goes in under a
   lock that keeper does not see. Its idle end may then meet the launch on its
   way in, which `zone.rs` 2761-2763 says cannot be. The launch fails; the same
   step would let a switch pass it by, where the wall mutes it.
4. **A renewal whose seal fails takes the way out of every running launch, for
   good** (`strict_renew_lost`). `Transport::renew` has moved the programs by
   then; it skips `strict.renew`, and takes the next epoch for its own all the
   same. The renewal after it, of n+2, registers again only rows of n+1
   (`strict_network.rs` 351), and the running launches' rows are of n. The
   instance is attached and their packets are dropped, until they are started
   again; `docs/STRICT-NETWORK-OWNERSHIP.md` 151-152 says that a renewal
   "registers new cgroups before attachment".

### Known gaps

Cases in which the code does less than a comment of its says, found while the
properties were stated. Each is a step of the model; the properties leave it out by
a variable that names it, and TLC finds them violated without.

- **A decision pushed out while its flow stays** (`pushed`). The verdicts' slots are
  given in turn. A flow whose decision another took the slot of before the relay read
  it - a flow first seen inbound, one round of more than 2048, a new relay's empty
  cache - is known to the keeper and not decided again: its frames stay held.
  `verdicts.rs` 22-24 has it asked about again.
- **A flow seen again goes by the old decision.** `relay.rs` 347-349 says that a flow
  pushed out of the flows' table "is new again, and decided again"; its decision in
  the other table is read first. And the table's `first` is in seconds: back in the
  same one, it is known. `Consented` counts a flow new only when both tables lost it.
- **News taken and not seen** (`unheard`). The keeper skips a slot that is being
  written for sixteen looks, its news read already; a relay may be killed between the
  note and the word. The flow waits for another's news.
- **An edit lost** (`raced`). `write_line` reads the record, and writes what it read
  but for its line: an edit in between is undone, a refusal too (`netask.rs` 398-400).
- **A held frame of a flow pushed out** (`loose`): its decision, read at a release, is
  kept though the flow is not in the table, and so through its next stay; and
  frames of a flow pushed out before the keeper looked stay held until it is back.
- **A replaced entry loses its earliest copy's time.** `History::replace` writes the
  new entry at the old one's `copied_at` (`lib.rs` 723) and then its copies but the
  first (728), which ascend (817-832): it takes the first for the one at `copied_at`.
  An entry copied onto at an older time since - an older copy moved into the buffer and
  marked a password that is there already (`cellward-clip.rs` 478), or an import - and
  then edited (262-264) has `copied_at` twice and the older time no more, against
  `lib.rs` 709-711, "its original copy/paste times are durable before the old id is
  deleted". (After one import it takes a second edit, as the import records its first
  copy twice.) `tests.rs` 60 replaces an entry whose first copy is at `copied_at`.
  `NothingLost` asks only that something stands for the earliest copy (`StandsFor`);
  with `f.at.ms = e.at.ms` there, TLC finds it violated by a copy, an older copy of the
  same and a replace, where nothing fails.
- **A double fault of the store** (`unsure`). After a merge whose manifest was renamed
  and whose directory's sync failed, `next_file` is the merged segment's number still:
  the next seal renames its segment over it, and a crash before the next manifest
  lasts leaves a history that lost the older entries, against `lib.rs` 296-298.

- **The look at the programs is older than the lock.** `answer_request` counts the
  programs outside the epochs before `switch` takes the lock; a launch the kernel
  would not let move may be executed between the two, and the switch is made with a
  program outside, which `epoch.rs` 40-43 says cannot happen (TLC violates
  `[][pc = "lock" /\ pc' = "cut" => ~OutsideNow]_vars`). The wall mutes it; nothing
  is carried over (`NoCarryOver`).
- **A failed switch sets no watch** (`zone.rs` 4157): at the epoch or the seal, only
  the person's reattach tries again.
- **A paste swallowed** (phase `dropped`, from two pastes of a launch on). A second
  chord while the first paste's `systemd-run` is not reaped makes a pending paste whose
  helper `start_unit` (`wl_proxy.rs` 1815) does not start, and nobody finishes it: for
  sixty seconds every paste of the launch is consumed. `docs/CLIPBOARD.md` 25-26 has
  repeated pastes go on without a prompt.
- **A copy lost to a clearing.** `Broker::clear` cancels the capture there is, be it of
  a copy announced after the clearing was sent, or of another launch of the instance.
- **A restored selection passes for the latest.** `explicit_selection` marks it at
  its set (`paste.rs` 38-42), though it was chosen before a newer copy elsewhere:
  `PastesTheLatest` has it as its second case. And where the latest copy failed, a
  restored one is refused until there is a new copy (188-196).

## 4. Proofs

All theorems are of the modules as TLC runs them, for any constants that their
assumption allows; every run evaluates the assumption of its module.

`InstanceSwitchProofs` proves, for any zones, fingerprints, launches and bounds:

| theorem | says |
|---|---|
| `Invariant` | `Spec => []IInv` |
| `TypeCorrect`, `NothingCarriedOver`, `WayOutStaysBound` | the three invariants the first run checks |
| `KeeperImplementsExit` | `Spec => E!Spec`, by steps: each action maps to an action of `Exit` or to a stutter |
| `ReturnsTheSame`, `SwitchEnds` | its two action properties |

`NoCarryOver` is not inductive. A socket is harmless for one of two reasons:
its epoch is not the wall's, or its network is the bound one; and which one
holds changes while the keeper renews. `IInv` therefore says, besides the
types: where the keeper is in a call and what that implies for the link and the
lock (`CallInv`); that a link is the bound network's, in a whole epoch
(`LinkInv`); that the lock held excludes waiters, and every launch that has read
the network holds it until it has forked (`LockInv`); that no epoch past the
current one exists for a launch to read outside a renewal (`EpochInv`); that a
child not executed yet, in the current epoch, asked for the bound network
(`EntryInv`); and that sockets born in the current epoch - once it is whole -
or in the one being made are the bound network's (`SockInv`). Without a switch
the wall is off and there is one epoch, which is the `now = 1` case of `SockInv`.
The assumption is `SwitchAssumption` on the constants, evaluated by every run.

`InstanceLifeProofs` proves `TypeCorrect` and `IdleEndsNobodyHolds`, the action
property of the first life run, for any number of launches, starts and faults.
The invariant: the keeper's exclusive lock is held only from the last look to
its end (`KeeperInv`); a launch on its way in under a lock it took is a holder
of it, and no holder has the inode the keeper has exclusively (`LockInv`); a
launch's first process exists only once it is executed (`ProgramInv`); so that
at the last look every program of a launch that had the lock is listed, and
after it none of them lives (`EndInv`). That the lock is the *instance's own* is
a hypothesis of the property, and finding 3 is what happens without it.

`ReturnIsTheSameZone` needs one fact more: a return of the zone keeps expecting
what last carried the instance (`Expects`) from its look to its attach, since only
a switch's `Cut` forgets that. `SwitchEndsAsTable` follows from `CallInv`: a call
that can fail is in the network it was asked into, which has no way out by then.

`StrictQueueProofs` proves the types, in full. What makes them hard is `CacheOrder`:
each token armed is in the session's memory and once on the list of those to forget,
and the tokens of a new epoch are on no list until the map is the new one. It then
proves, for any launches, programs, rules and sizes:

| theorem | says |
|---|---|
| `TypeCorrect` | `TypeOK` and `TypeInv` hold |
| `QueueInvariant` | `TypeInv`, `TicketInv`, `StageInv` and `ConsentInv` hold |
| `NoStaleAcceptHolds`, `ConsentHolds` | what goes out, or is on its way there, is of now and has a word |
| `ObsoleteAnswersWriteNothing`, `DenialsStand` | what an answer may write in the record |
| `NothingIsStranded` | no packet the kernel holds is forgotten |
| `LaunchesKeepTheirWay` | `HealthyKeepsWay` |
| `SizesAloneClose` | where nothing failed, the network is closed by one of its sizes only (`ClosesOnlyBySize`) |

An acceptance passes through `pend`, `decided`, `decisions`, `outbox`, and before it
a word through `answers`, `grants` and the rules a turn read. `TicketInv`: wherever a
ticket is, it names its own packet, launch and scope, and its scope is of now but
while a policy change is flushed. `StageInv`: a packet is at one stage of its way
(`OneStage`) and each verdict sent has its acknowledgement to come, so that a barrier
with no `acks` left has no verdict of before on its way: that is why the keeper may
read the new rules then. `ConsentInv`: every acceptance there has a `Warrant`, the
person's word or the rules of that revision. The rest is what may not be lost:
`Reached`, `Questions` and `Awaited` - held packets are in the socket, in hand or
answered, each question open or queued once, each pending ticket waited for -, and
`WayInv`, the tokens, the archive's rows and the session's next number in step
through a registration, the two halves of a renewal and a rotation.
`SizesAloneClose` goes through each place where the code calls `fail`. With `OpenInv`
nothing but a size leads there: the kernel holds every packet that is unread, pending
or has a verdict on its way (`InKernel`), so that no acknowledgement has an error of
its own (`Honest`) and, by `StageInv`, each is of one that is waited for; and a
ticket that has its answer is still pending (`Answering`), hence of now.

`FlowGateProofs` proves, for any flows, programs, table sizes and bounds, all that
`flow_gate` checks. `Consented` (what sent was allowed) is not
inductive: an allowance travels from a look or an answer through `todo`, a slot and
the relay's cache, or through `session`, and each may be read much later.
`Granted` says that whatever holds an allowance holds it of a flow, or a program,
that was allowed; `Asked` that a flow waits for its own program's answer or its own;
`Kept` that the relay keeps a decision only of a flow in the table, or `loose`: that
is what makes it sound to forget a flow's right when both tables lost it. `Writing`
says that the rule being written was read from the record as it is, unless `raced`,
from which `Refusals` follows. For `QuestionsShown`, `Shown`: who waits is open or in
the queue, once, and the person's one question of nobody's flows is the queue's
first. For `NothingStranded`, `Pursued`: a flow the keeper has not looked at is
announced or about to be (`Heard`), one looked at is decided, to be decided or
waiting (`Placing`), a decided flow's frames have a wake under way (`Waking`), and
a slot belongs to one flow (`Slotted`). That no more is held than there is room for
(`Roomy`) is a sum over the flows, hence the assumption that they are finitely many:
lemmas on the sum of a function say how one summand changes it. The assumption is
`GateAssumption`.

`PasteProofs` proves, for any instances, launches, kinds of copies and bounds, all
that `paste` checks, from one invariant:

- `Bounds`, `Offers`, `Source`, `Standing` put the person's copies in the order of
  their announcements: what an instance offers was announced no later than what it
  has `seen`, a capture is of an announcement after both, and what stands for the
  latest epoch - in its source, or brought into another instance - was announced with
  it or after it. The broker never compares copies; it compares epochs, from requests
  that come over two sockets in either order;
- `Proxies`: a proxy knows the epoch of its own last selection, or none, and what it
  has captured or is to tell is that selection;
- `Answers`: an answer, a paste held back and a chord played each name a revision,
  and the copy it has as long as it is offered (`Matches`, `Showable`);
- `Current`: a proxy's snapshot is the broker's revision, but while a notice, a
  refresh or an answer is on its way (`Fresh`);
- `Held`: only a launch that runs holds a paste back.

Each operation of the broker has a lemma of what it does to such orders, whatever
proxies do; each kind of step is then one of these and a proxy's part. The two
action properties follow from a lemma of what makes an offer new (`NewOffer`): a
capture in time, or the person's last Enter. `PasteAssumption` has, besides types,
that the value for "no copy" is no copy.

`ClipStoreProofs` proves, for any contents, sizes of seals and merges, faults and
crashes, `TypeOK`, `AlwaysOpens` and `MemoryIsDisk`, and from them `KeepsPromise`;
`ClipStoreDeletes` proves `NothingLost` and `CompactErases`. The lemma all rests on is
`WrittenAnswers`: a segment written of some parts R of a history, with the tombstones
of entries outside R, answers - together with the rest - as R did; the rest is what
`seal` and `merge` pass as *outside*. The invariant (`Core`): whichever directory
comes back has its files and its numbers (`Past`, `Numbered`); the process's files
are there (`Process`); what a seal or a merge has made so far is what it will name
(`Stage`); and, unless a manifest's sync failed, all directories that may come back
have one history but for the manifest renamed last (`Agreed`). `Steady` says that
what a merge would write does not change while its steps run. The assumption is
`StoreAssumption`.

`KeepsPromise`, that the store implements `ClipHistory`, rests on a second invariant
(`PInv`). What is shown is what lasts of the synced directory; a log has at most one
record that was not taken (`Sized`); and, unless a manifest's sync failed and its
segment was then written over (`spoiled`), ids only grow: a directory's segments have
ids below the next id its manifest names, its log has the ids from there in order
(`PastOrder`), the process counts on from them (`MemOrder`), and every id ever given
is covered by whichever directory comes back - by its manifest's next id, or by an
entry (`GivenFits`), which is why the next open gives none of them again. Each step
then has a directory that might have come back, and what lasts after it is what lasted
of that one (`Steadily`) or of one record more (`Gains`); a lemma (`RecordMore`) says
that one record more is one operation of `ClipHistory`, or none.

`NothingLost` needs to know why each tombstone was written (`NInv`): what a log's
tombstone deletes, of the records before it, was deleted on purpose or replaced by an
entry those records have with an event for each of its own (`Intended`); what the call is still to
delete was asked to go, and what stands for a replaced entry's events comes before its tombstone
in the call's records (`Asked`, `Moved`, from `ReplacementIs`); directories that name one log answer alike of
any number of its records (`OneAnswer`), and the process's segments are those of one
of them (`OwnHistory`), so that what held for the directory the call was answered from
holds for the one that comes back. What lasts then loses an entry only by a tombstone
that becomes sure (`LostStep`).

`CompactErases` says that no file has a deleted entry, so its invariant (`EInv`) is of
all files, not of those that count. Besides the process's own there are only the
segment and the log of one seal or merge, under way or failed, and while the process's
log is empty that segment has no entry the process's segments have not (`Leftover`); a
compact that ends leaves an empty log and no tombstone (`Compacted`). What a failed
sync left in the log no mirror has: such an entry's id is not below the process's next
(`Counting`), and every id given is (`GivenBelow`). That lasts through kills and losses
of power because entries' ids ascend in each log (`Rising`), so that the next open
takes the whole log, and because whichever directory comes back has a next id, or an
entry, not below what was given (`GivenReached`). `PInv` says more of the ids, but only
until `spoiled`; `CompactErases` is promised then too, hence an invariant of its own.

`SeqLemmas` has what these need of sequences. It proves induction over the numbers
as a statement of sets of numbers (`Inductive`, from the library's well-founded
order), which is enough for the recursive functions of the models (`Those`, the sums).

Model-checked only: everything temporal beyond safety - liveness under fairness is
out of the prover's reach. Every safety invariant and action property that a passing
run checks is proved.

## 5. Plan

In this order; each with its MC module, a run and, where marked (P), proofs.

1. `InstanceSwitch` with `Exit` (P) - done.
2. `InstanceLife` (P): start, idle end and restart of an instance against the
   launches that wait for it: the lock's file is removed with the directory - done.
3. `StrictQueue`: session, driver, controller, archive and questions of the
   strict network in one module, since the properties need them together (P) - done.
4. An abstract `Consent` (a packet is offered, allowed, refused or lost, and
   allowed only under a word of now), which `StrictQueue` implements (P).
5. `FlowGate` (P): relay and keeper over the two tables, and the question - done.
6. `ClipStore` with `ClipHistory` (P): crash between any two writes of the log and its
   segments - done, with the proof that it implements `ClipHistory`.
7. `Paste` with `ClipBroker` (P): announced copies, captures, deadlines, the question
   - done. `InputAuthority` is left.
8. Zone supervision (`supervise`, `hold_passt`) as far as it has states of its own.

## 6. Not modelled

Drawing, dialogs, parsing, file generation, packaging and the byte-level
filters; the Wayland proxy's object tables; the tunnel clients themselves. See
the components in `PROJECT.json`, each with its reason.
