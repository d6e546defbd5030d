---------------------------- MODULE InstanceLife ----------------------------
(***************************************************************************)
(* The life of a container's instance: its unit is started by launches that *)
(* find it down, it goes when its last program has gone and nobody is on    *)
(* the way in, and launches that come meanwhile wait for its end and start  *)
(* it again (zone.rs `hold_instance`, `keep`; launch.rs `up_instance`;      *)
(* enter.rs `held_instance`, `run`).  What stands between them is a lock on *)
(* a file of the instance's directory - a directory the keeper removes at   *)
(* its end, so that the file has generations, told apart as the kernel      *)
(* does, by inode.                                                          *)
(***************************************************************************)
EXTENDS Naturals, FiniteSets

CONSTANTS Launches,
          Strict,         \* a launch's program waits for the keeper's word
          MaxPids,        \* bound: processes of programs there are, in all
          MaxRuns,        \* bound: starts of the unit
          MaxFaults       \* bound: failures, kills and stops

ASSUME LifeAssumption ==
    /\ Strict \in BOOLEAN
    /\ MaxPids \in Nat /\ MaxRuns \in Nat /\ MaxFaults \in Nat

VARIABLES
    unit,       \* systemd takes the unit for active
    runs,       \* keepers there have been
    kpc,        \* where the keeper is
    up,         \* the instance is ready and its space alive (instance::up)
    door,       \* the doorbell's socket is there
    bell,       \* it rang
    armed,      \* keep: a launch has rung
    known,      \* keep: the members at its last look
    listed,     \* the pids of the look that is going on
    dir,        \* the instance's directory is there
    file,       \* the inode of the lock in it; 0: no such file
    inodes,     \* inodes there have been
    klock,      \* the inode the keeper has open
    excl,       \* whether it holds it exclusively
    lpc,        \* where each launch is
    phase,      \* whose attempts: up_instance's or container-enter's
    tries,      \* the attempts it has made there
    inode,      \* the inode each launch has open or went in under; 0: none
    holders,    \* launches that hold theirs shared
    owes,       \* launches that dropped it and have not rung yet
    into,       \* the keeper whose instance each launch went into
    main,       \* the pid of each launch's program; 0: none yet
    pids,       \* pids given to processes of programs
    alive,      \* those that live
    faults      \* bounded counter

uvars == <<unit, runs>>
kvars == <<kpc, up, door, armed, known, listed, klock, excl>>
fvars == <<dir, file, inodes>>
lvars == <<lpc, phase, tries, inode, holders, owes, into>>
pvars == <<main, pids, alive>>
vars  == <<uvars, kvars, bell, fvars, lvars, pvars, faults>>

-----------------------------------------------------------------------------
Fault == faults < MaxFaults /\ faults' = faults + 1

\* Whether launch l's flock, shared, is given: nobody has its inode otherwise.
Shareable(l) == ~(excl /\ inode[l] = klock)

\* Whether the keeper's flock, exclusive, is.
Sharers(i) == {l \in holders : inode[l] = i}

\* Opening the lock makes the file where the directory has none.
Opened == IF file = 0 THEN inodes + 1 ELSE file
OpenLock == /\ file' = Opened
            /\ inodes' = IF file = 0 THEN inodes + 1 ELSE inodes

\* enter::ring: heard only where there is a doorbell.
RingHeard == bell' = (bell \/ door)

\* A launch that is in, or on its way in, under the lock it took.
Entering(l) == lpc[l] \in {"held", "forked", "registered"}

Init ==
    /\ unit = FALSE /\ runs = 0
    /\ kpc = "none" /\ up = FALSE /\ door = FALSE /\ bell = FALSE
    /\ armed = FALSE /\ known = {} /\ listed = {}
    /\ dir = FALSE /\ file = 0 /\ inodes = 0 /\ klock = 0 /\ excl = FALSE
    /\ lpc = [l \in Launches |-> "none"]
    /\ phase = [l \in Launches |-> "up"]
    /\ tries = [l \in Launches |-> 0]
    /\ inode = [l \in Launches |-> 0]
    /\ holders = {} /\ owes = {}
    /\ into = [l \in Launches |-> 0]
    /\ main = [l \in Launches |-> 0] /\ pids = 0 /\ alive = {}
    /\ faults = 0

-----------------------------------------------------------------------------
(* The keeper. *)

\* run_instance and hold_instance up to READY: the transport opens the lock
\* before it; the space is entered from it on.
SetUp ==
    /\ kpc = "setup"
    /\ kpc' = "opening"
    /\ up' = TRUE
    /\ OpenLock
    /\ klock' = Opened
    /\ UNCHANGED <<uvars, door, armed, known, listed, excl, bell, dir, lvars,
                   pvars, faults>>

\* Its space, its helpers or its way out did not come up: the directory stays.
SetUpFails ==
    /\ kpc = "setup"
    /\ Fault
    /\ kpc' = "none"
    /\ UNCHANGED <<uvars, up, door, armed, known, listed, klock, excl, bell,
                   fvars, lvars, pvars>>

\* keep: the doorbell bound, the lock opened, nothing rung before it heard.
OpenDoor ==
    /\ kpc = "opening"
    /\ kpc' = "poll"
    /\ door' = TRUE
    /\ UNCHANGED <<uvars, up, armed, known, listed, klock, excl, bell, fvars,
                   lvars, pvars, faults>>

\* place::members: the pids listed, then each looked at and held; one that
\* ended meanwhile is in it or not.
List == listed' = alive
Members == {m \in SUBSET listed : listed \cap alive \subseteq m}

\* A turn of the poll: all that is ready is heard in it - the doorbell, a
\* request, ends of programs it knows; a look follows the first two, and an
\* end where it knows of nobody else or the one that ended was outside the
\* epoch.
Turn(request) ==
    /\ kpc = "poll"
    /\ request \/ bell \/ ~(known \subseteq alive)
    /\ bell' = FALSE
    /\ armed' = (armed \/ bell)
    /\ \/ kpc' = "check" /\ List /\ known' = {}
       \/ /\ ~request /\ ~bell
          /\ known' = known \cap alive /\ known' # {}
          /\ UNCHANGED <<kpc, listed>>
    /\ UNCHANGED <<uvars, up, door, klock, excl, fvars, lvars, pvars, faults>>

Check ==
    /\ kpc = "check"
    /\ known' \in Members
    /\ listed' = {}
    /\ kpc' = IF known' = {} /\ armed THEN "trylock" ELSE "poll"
    /\ UNCHANGED <<uvars, up, door, armed, klock, excl, bell, fvars,
                   lvars, pvars, faults>>

\* Mutant of TryLock: the lock waited for.
TryLockWaits ==
    /\ kpc = "trylock"
    /\ Sharers(klock) = {}
    /\ excl' = TRUE
    /\ List
    /\ kpc' = "recheck"
    /\ UNCHANGED <<uvars, up, door, armed, known, klock, bell, fvars,
                   lvars, pvars, faults>>

\* lock_exclusive_now: nobody on the way in, and looked at once more - or no
\* end now.
TryLock ==
    /\ kpc = "trylock"
    /\ IF Sharers(klock) = {}
       THEN excl' = TRUE /\ List /\ kpc' = "recheck"
       ELSE kpc' = "poll" /\ UNCHANGED <<excl, listed>>
    /\ UNCHANGED <<uvars, up, door, armed, known, klock, bell, fvars, lvars,
                   pvars, faults>>

\* Mutant of Recheck: the look of before the lock taken for good.
RecheckNot ==
    /\ kpc = "recheck"
    /\ kpc' = "closing"
    /\ door' = FALSE /\ bell' = FALSE /\ listed' = {}
    /\ UNCHANGED <<uvars, up, armed, known, klock, excl, fvars, lvars, pvars,
                   faults>>

\* Looked at once more: nobody, and it ends with the lock taken (Ending::Idle)
\* - or somebody, and the lock is given back.
Recheck ==
    /\ kpc = "recheck"
    /\ known' \in Members
    /\ listed' = {}
    /\ IF known' = {}
       THEN kpc' = "closing" /\ door' = FALSE /\ bell' = FALSE /\ UNCHANGED excl
       ELSE kpc' = "poll" /\ excl' = FALSE /\ UNCHANGED <<door, bell>>
    /\ UNCHANGED <<uvars, up, armed, klock, fvars, lvars, pvars, faults>>

\* Asked to stop (Ending::Asked): the programs are ended, without the lock.
Stop ==
    /\ kpc = "poll"
    /\ Fault
    /\ kpc' = "closing"
    /\ door' = FALSE /\ bell' = FALSE
    /\ UNCHANGED <<uvars, up, armed, known, listed, klock, excl, fvars, lvars,
                   pvars>>

\* The space's pid 1 goes, and all that is in it.
SpaceGoes ==
    /\ up' = FALSE
    /\ alive' = {}
    /\ lpc' = [l \in Launches |->
                  IF into[l] = runs /\ lpc[l] \in {"forked", "registered"}
                  THEN "failed" ELSE lpc[l]]

\* The holder told to end, and waited for.
EndSpace ==
    /\ kpc = "closing"
    /\ kpc' = "unlink"
    /\ SpaceGoes
    /\ UNCHANGED <<uvars, door, armed, known, listed, klock, excl, fvars, bell,
                   phase, tries, inode, holders, owes, into, main, pids, faults>>

\* Its pid 1 is killed, or ends by itself ...
SpaceDies ==
    /\ up
    /\ Fault
    /\ SpaceGoes
    /\ UNCHANGED <<uvars, kpc, door, armed, known, listed, klock, excl, fvars,
                   bell, phase, tries, inode, holders, owes, into, main, pids>>

\* ... and the keeper hears of it at its poll (Ending::Killed, Broken): it goes
\* without the lock.
SpaceGone ==
    /\ kpc = "poll" /\ ~up
    /\ kpc' = "closing"
    /\ door' = FALSE /\ bell' = FALSE
    /\ UNCHANGED <<uvars, up, armed, known, listed, klock, excl, fvars, lvars,
                   pvars, faults>>

\* sys::remove_tree: what is in the directory, then the directory; one that
\* is not empty by then is gone through once more, or stays.
Unlink ==
    /\ kpc = "unlink"
    /\ file' = 0
    /\ kpc' = "rmdir"
    /\ UNCHANGED <<uvars, up, door, armed, known, listed, klock, excl, bell, dir,
                   inodes, lvars, pvars, faults>>

RemoveDir ==
    /\ kpc = "rmdir"
    /\ dir' = (file # 0)
    /\ kpc' \in IF file = 0 THEN {"exit"} ELSE {"unlink", "exit"}
    /\ UNCHANGED <<uvars, up, door, armed, known, listed, klock, excl, bell,
                   file, inodes, lvars, pvars, faults>>

\* The process ends, and with it what it held.
Exit ==
    /\ kpc = "exit"
    /\ kpc' = "none"
    /\ excl' = FALSE /\ klock' = 0
    /\ armed' = FALSE /\ known' = {}
    /\ UNCHANGED <<uvars, up, door, listed, bell, fvars, lvars, pvars, faults>>

\* systemd sees the unit's main process end.
UnitEnds ==
    /\ unit /\ kpc = "none"
    /\ unit' = FALSE
    /\ UNCHANGED <<runs, kvars, bell, fvars, lvars, pvars, faults>>

-----------------------------------------------------------------------------
(* A launch: up_instance, then container-enter. *)

Goes(l, pc) == lpc' = [lpc EXCEPT ![l] = pc]

\* It looks whether the instance is up.
Begin(l) ==
    /\ lpc[l] = "none"
    /\ Goes(l, IF up THEN "open" ELSE "wait")
    /\ phase' = [phase EXCEPT ![l] = IF up THEN "enter" ELSE "up"]
    /\ UNCHANGED <<uvars, kvars, bell, fvars, tries, inode, holders, owes, into,
                   pvars, faults>>

\* instance::wait_ending: the lock of one on its way out waited for, and let
\* go - where there is one.
WaitEnding(l) ==
    /\ lpc[l] = "wait"
    /\ IF file = 0
       THEN Goes(l, "start") /\ UNCHANGED inode
       ELSE Goes(l, "waiting") /\ inode' = [inode EXCEPT ![l] = file]
    /\ UNCHANGED <<uvars, kvars, bell, fvars, phase, tries, holders, owes, into,
                   pvars, faults>>

Waited(l) ==
    /\ lpc[l] = "waiting"
    /\ Shareable(l)
    /\ Goes(l, "start")
    /\ inode' = [inode EXCEPT ![l] = 0]
    /\ UNCHANGED <<uvars, kvars, bell, fvars, phase, tries, holders, owes, into,
                   pvars, faults>>

\* systemctl start: nothing where the unit is active; else a keeper, waited
\* for until it is ready or has failed.
StartUnit(l) ==
    /\ lpc[l] = "start"
    /\ IF ~unit /\ runs < MaxRuns
       THEN /\ unit' = TRUE
            /\ runs' = runs + 1
            /\ kpc' = "setup"
            /\ dir' = TRUE
       ELSE UNCHANGED <<uvars, kpc, dir>>
    /\ Goes(l, "starting")
    /\ UNCHANGED <<up, door, armed, known, listed, klock, excl, bell, file,
                   inodes, phase, tries, inode, holders, owes, into, pvars,
                   faults>>

\* up_instance looks again, twice in all; container-enter opens the lock.
Started(l) ==
    /\ lpc[l] = "starting"
    /\ kpc # "setup"
    /\ IF phase[l] = "enter" \/ up
       THEN /\ Goes(l, "open")
            /\ phase' = [phase EXCEPT ![l] = "enter"]
            /\ tries' = [tries EXCEPT ![l] = IF phase[l] = "up" THEN 0 ELSE @]
       ELSE /\ Goes(l, IF tries[l] = 0 THEN "wait" ELSE "failed")
            /\ tries' = [tries EXCEPT ![l] = 1 - @]
            /\ UNCHANGED phase
    /\ UNCHANGED <<uvars, kvars, bell, fvars, inode, holders, owes, into, pvars,
                   faults>>

\* Mutant of NextAttempt: tried for as long as it takes.
NextAttemptAlways(l) ==
    /\ Goes(l, "start")
    /\ tries' = [tries EXCEPT ![l] = @ + 1]
    /\ UNCHANGED owes

\* held_instance's second attempt starts the instance; there is no third, and
\* the doorbell is rung.
NextAttempt(l) ==
    IF tries[l] = 0
    THEN /\ Goes(l, "start")
         /\ tries' = [tries EXCEPT ![l] = 1]
         /\ UNCHANGED owes
    ELSE /\ Goes(l, "failed")
         /\ tries' = [tries EXCEPT ![l] = 0]
         /\ owes' = owes \cup {l}

Open(l) ==
    /\ lpc[l] = "open"
    /\ IF dir
       THEN /\ OpenLock
            /\ inode' = [inode EXCEPT ![l] = Opened]
            /\ Goes(l, "locking")
            /\ UNCHANGED <<tries, owes>>
       ELSE NextAttempt(l) /\ UNCHANGED <<file, inodes, inode>>
    /\ UNCHANGED <<uvars, kvars, bell, dir, phase, holders, into, pvars, faults>>

LockShared(l) ==
    /\ lpc[l] = "locking"
    /\ Shareable(l)
    /\ Goes(l, "checking")
    /\ holders' = holders \cup {l}
    /\ UNCHANGED <<uvars, kvars, bell, fvars, phase, tries, inode, owes, into,
                   pvars, faults>>

\* The instance up, by the lock it holds - whichever file that is by now.
Hold(l) ==
    /\ lpc[l] = "checking"
    /\ IF up
       THEN /\ Goes(l, "held")
            /\ into' = [into EXCEPT ![l] = runs]
            /\ tries' = [tries EXCEPT ![l] = 0]
            /\ UNCHANGED <<inode, holders, owes>>
       ELSE /\ NextAttempt(l)
            /\ holders' = holders \ {l}
            /\ inode' = [inode EXCEPT ![l] = 0]
            /\ UNCHANGED into
    /\ UNCHANGED <<uvars, kvars, bell, fvars, phase, pvars, faults>>

\* enter::run: into the space's namespaces, and the fork - if they are there.
Fork(l) ==
    /\ lpc[l] = "held"
    /\ Goes(l, IF up /\ into[l] = runs THEN "forked" ELSE "failed")
    /\ UNCHANGED <<uvars, kvars, bell, fvars, phase, tries, inode, holders, owes,
                   into, pvars, faults>>

\* Something it prepares fails: it goes, with the lock and its ring - where it
\* is the strict controller that is not ready, without the ring.
EntryFails(l) ==
    /\ lpc[l] = "held"
    /\ Fault
    /\ Goes(l, "failed")
    /\ holders' = holders \ {l}
    /\ owes' \in {owes \cup {l}} \cup (IF Strict THEN {owes} ELSE {})
    /\ inode' = [inode EXCEPT ![l] = 0]
    /\ UNCHANGED <<uvars, kvars, bell, fvars, phase, tries, into, pvars>>

\* REGISTER, answered from the keeper's poll.
Register(l) ==
    /\ Strict
    /\ kpc = "poll"
    /\ lpc[l] = "forked" /\ l \in holders
    /\ Goes(l, "registered")
    /\ UNCHANGED <<uvars, kvars, bell, fvars, phase, tries, inode, holders, owes,
                   into, pvars, faults>>

\* The gate passed - in time even where the waiter is killed right after -
\* or none there: the program is there.
Exec(l) ==
    /\ lpc[l] = IF Strict THEN "registered" ELSE "forked"
    /\ Goes(l, "running")
    /\ pids < MaxPids
    /\ pids' = pids + 1
    /\ main' = [main EXCEPT ![l] = pids + 1]
    /\ alive' = alive \cup {pids + 1}
    /\ UNCHANGED <<uvars, kvars, bell, fvars, phase, tries, inode, holders, owes,
                   into, faults>>

\* The strict gate without its waiter: the child is not executed.
Denied(l) ==
    /\ Strict
    /\ lpc[l] \in {"forked", "registered"} /\ l \notin holders
    /\ Goes(l, "failed")
    /\ UNCHANGED <<uvars, kvars, bell, fvars, phase, tries, inode, holders, owes,
                   into, pvars, faults>>

\* Mutant of Drop: rung before the lock goes.
RingThenDrop(l) ==
    /\ l \in holders
    /\ lpc[l] \in {"running", "failed"}
    /\ IF l \in owes
       THEN holders' = holders \ {l} /\ owes' = owes \ {l} /\ UNCHANGED bell
       ELSE owes' = owes \cup {l} /\ RingHeard /\ UNCHANGED holders
    /\ UNCHANGED <<uvars, kvars, fvars, lpc, phase, tries, inode, into, pvars,
                   faults>>

\* The program is in, or will not be: the lock goes, then the ring.
Drop(l) ==
    /\ l \in holders
    /\ lpc[l] \in {"running", "failed"}
    /\ holders' = holders \ {l}
    /\ owes' = owes \cup {l}
    /\ UNCHANGED <<uvars, kvars, bell, fvars, lpc, phase, tries, inode, into,
                   pvars, faults>>

Ring(l) ==
    /\ l \in owes /\ l \notin holders
    /\ owes' = owes \ {l}
    /\ RingHeard
    /\ UNCHANGED <<uvars, kvars, fvars, lpc, phase, tries, inode, holders, into,
                   pvars, faults>>

\* The waiter is killed: the lock and the ring go with it, the child does not.
WaiterDies(l) ==
    /\ l \in holders \cup owes
    /\ Fault
    /\ holders' = holders \ {l}
    /\ owes' = owes \ {l}
    /\ inode' = [inode EXCEPT ![l] = 0]
    /\ lpc' = [lpc EXCEPT ![l] = IF @ \in {"checking", "held"} THEN "failed" ELSE @]
    /\ UNCHANGED <<uvars, kvars, bell, fvars, phase, tries, into, pvars>>

-----------------------------------------------------------------------------
(* The programs. *)

ForkProgram ==
    /\ alive # {}
    /\ pids < MaxPids - Cardinality({l \in Launches : main[l] = 0})
    /\ pids' = pids + 1
    /\ alive' = alive \cup {pids + 1}
    /\ UNCHANGED <<uvars, kvars, bell, fvars, lvars, main, faults>>

EndProgram(p) ==
    /\ alive' = alive \ {p}
    /\ UNCHANGED <<uvars, kvars, bell, fvars, lvars, main, pids, faults>>

-----------------------------------------------------------------------------
Look == Check \/ TryLock \/ Recheck

End == EndSpace \/ Unlink \/ RemoveDir \/ Exit

Keeper == SetUp \/ OpenDoor \/ Turn(FALSE) \/ SpaceGone \/ Look \/ End

Waiter(l) == \/ WaitEnding(l) \/ Waited(l) \/ StartUnit(l) \/ Started(l)
             \/ Open(l) \/ LockShared(l) \/ Hold(l) \/ Fork(l)
             \/ Exec(l) \/ Denied(l) \/ Drop(l) \/ Ring(l)

Launch(l) == Begin(l) \/ Waiter(l) \/ Register(l) \/ EntryFails(l) \/ WaiterDies(l)

Next == \/ Keeper \/ Turn(TRUE) \/ SetUpFails \/ Stop \/ SpaceDies \/ UnitEnds
        \/ \E l \in Launches : Launch(l)
        \/ ForkProgram \/ \E p \in alive : EndProgram(p)

Spec == Init /\ [][Next]_vars

\* The keeper, a launch's processes and systemd go on; a request for the
\* keeper's word waits in its socket until the poll hears it.
Fairness == /\ WF_vars(Keeper) /\ WF_vars(UnitEnds)
            /\ \A l \in Launches : WF_vars(Waiter(l)) /\ SF_vars(Register(l))

FairSpec == Spec /\ Fairness

-----------------------------------------------------------------------------
(* Properties. *)

\* The type of every variable.
TypeOK ==
    /\ unit \in BOOLEAN /\ runs \in Nat
    /\ kpc \in {"none", "setup", "opening", "poll", "check", "trylock", "recheck",
                "closing", "unlink", "rmdir", "exit"}
    /\ up \in BOOLEAN /\ door \in BOOLEAN /\ bell \in BOOLEAN
    /\ armed \in BOOLEAN
    /\ known \subseteq Nat /\ listed \subseteq Nat
    /\ dir \in BOOLEAN /\ file \in Nat /\ inodes \in Nat
    /\ klock \in Nat /\ excl \in BOOLEAN
    /\ lpc \in [Launches -> {"none", "wait", "waiting", "start", "starting",
                             "open", "locking", "checking", "held", "forked",
                             "registered", "running", "failed"}]
    /\ phase \in [Launches -> {"up", "enter"}]
    /\ tries \in [Launches -> {0, 1}] /\ inode \in [Launches -> Nat]
    /\ holders \subseteq Launches /\ owes \subseteq Launches
    /\ into \in [Launches -> Nat] /\ main \in [Launches -> Nat]
    /\ pids \in Nat /\ alive \subseteq Nat
    /\ faults \in Nat

\* The space ended by an idle end, which has the lock.
IdleEnd == kpc = "closing" /\ kpc' = "unlink" /\ excl

\* A launch that took this instance's own lock is not ended by its idle end:
\* not on its way in, and its program not if it is there (zone.rs keep, the
\* look once more under the lock).
IdleEndsNobody ==
    [][IdleEnd => \A l \in Launches :
            inode[l] = klock => ~Entering(l) /\ main[l] \notin alive]_vars

\* The doorbell is what ends an instance: when a launch has rung, and its
\* programs are gone and nobody is on the way in, it does not stay - unless a
\* launch went without its ring, or was killed.
Vacant == up /\ armed /\ alive = {} /\ holders = {}
VacantEnds == [](faults = 0) => (Vacant ~> ~Vacant)

\* A launch that waits for an instance on its way out, starts it or enters it
\* gets in or is told no.
LaunchSettles ==
    \A l \in Launches : lpc[l] \notin {"none", "running", "failed"}
                            ~> lpc[l] \in {"running", "failed"}

\* "no launch gets in while the instance goes" (zone.rs 2762): an idle end
\* meets no launch on its way in, whichever file its lock is.
IdleEndMeetsNoLaunch ==
    [][IdleEnd => \A l \in Launches : ~(Entering(l) /\ into[l] = runs)]_vars
=============================================================================
