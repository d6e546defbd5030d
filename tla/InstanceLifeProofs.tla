-------------------------- MODULE InstanceLifeProofs --------------------------
(***************************************************************************)
(* What holds of InstanceLife for any number of launches and every bound:  *)
(* its types, and that an idle end of the instance ends no launch that     *)
(* went in under the instance's own lock.                                  *)
(***************************************************************************)
EXTENDS InstanceLife, TLAPS

-----------------------------------------------------------------------------
(* The inductive invariant. *)

\* The keeper's lock: opened before anything asks for it, held from the last
\* look on and no sooner.
KeeperInv ==
    /\ unit = FALSE => kpc = "none"
    /\ kpc \notin {"none", "setup"} => klock # 0
    /\ excl => kpc \in {"recheck", "closing", "unlink", "rmdir", "exit"}

\* The launches' shared locks: who is on its way in under a lock holds it, and
\* nobody holds the one the keeper has for itself.
LockInv ==
    /\ \A l \in holders : lpc[l] \in {"checking", "held", "forked", "registered",
                                      "running", "failed"}
    /\ \A l \in Launches :
          lpc[l] = "checking" \/ Entering(l) => inode[l] = 0 \/ l \in holders
    /\ excl => \A l \in holders : inode[l] # klock

\* A launch's program is there once it is executed, and only then.
ProgramInv ==
    /\ \A p \in alive : p # 0 /\ p <= pids
    /\ \A l \in Launches : main[l] <= pids /\ (main[l] # 0 => lpc[l] = "running")

\* Under the lock, the programs of the launches that had it are listed by the
\* last look, and then are gone.
EndInv ==
    /\ kpc = "recheck" => excl
    /\ kpc = "recheck" => \A l \in Launches :
          inode[l] = klock /\ main[l] \in alive => main[l] \in listed
    /\ kpc = "closing" /\ excl => \A l \in Launches :
          inode[l] = klock => main[l] \notin alive

IInv == TypeOK /\ KeeperInv /\ LockInv /\ ProgramInv /\ EndInv

-----------------------------------------------------------------------------
(* Every step keeps each part of it. *)

LEMMA TypeKept ==
  ASSUME TypeOK, [Next]_vars
  PROVE  TypeOK'
<1>1. SetUp => TypeOK'
  BY DEF TypeOK, SetUp, OpenLock, Opened, uvars, kvars, fvars, lvars, pvars
<1>2. SetUpFails => TypeOK'
  BY DEF TypeOK, SetUpFails, Fault, uvars, kvars, fvars, lvars, pvars
<1>3. OpenDoor => TypeOK'
  BY DEF TypeOK, OpenDoor, uvars, kvars, fvars, lvars, pvars
<1>4. ASSUME NEW r \in BOOLEAN, Turn(r) PROVE TypeOK'
  BY <1>4 DEF TypeOK, Turn, List, uvars, kvars, fvars, lvars, pvars
<1>5. Check => TypeOK'
  BY DEF TypeOK, Check, Members, uvars, kvars, fvars, lvars, pvars
<1>6. TryLock => TypeOK'
  BY DEF TypeOK, TryLock, List, Sharers, uvars, kvars, fvars, lvars, pvars
<1>7. Recheck => TypeOK'
  BY DEF TypeOK, Recheck, Members, uvars, kvars, fvars, lvars, pvars
<1>8. Stop => TypeOK'
  <2> SUFFICES ASSUME Stop PROVE TypeOK'
    OBVIOUS
  <2>1. /\ kpc' = "closing" /\ door' = FALSE /\ bell' = FALSE
        /\ faults' = faults + 1
    BY DEF Stop, Fault
  <2>2. UNCHANGED <<uvars, up, armed, known, listed, klock, excl, fvars, lvars,
                    pvars>>
    BY DEF Stop
  <2>3. door' \in BOOLEAN /\ bell' \in BOOLEAN
    BY <2>1
  <2>4. faults' \in Nat
    BY <2>1 DEF TypeOK
  <2>5. kpc' \in {"none", "setup", "opening", "poll", "check", "trylock",
                  "recheck", "closing", "unlink", "rmdir", "exit"}
    BY <2>1
  <2> QED
    BY <2>2, <2>3, <2>4, <2>5 DEF TypeOK, uvars, fvars, lvars, pvars
<1>9. EndSpace => TypeOK'
  BY DEF TypeOK, EndSpace, SpaceGoes, uvars, kvars, fvars, lvars, pvars
<1>10. SpaceDies => TypeOK'
  <2> SUFFICES ASSUME SpaceDies PROVE TypeOK'
    OBVIOUS
  <2>1. lpc' \in [Launches -> {"none", "wait", "waiting", "start", "starting",
                               "open", "locking", "checking", "held", "forked",
                               "registered", "running", "failed"}]
    BY DEF TypeOK, SpaceDies, SpaceGoes
  <2>2. /\ up' = FALSE /\ alive' = {}
        /\ faults' = faults + 1
    BY DEF SpaceDies, SpaceGoes, Fault
  <2>3. faults' \in Nat
    BY <2>2 DEF TypeOK
  <2>4. UNCHANGED <<uvars, kpc, door, armed, known, listed, klock, excl, fvars,
                    bell, phase, tries, inode, holders, owes, into, main, pids>>
    BY DEF SpaceDies
  <2> QED
    BY <2>1, <2>2, <2>3, <2>4 DEF TypeOK, uvars, fvars
<1>11. SpaceGone => TypeOK'
  BY DEF TypeOK, SpaceGone, uvars, kvars, fvars, lvars, pvars
<1>12. Unlink => TypeOK'
  BY DEF TypeOK, Unlink, uvars, kvars, fvars, lvars, pvars
<1>13. RemoveDir => TypeOK'
  BY DEF TypeOK, RemoveDir, uvars, kvars, fvars, lvars, pvars
<1>14. Exit => TypeOK'
  <2> SUFFICES ASSUME Exit PROVE TypeOK'
    OBVIOUS
  <2>1. /\ kpc' = "none" /\ excl' = FALSE /\ klock' = 0
        /\ armed' = FALSE /\ known' = {}
    BY DEF Exit
  <2>2. UNCHANGED <<uvars, up, door, listed, bell, fvars, lvars, pvars, faults>>
    BY DEF Exit
  <2> QED
    BY <2>1, <2>2 DEF TypeOK, uvars, fvars, lvars, pvars
<1>15. UnitEnds => TypeOK'
  BY DEF TypeOK, UnitEnds, uvars, kvars, fvars, lvars, pvars
<1>16. ASSUME NEW l \in Launches, Begin(l) PROVE TypeOK'
  BY <1>16 DEF TypeOK, Begin, Goes, uvars, kvars, fvars, lvars, pvars
<1>17. ASSUME NEW l \in Launches, WaitEnding(l) PROVE TypeOK'
  BY <1>17 DEF TypeOK, WaitEnding, Goes, uvars, kvars, fvars, lvars, pvars
<1>18. ASSUME NEW l \in Launches, Waited(l) PROVE TypeOK'
  BY <1>18 DEF TypeOK, Waited, Goes, uvars, kvars, fvars, lvars, pvars
<1>19. ASSUME NEW l \in Launches, StartUnit(l) PROVE TypeOK'
  <2>1. lpc' \in [Launches -> {"none", "wait", "waiting", "start", "starting",
                               "open", "locking", "checking", "held", "forked",
                               "registered", "running", "failed"}]
    BY <1>19 DEF TypeOK, StartUnit, Goes
  <2>2. \/ unit' = TRUE /\ runs' = runs + 1 /\ kpc' = "setup" /\ dir' = TRUE
        \/ unit' = unit /\ runs' = runs /\ kpc' = kpc /\ dir' = dir
    BY <1>19 DEF StartUnit, uvars
  <2>3. unit' \in BOOLEAN /\ dir' \in BOOLEAN
    <3>1. unit \in BOOLEAN /\ dir \in BOOLEAN
      BY DEF TypeOK
    <3> QED
      BY <2>2, <3>1
  <2>4. runs' \in Nat
    BY <2>2 DEF TypeOK
  <2>5. kpc' \in {"none", "setup", "opening", "poll", "check", "trylock",
                  "recheck", "closing", "unlink", "rmdir", "exit"}
    BY <2>2 DEF TypeOK
  <2>6. UNCHANGED <<up, door, armed, known, listed, klock, excl, bell, file,
                    inodes, phase, tries, inode, holders, owes, into, pvars,
                    faults>>
    BY <1>19 DEF StartUnit
  <2> QED
    BY <2>1, <2>3, <2>4, <2>5, <2>6 DEF TypeOK, pvars
<1>20. ASSUME NEW l \in Launches, Started(l) PROVE TypeOK'
  BY <1>20 DEF TypeOK, Started, Goes, uvars, kvars, fvars, lvars, pvars
<1>21. ASSUME NEW l \in Launches, Open(l) PROVE TypeOK'
  BY <1>21 DEF TypeOK, Open, Goes, OpenLock, Opened, NextAttempt, uvars, kvars,
         fvars, lvars, pvars
<1>22. ASSUME NEW l \in Launches, LockShared(l) PROVE TypeOK'
  BY <1>22 DEF TypeOK, LockShared, Goes, Shareable, uvars, kvars, fvars, lvars,
         pvars
<1>23. ASSUME NEW l \in Launches, Hold(l) PROVE TypeOK'
  BY <1>23 DEF TypeOK, Hold, Goes, NextAttempt, uvars, kvars, fvars, lvars,
         pvars
<1>24. ASSUME NEW l \in Launches, Fork(l) PROVE TypeOK'
  BY <1>24 DEF TypeOK, Fork, Goes, uvars, kvars, fvars, lvars, pvars
<1>25. ASSUME NEW l \in Launches, EntryFails(l) PROVE TypeOK'
  BY <1>25 DEF TypeOK, EntryFails, Goes, Fault, uvars, kvars, fvars, lvars,
         pvars
<1>26. ASSUME NEW l \in Launches, Register(l) PROVE TypeOK'
  BY <1>26 DEF TypeOK, Register, Goes, uvars, kvars, fvars, lvars, pvars
<1>27. ASSUME NEW l \in Launches, Exec(l) PROVE TypeOK'
  BY <1>27 DEF TypeOK, Exec, Goes, uvars, kvars, fvars, lvars, pvars
<1>28. ASSUME NEW l \in Launches, Denied(l) PROVE TypeOK'
  BY <1>28 DEF TypeOK, Denied, Goes, uvars, kvars, fvars, lvars, pvars
<1>29. ASSUME NEW l \in Launches, Drop(l) PROVE TypeOK'
  BY <1>29 DEF TypeOK, Drop, uvars, kvars, fvars, lvars, pvars
<1>30. ASSUME NEW l \in Launches, Ring(l) PROVE TypeOK'
  BY <1>30 DEF TypeOK, Ring, RingHeard, uvars, kvars, fvars, lvars, pvars
<1>31. ASSUME NEW l \in Launches, WaiterDies(l) PROVE TypeOK'
  BY <1>31 DEF TypeOK, WaiterDies, Fault, uvars, kvars, fvars, lvars, pvars
<1>32. ForkProgram => TypeOK'
  BY DEF TypeOK, ForkProgram, uvars, kvars, fvars, lvars, pvars
<1>33. ASSUME NEW p \in alive, EndProgram(p) PROVE TypeOK'
  BY <1>33 DEF TypeOK, EndProgram, uvars, kvars, fvars, lvars, pvars
<1>34. UNCHANGED vars => TypeOK'
  BY DEF TypeOK, vars, uvars, kvars, fvars, lvars, pvars
<1> QED
  BY <1>1, <1>2, <1>3, <1>4, <1>5, <1>6, <1>7, <1>8, <1>9, <1>10, <1>11, <1>12,
     <1>13, <1>14, <1>15, <1>16, <1>17, <1>18, <1>19, <1>20, <1>21, <1>22,
     <1>23, <1>24, <1>25, <1>26, <1>27, <1>28, <1>29, <1>30, <1>31, <1>32,
     <1>33, <1>34
     DEF Next, Keeper, Look, End, Launch, Waiter

LEMMA KeeperKept ==
  ASSUME TypeOK, KeeperInv, [Next]_vars
  PROVE  KeeperInv'
<1>1. SetUp => KeeperInv'
  BY DEF TypeOK, KeeperInv, SetUp, OpenLock, Opened, uvars, kvars, fvars,
         lvars, pvars
<1>2. SetUpFails => KeeperInv'
  BY DEF TypeOK, KeeperInv, SetUpFails, Fault, uvars, kvars, fvars, lvars,
         pvars
<1>3. OpenDoor => KeeperInv'
  BY DEF TypeOK, KeeperInv, OpenDoor, uvars, kvars, fvars, lvars, pvars
<1>4. ASSUME NEW r \in BOOLEAN, Turn(r) PROVE KeeperInv'
  BY <1>4 DEF TypeOK, KeeperInv, Turn, List, uvars, kvars, fvars, lvars, pvars
<1>5. Check => KeeperInv'
  BY DEF TypeOK, KeeperInv, Check, Members, uvars, kvars, fvars, lvars, pvars
<1>6. TryLock => KeeperInv'
  BY DEF TypeOK, KeeperInv, TryLock, List, Sharers, uvars, kvars, fvars, lvars,
         pvars
<1>7. Recheck => KeeperInv'
  BY DEF TypeOK, KeeperInv, Recheck, Members, uvars, kvars, fvars, lvars, pvars
<1>8. Stop => KeeperInv'
  BY DEF TypeOK, KeeperInv, Stop, Fault, uvars, kvars, fvars, lvars, pvars
<1>9. EndSpace => KeeperInv'
  BY DEF TypeOK, KeeperInv, EndSpace, SpaceGoes, uvars, kvars, fvars, lvars,
         pvars
<1>10. SpaceDies => KeeperInv'
  BY DEF TypeOK, KeeperInv, SpaceDies, SpaceGoes, Fault, uvars, kvars, fvars,
         lvars, pvars
<1>11. SpaceGone => KeeperInv'
  BY DEF TypeOK, KeeperInv, SpaceGone, uvars, kvars, fvars, lvars, pvars
<1>12. Unlink => KeeperInv'
  BY DEF TypeOK, KeeperInv, Unlink, uvars, kvars, fvars, lvars, pvars
<1>13. RemoveDir => KeeperInv'
  BY DEF TypeOK, KeeperInv, RemoveDir, uvars, kvars, fvars, lvars, pvars
<1>14. Exit => KeeperInv'
  BY DEF TypeOK, KeeperInv, Exit, uvars, kvars, fvars, lvars, pvars
<1>15. UnitEnds => KeeperInv'
  BY DEF TypeOK, KeeperInv, UnitEnds, uvars, kvars, fvars, lvars, pvars
<1>16. ASSUME NEW l \in Launches, Begin(l) PROVE KeeperInv'
  BY <1>16 DEF TypeOK, KeeperInv, Begin, Goes, uvars, kvars, fvars, lvars,
         pvars
<1>17. ASSUME NEW l \in Launches, WaitEnding(l) PROVE KeeperInv'
  BY <1>17 DEF TypeOK, KeeperInv, WaitEnding, Goes, uvars, kvars, fvars, lvars,
         pvars
<1>18. ASSUME NEW l \in Launches, Waited(l) PROVE KeeperInv'
  BY <1>18 DEF TypeOK, KeeperInv, Waited, Goes, uvars, kvars, fvars, lvars,
         pvars
<1>19. ASSUME NEW l \in Launches, StartUnit(l) PROVE KeeperInv'
  BY <1>19 DEF TypeOK, KeeperInv, StartUnit, Goes, uvars, kvars, fvars, lvars,
         pvars
<1>20. ASSUME NEW l \in Launches, Started(l) PROVE KeeperInv'
  BY <1>20 DEF TypeOK, KeeperInv, Started, Goes, uvars, kvars, fvars, lvars,
         pvars
<1>21. ASSUME NEW l \in Launches, Open(l) PROVE KeeperInv'
  BY <1>21 DEF TypeOK, KeeperInv, Open, Goes, OpenLock, Opened, NextAttempt,
         uvars, kvars, fvars, lvars, pvars
<1>22. ASSUME NEW l \in Launches, LockShared(l) PROVE KeeperInv'
  BY <1>22 DEF TypeOK, KeeperInv, LockShared, Goes, Shareable, uvars, kvars,
         fvars, lvars, pvars
<1>23. ASSUME NEW l \in Launches, Hold(l) PROVE KeeperInv'
  BY <1>23 DEF TypeOK, KeeperInv, Hold, Goes, NextAttempt, uvars, kvars, fvars,
         lvars, pvars
<1>24. ASSUME NEW l \in Launches, Fork(l) PROVE KeeperInv'
  BY <1>24 DEF TypeOK, KeeperInv, Fork, Goes, uvars, kvars, fvars, lvars, pvars
<1>25. ASSUME NEW l \in Launches, EntryFails(l) PROVE KeeperInv'
  BY <1>25 DEF TypeOK, KeeperInv, EntryFails, Goes, Fault, uvars, kvars, fvars,
         lvars, pvars
<1>26. ASSUME NEW l \in Launches, Register(l) PROVE KeeperInv'
  BY <1>26 DEF TypeOK, KeeperInv, Register, Goes, uvars, kvars, fvars, lvars,
         pvars
<1>27. ASSUME NEW l \in Launches, Exec(l) PROVE KeeperInv'
  BY <1>27 DEF TypeOK, KeeperInv, Exec, Goes, uvars, kvars, fvars, lvars, pvars
<1>28. ASSUME NEW l \in Launches, Denied(l) PROVE KeeperInv'
  BY <1>28 DEF TypeOK, KeeperInv, Denied, Goes, uvars, kvars, fvars, lvars,
         pvars
<1>29. ASSUME NEW l \in Launches, Drop(l) PROVE KeeperInv'
  BY <1>29 DEF TypeOK, KeeperInv, Drop, uvars, kvars, fvars, lvars, pvars
<1>30. ASSUME NEW l \in Launches, Ring(l) PROVE KeeperInv'
  BY <1>30 DEF TypeOK, KeeperInv, Ring, RingHeard, uvars, kvars, fvars, lvars,
         pvars
<1>31. ASSUME NEW l \in Launches, WaiterDies(l) PROVE KeeperInv'
  BY <1>31 DEF TypeOK, KeeperInv, WaiterDies, Fault, uvars, kvars, fvars,
         lvars, pvars
<1>32. ForkProgram => KeeperInv'
  BY DEF TypeOK, KeeperInv, ForkProgram, uvars, kvars, fvars, lvars, pvars
<1>33. ASSUME NEW p \in alive, EndProgram(p) PROVE KeeperInv'
  BY <1>33 DEF TypeOK, KeeperInv, EndProgram, uvars, kvars, fvars, lvars, pvars
<1>34. UNCHANGED vars => KeeperInv'
  BY DEF TypeOK, KeeperInv, vars, uvars, kvars, fvars, lvars, pvars
<1> QED
  BY <1>1, <1>2, <1>3, <1>4, <1>5, <1>6, <1>7, <1>8, <1>9, <1>10, <1>11, <1>12,
     <1>13, <1>14, <1>15, <1>16, <1>17, <1>18, <1>19, <1>20, <1>21, <1>22,
     <1>23, <1>24, <1>25, <1>26, <1>27, <1>28, <1>29, <1>30, <1>31, <1>32,
     <1>33, <1>34
     DEF Next, Keeper, Look, End, Launch, Waiter

LEMMA LockKept ==
  ASSUME TypeOK, KeeperInv, LockInv, [Next]_vars
  PROVE  LockInv'
<1>1. SetUp => LockInv'
  BY DEF TypeOK, KeeperInv, LockInv, Entering, SetUp, OpenLock, Opened, uvars,
         kvars, fvars, lvars, pvars
<1>2. SetUpFails => LockInv'
  BY DEF TypeOK, KeeperInv, LockInv, Entering, SetUpFails, Fault, uvars, kvars,
         fvars, lvars, pvars
<1>3. OpenDoor => LockInv'
  BY DEF TypeOK, KeeperInv, LockInv, Entering, OpenDoor, uvars, kvars, fvars,
         lvars, pvars
<1>4. ASSUME NEW r \in BOOLEAN, Turn(r) PROVE LockInv'
  BY <1>4 DEF TypeOK, KeeperInv, LockInv, Entering, Turn, List, uvars, kvars,
         fvars, lvars, pvars
<1>5. Check => LockInv'
  BY DEF TypeOK, KeeperInv, LockInv, Entering, Check, Members, uvars, kvars,
         fvars, lvars, pvars
<1>6. TryLock => LockInv'
  BY DEF TypeOK, KeeperInv, LockInv, Entering, TryLock, List, Sharers, uvars,
         kvars, fvars, lvars, pvars
<1>7. Recheck => LockInv'
  BY DEF TypeOK, KeeperInv, LockInv, Entering, Recheck, Members, uvars, kvars,
         fvars, lvars, pvars
<1>8. Stop => LockInv'
  BY DEF TypeOK, KeeperInv, LockInv, Entering, Stop, Fault, uvars, kvars,
         fvars, lvars, pvars
<1>9. EndSpace => LockInv'
  BY DEF TypeOK, KeeperInv, LockInv, Entering, EndSpace, SpaceGoes, uvars,
         kvars, fvars, lvars, pvars
<1>10. SpaceDies => LockInv'
  BY DEF TypeOK, KeeperInv, LockInv, Entering, SpaceDies, SpaceGoes, Fault,
         uvars, kvars, fvars, lvars, pvars
<1>11. SpaceGone => LockInv'
  BY DEF TypeOK, KeeperInv, LockInv, Entering, SpaceGone, uvars, kvars, fvars,
         lvars, pvars
<1>12. Unlink => LockInv'
  BY DEF TypeOK, KeeperInv, LockInv, Entering, Unlink, uvars, kvars, fvars,
         lvars, pvars
<1>13. RemoveDir => LockInv'
  BY DEF TypeOK, KeeperInv, LockInv, Entering, RemoveDir, uvars, kvars, fvars,
         lvars, pvars
<1>14. Exit => LockInv'
  BY DEF TypeOK, KeeperInv, LockInv, Entering, Exit, uvars, kvars, fvars,
         lvars, pvars
<1>15. UnitEnds => LockInv'
  BY DEF TypeOK, KeeperInv, LockInv, Entering, UnitEnds, uvars, kvars, fvars,
         lvars, pvars
<1>16. ASSUME NEW l \in Launches, Begin(l) PROVE LockInv'
  BY <1>16 DEF TypeOK, KeeperInv, LockInv, Entering, Begin, Goes, uvars, kvars,
         fvars, lvars, pvars
<1>17. ASSUME NEW l \in Launches, WaitEnding(l) PROVE LockInv'
  BY <1>17 DEF TypeOK, KeeperInv, LockInv, Entering, WaitEnding, Goes, uvars,
         kvars, fvars, lvars, pvars
<1>18. ASSUME NEW l \in Launches, Waited(l) PROVE LockInv'
  BY <1>18 DEF TypeOK, KeeperInv, LockInv, Entering, Waited, Goes, uvars,
         kvars, fvars, lvars, pvars
<1>19. ASSUME NEW l \in Launches, StartUnit(l) PROVE LockInv'
  BY <1>19 DEF TypeOK, KeeperInv, LockInv, Entering, StartUnit, Goes, uvars,
         kvars, fvars, lvars, pvars
<1>20. ASSUME NEW l \in Launches, Started(l) PROVE LockInv'
  BY <1>20 DEF TypeOK, KeeperInv, LockInv, Entering, Started, Goes, uvars,
         kvars, fvars, lvars, pvars
<1>21. ASSUME NEW l \in Launches, Open(l) PROVE LockInv'
  BY <1>21 DEF TypeOK, KeeperInv, LockInv, Entering, Open, Goes, OpenLock,
         Opened, NextAttempt, uvars, kvars, fvars, lvars, pvars
<1>22. ASSUME NEW l \in Launches, LockShared(l) PROVE LockInv'
  BY <1>22 DEF TypeOK, KeeperInv, LockInv, Entering, LockShared, Goes,
         Shareable, uvars, kvars, fvars, lvars, pvars
<1>23. ASSUME NEW l \in Launches, Hold(l) PROVE LockInv'
  BY <1>23 DEF TypeOK, KeeperInv, LockInv, Entering, Hold, Goes, NextAttempt,
         uvars, kvars, fvars, lvars, pvars
<1>24. ASSUME NEW l \in Launches, Fork(l) PROVE LockInv'
  BY <1>24 DEF TypeOK, KeeperInv, LockInv, Entering, Fork, Goes, uvars, kvars,
         fvars, lvars, pvars
<1>25. ASSUME NEW l \in Launches, EntryFails(l) PROVE LockInv'
  BY <1>25 DEF TypeOK, KeeperInv, LockInv, Entering, EntryFails, Goes, Fault,
         uvars, kvars, fvars, lvars, pvars
<1>26. ASSUME NEW l \in Launches, Register(l) PROVE LockInv'
  BY <1>26 DEF TypeOK, KeeperInv, LockInv, Entering, Register, Goes, uvars,
         kvars, fvars, lvars, pvars
<1>27. ASSUME NEW l \in Launches, Exec(l) PROVE LockInv'
  BY <1>27 DEF TypeOK, KeeperInv, LockInv, Entering, Exec, Goes, uvars, kvars,
         fvars, lvars, pvars
<1>28. ASSUME NEW l \in Launches, Denied(l) PROVE LockInv'
  BY <1>28 DEF TypeOK, KeeperInv, LockInv, Entering, Denied, Goes, uvars,
         kvars, fvars, lvars, pvars
<1>29. ASSUME NEW l \in Launches, Drop(l) PROVE LockInv'
  BY <1>29 DEF TypeOK, KeeperInv, LockInv, Entering, Drop, uvars, kvars, fvars,
         lvars, pvars
<1>30. ASSUME NEW l \in Launches, Ring(l) PROVE LockInv'
  BY <1>30 DEF TypeOK, KeeperInv, LockInv, Entering, Ring, RingHeard, uvars,
         kvars, fvars, lvars, pvars
<1>31. ASSUME NEW l \in Launches, WaiterDies(l) PROVE LockInv'
  BY <1>31 DEF TypeOK, KeeperInv, LockInv, Entering, WaiterDies, Fault, uvars,
         kvars, fvars, lvars, pvars
<1>32. ForkProgram => LockInv'
  BY DEF TypeOK, KeeperInv, LockInv, Entering, ForkProgram, uvars, kvars,
         fvars, lvars, pvars
<1>33. ASSUME NEW p \in alive, EndProgram(p) PROVE LockInv'
  BY <1>33 DEF TypeOK, KeeperInv, LockInv, Entering, EndProgram, uvars, kvars,
         fvars, lvars, pvars
<1>34. UNCHANGED vars => LockInv'
  BY DEF TypeOK, KeeperInv, LockInv, Entering, vars, uvars, kvars, fvars,
         lvars, pvars
<1> QED
  BY <1>1, <1>2, <1>3, <1>4, <1>5, <1>6, <1>7, <1>8, <1>9, <1>10, <1>11, <1>12,
     <1>13, <1>14, <1>15, <1>16, <1>17, <1>18, <1>19, <1>20, <1>21, <1>22,
     <1>23, <1>24, <1>25, <1>26, <1>27, <1>28, <1>29, <1>30, <1>31, <1>32,
     <1>33, <1>34
     DEF Next, Keeper, Look, End, Launch, Waiter

LEMMA ProgramKept ==
  ASSUME TypeOK, ProgramInv, [Next]_vars
  PROVE  ProgramInv'
<1>1. SetUp => ProgramInv'
  BY DEF TypeOK, ProgramInv, SetUp, OpenLock, Opened, uvars, kvars, fvars,
         lvars, pvars
<1>2. SetUpFails => ProgramInv'
  BY DEF TypeOK, ProgramInv, SetUpFails, Fault, uvars, kvars, fvars, lvars,
         pvars
<1>3. OpenDoor => ProgramInv'
  BY DEF TypeOK, ProgramInv, OpenDoor, uvars, kvars, fvars, lvars, pvars
<1>4. ASSUME NEW r \in BOOLEAN, Turn(r) PROVE ProgramInv'
  BY <1>4 DEF TypeOK, ProgramInv, Turn, List, uvars, kvars, fvars, lvars, pvars
<1>5. Check => ProgramInv'
  BY DEF TypeOK, ProgramInv, Check, Members, uvars, kvars, fvars, lvars, pvars
<1>6. TryLock => ProgramInv'
  BY DEF TypeOK, ProgramInv, TryLock, List, Sharers, uvars, kvars, fvars,
         lvars, pvars
<1>7. Recheck => ProgramInv'
  BY DEF TypeOK, ProgramInv, Recheck, Members, uvars, kvars, fvars, lvars,
         pvars
<1>8. Stop => ProgramInv'
  BY DEF TypeOK, ProgramInv, Stop, Fault, uvars, kvars, fvars, lvars, pvars
<1>9. EndSpace => ProgramInv'
  BY DEF TypeOK, ProgramInv, EndSpace, SpaceGoes, uvars, kvars, fvars, lvars,
         pvars
<1>10. SpaceDies => ProgramInv'
  BY DEF TypeOK, ProgramInv, SpaceDies, SpaceGoes, Fault, uvars, kvars, fvars,
         lvars, pvars
<1>11. SpaceGone => ProgramInv'
  BY DEF TypeOK, ProgramInv, SpaceGone, uvars, kvars, fvars, lvars, pvars
<1>12. Unlink => ProgramInv'
  BY DEF TypeOK, ProgramInv, Unlink, uvars, kvars, fvars, lvars, pvars
<1>13. RemoveDir => ProgramInv'
  BY DEF TypeOK, ProgramInv, RemoveDir, uvars, kvars, fvars, lvars, pvars
<1>14. Exit => ProgramInv'
  BY DEF TypeOK, ProgramInv, Exit, uvars, kvars, fvars, lvars, pvars
<1>15. UnitEnds => ProgramInv'
  BY DEF TypeOK, ProgramInv, UnitEnds, uvars, kvars, fvars, lvars, pvars
<1>16. ASSUME NEW l \in Launches, Begin(l) PROVE ProgramInv'
  BY <1>16 DEF TypeOK, ProgramInv, Begin, Goes, uvars, kvars, fvars, lvars,
         pvars
<1>17. ASSUME NEW l \in Launches, WaitEnding(l) PROVE ProgramInv'
  BY <1>17 DEF TypeOK, ProgramInv, WaitEnding, Goes, uvars, kvars, fvars,
         lvars, pvars
<1>18. ASSUME NEW l \in Launches, Waited(l) PROVE ProgramInv'
  BY <1>18 DEF TypeOK, ProgramInv, Waited, Goes, uvars, kvars, fvars, lvars,
         pvars
<1>19. ASSUME NEW l \in Launches, StartUnit(l) PROVE ProgramInv'
  BY <1>19 DEF TypeOK, ProgramInv, StartUnit, Goes, uvars, kvars, fvars, lvars,
         pvars
<1>20. ASSUME NEW l \in Launches, Started(l) PROVE ProgramInv'
  BY <1>20 DEF TypeOK, ProgramInv, Started, Goes, uvars, kvars, fvars, lvars,
         pvars
<1>21. ASSUME NEW l \in Launches, Open(l) PROVE ProgramInv'
  BY <1>21 DEF TypeOK, ProgramInv, Open, Goes, OpenLock, Opened, NextAttempt,
         uvars, kvars, fvars, lvars, pvars
<1>22. ASSUME NEW l \in Launches, LockShared(l) PROVE ProgramInv'
  BY <1>22 DEF TypeOK, ProgramInv, LockShared, Goes, Shareable, uvars, kvars,
         fvars, lvars, pvars
<1>23. ASSUME NEW l \in Launches, Hold(l) PROVE ProgramInv'
  BY <1>23 DEF TypeOK, ProgramInv, Hold, Goes, NextAttempt, uvars, kvars,
         fvars, lvars, pvars
<1>24. ASSUME NEW l \in Launches, Fork(l) PROVE ProgramInv'
  BY <1>24 DEF TypeOK, ProgramInv, Fork, Goes, uvars, kvars, fvars, lvars,
         pvars
<1>25. ASSUME NEW l \in Launches, EntryFails(l) PROVE ProgramInv'
  BY <1>25 DEF TypeOK, ProgramInv, EntryFails, Goes, Fault, uvars, kvars,
         fvars, lvars, pvars
<1>26. ASSUME NEW l \in Launches, Register(l) PROVE ProgramInv'
  BY <1>26 DEF TypeOK, ProgramInv, Register, Goes, uvars, kvars, fvars, lvars,
         pvars
<1>27. ASSUME NEW l \in Launches, Exec(l) PROVE ProgramInv'
  BY <1>27 DEF TypeOK, ProgramInv, Exec, Goes, uvars, kvars, fvars, lvars,
         pvars
<1>28. ASSUME NEW l \in Launches, Denied(l) PROVE ProgramInv'
  BY <1>28 DEF TypeOK, ProgramInv, Denied, Goes, uvars, kvars, fvars, lvars,
         pvars
<1>29. ASSUME NEW l \in Launches, Drop(l) PROVE ProgramInv'
  BY <1>29 DEF TypeOK, ProgramInv, Drop, uvars, kvars, fvars, lvars, pvars
<1>30. ASSUME NEW l \in Launches, Ring(l) PROVE ProgramInv'
  BY <1>30 DEF TypeOK, ProgramInv, Ring, RingHeard, uvars, kvars, fvars, lvars,
         pvars
<1>31. ASSUME NEW l \in Launches, WaiterDies(l) PROVE ProgramInv'
  BY <1>31 DEF TypeOK, ProgramInv, WaiterDies, Fault, uvars, kvars, fvars,
         lvars, pvars
<1>32. ForkProgram => ProgramInv'
  BY DEF TypeOK, ProgramInv, ForkProgram, uvars, kvars, fvars, lvars, pvars
<1>33. ASSUME NEW p \in alive, EndProgram(p) PROVE ProgramInv'
  BY <1>33 DEF TypeOK, ProgramInv, EndProgram, uvars, kvars, fvars, lvars,
         pvars
<1>34. UNCHANGED vars => ProgramInv'
  BY DEF TypeOK, ProgramInv, vars, uvars, kvars, fvars, lvars, pvars
<1> QED
  BY <1>1, <1>2, <1>3, <1>4, <1>5, <1>6, <1>7, <1>8, <1>9, <1>10, <1>11, <1>12,
     <1>13, <1>14, <1>15, <1>16, <1>17, <1>18, <1>19, <1>20, <1>21, <1>22,
     <1>23, <1>24, <1>25, <1>26, <1>27, <1>28, <1>29, <1>30, <1>31, <1>32,
     <1>33, <1>34
     DEF Next, Keeper, Look, End, Launch, Waiter

LEMMA EndKept ==
  ASSUME IInv, [Next]_vars
  PROVE  EndInv'
<1>1. SetUp => EndInv'
  BY DEF IInv, TypeOK, KeeperInv, LockInv, Entering, ProgramInv, EndInv, SetUp,
         OpenLock, Opened, uvars, kvars, fvars, lvars, pvars
<1>2. SetUpFails => EndInv'
  BY DEF IInv, TypeOK, KeeperInv, LockInv, Entering, ProgramInv, EndInv,
         SetUpFails, Fault, uvars, kvars, fvars, lvars, pvars
<1>3. OpenDoor => EndInv'
  BY DEF IInv, TypeOK, KeeperInv, LockInv, Entering, ProgramInv, EndInv,
         OpenDoor, uvars, kvars, fvars, lvars, pvars
<1>4. ASSUME NEW r \in BOOLEAN, Turn(r) PROVE EndInv'
  BY <1>4 DEF IInv, TypeOK, KeeperInv, LockInv, Entering, ProgramInv, EndInv,
         Turn, List, uvars, kvars, fvars, lvars, pvars
<1>5. Check => EndInv'
  BY DEF IInv, TypeOK, KeeperInv, LockInv, Entering, ProgramInv, EndInv, Check,
         Members, uvars, kvars, fvars, lvars, pvars
<1>6. TryLock => EndInv'
  BY DEF IInv, TypeOK, KeeperInv, LockInv, Entering, ProgramInv, EndInv,
         TryLock, List, Sharers, uvars, kvars, fvars, lvars, pvars
<1>7. Recheck => EndInv'
  BY DEF IInv, TypeOK, KeeperInv, LockInv, Entering, ProgramInv, EndInv,
         Recheck, Members, uvars, kvars, fvars, lvars, pvars
<1>8. Stop => EndInv'
  BY DEF IInv, TypeOK, KeeperInv, LockInv, Entering, ProgramInv, EndInv, Stop,
         Fault, uvars, kvars, fvars, lvars, pvars
<1>9. EndSpace => EndInv'
  BY DEF IInv, TypeOK, KeeperInv, LockInv, Entering, ProgramInv, EndInv,
         EndSpace, SpaceGoes, uvars, kvars, fvars, lvars, pvars
<1>10. SpaceDies => EndInv'
  BY DEF IInv, TypeOK, KeeperInv, LockInv, Entering, ProgramInv, EndInv,
         SpaceDies, SpaceGoes, Fault, uvars, kvars, fvars, lvars, pvars
<1>11. SpaceGone => EndInv'
  BY DEF IInv, TypeOK, KeeperInv, LockInv, Entering, ProgramInv, EndInv,
         SpaceGone, uvars, kvars, fvars, lvars, pvars
<1>12. Unlink => EndInv'
  BY DEF IInv, TypeOK, KeeperInv, LockInv, Entering, ProgramInv, EndInv,
         Unlink, uvars, kvars, fvars, lvars, pvars
<1>13. RemoveDir => EndInv'
  BY DEF IInv, TypeOK, KeeperInv, LockInv, Entering, ProgramInv, EndInv,
         RemoveDir, uvars, kvars, fvars, lvars, pvars
<1>14. Exit => EndInv'
  BY DEF IInv, TypeOK, KeeperInv, LockInv, Entering, ProgramInv, EndInv, Exit,
         uvars, kvars, fvars, lvars, pvars
<1>15. UnitEnds => EndInv'
  BY DEF IInv, TypeOK, KeeperInv, LockInv, Entering, ProgramInv, EndInv,
         UnitEnds, uvars, kvars, fvars, lvars, pvars
<1>16. ASSUME NEW l \in Launches, Begin(l) PROVE EndInv'
  BY <1>16 DEF IInv, TypeOK, KeeperInv, LockInv, Entering, ProgramInv, EndInv,
         Begin, Goes, uvars, kvars, fvars, lvars, pvars
<1>17. ASSUME NEW l \in Launches, WaitEnding(l) PROVE EndInv'
  BY <1>17 DEF IInv, TypeOK, KeeperInv, LockInv, Entering, ProgramInv, EndInv,
         WaitEnding, Goes, uvars, kvars, fvars, lvars, pvars
<1>18. ASSUME NEW l \in Launches, Waited(l) PROVE EndInv'
  BY <1>18 DEF IInv, TypeOK, KeeperInv, LockInv, Entering, ProgramInv, EndInv,
         Waited, Goes, uvars, kvars, fvars, lvars, pvars
<1>19. ASSUME NEW l \in Launches, StartUnit(l) PROVE EndInv'
  BY <1>19 DEF IInv, TypeOK, KeeperInv, LockInv, Entering, ProgramInv, EndInv,
         StartUnit, Goes, uvars, kvars, fvars, lvars, pvars
<1>20. ASSUME NEW l \in Launches, Started(l) PROVE EndInv'
  BY <1>20 DEF IInv, TypeOK, KeeperInv, LockInv, Entering, ProgramInv, EndInv,
         Started, Goes, uvars, kvars, fvars, lvars, pvars
<1>21. ASSUME NEW l \in Launches, Open(l) PROVE EndInv'
  BY <1>21 DEF IInv, TypeOK, KeeperInv, LockInv, Entering, ProgramInv, EndInv,
         Open, Goes, OpenLock, Opened, NextAttempt, uvars, kvars, fvars, lvars,
         pvars
<1>22. ASSUME NEW l \in Launches, LockShared(l) PROVE EndInv'
  BY <1>22 DEF IInv, TypeOK, KeeperInv, LockInv, Entering, ProgramInv, EndInv,
         LockShared, Goes, Shareable, uvars, kvars, fvars, lvars, pvars
<1>23. ASSUME NEW l \in Launches, Hold(l) PROVE EndInv'
  BY <1>23 DEF IInv, TypeOK, KeeperInv, LockInv, Entering, ProgramInv, EndInv,
         Hold, Goes, NextAttempt, uvars, kvars, fvars, lvars, pvars
<1>24. ASSUME NEW l \in Launches, Fork(l) PROVE EndInv'
  BY <1>24 DEF IInv, TypeOK, KeeperInv, LockInv, Entering, ProgramInv, EndInv,
         Fork, Goes, uvars, kvars, fvars, lvars, pvars
<1>25. ASSUME NEW l \in Launches, EntryFails(l) PROVE EndInv'
  BY <1>25 DEF IInv, TypeOK, KeeperInv, LockInv, Entering, ProgramInv, EndInv,
         EntryFails, Goes, Fault, uvars, kvars, fvars, lvars, pvars
<1>26. ASSUME NEW l \in Launches, Register(l) PROVE EndInv'
  BY <1>26 DEF IInv, TypeOK, KeeperInv, LockInv, Entering, ProgramInv, EndInv,
         Register, Goes, uvars, kvars, fvars, lvars, pvars
<1>27. ASSUME NEW l \in Launches, Exec(l) PROVE EndInv'
  BY <1>27 DEF IInv, TypeOK, KeeperInv, LockInv, Entering, ProgramInv, EndInv,
         Exec, Goes, uvars, kvars, fvars, lvars, pvars
<1>28. ASSUME NEW l \in Launches, Denied(l) PROVE EndInv'
  BY <1>28 DEF IInv, TypeOK, KeeperInv, LockInv, Entering, ProgramInv, EndInv,
         Denied, Goes, uvars, kvars, fvars, lvars, pvars
<1>29. ASSUME NEW l \in Launches, Drop(l) PROVE EndInv'
  BY <1>29 DEF IInv, TypeOK, KeeperInv, LockInv, Entering, ProgramInv, EndInv,
         Drop, uvars, kvars, fvars, lvars, pvars
<1>30. ASSUME NEW l \in Launches, Ring(l) PROVE EndInv'
  BY <1>30 DEF IInv, TypeOK, KeeperInv, LockInv, Entering, ProgramInv, EndInv,
         Ring, RingHeard, uvars, kvars, fvars, lvars, pvars
<1>31. ASSUME NEW l \in Launches, WaiterDies(l) PROVE EndInv'
  BY <1>31 DEF IInv, TypeOK, KeeperInv, LockInv, Entering, ProgramInv, EndInv,
         WaiterDies, Fault, uvars, kvars, fvars, lvars, pvars
<1>32. ForkProgram => EndInv'
  BY DEF IInv, TypeOK, KeeperInv, LockInv, Entering, ProgramInv, EndInv,
         ForkProgram, uvars, kvars, fvars, lvars, pvars
<1>33. ASSUME NEW p \in alive, EndProgram(p) PROVE EndInv'
  BY <1>33 DEF IInv, TypeOK, KeeperInv, LockInv, Entering, ProgramInv, EndInv,
         EndProgram, uvars, kvars, fvars, lvars, pvars
<1>34. UNCHANGED vars => EndInv'
  BY DEF IInv, TypeOK, KeeperInv, LockInv, Entering, ProgramInv, EndInv, vars,
         uvars, kvars, fvars, lvars, pvars
<1> QED
  BY <1>1, <1>2, <1>3, <1>4, <1>5, <1>6, <1>7, <1>8, <1>9, <1>10, <1>11, <1>12,
     <1>13, <1>14, <1>15, <1>16, <1>17, <1>18, <1>19, <1>20, <1>21, <1>22,
     <1>23, <1>24, <1>25, <1>26, <1>27, <1>28, <1>29, <1>30, <1>31, <1>32,
     <1>33, <1>34
     DEF Next, Keeper, Look, End, Launch, Waiter

-----------------------------------------------------------------------------
(* The theorems. *)

LEMMA InitInv == Init => IInv
<1> SUFFICES ASSUME Init PROVE IInv
  OBVIOUS
<1>1. TypeOK
  <2>1. /\ unit \in BOOLEAN /\ runs \in Nat /\ kpc = "none"
        /\ up \in BOOLEAN /\ door \in BOOLEAN /\ bell \in BOOLEAN
        /\ armed \in BOOLEAN /\ known = {} /\ listed = {}
        /\ dir \in BOOLEAN /\ file \in Nat /\ inodes \in Nat
        /\ klock \in Nat /\ excl \in BOOLEAN
        /\ pids \in Nat /\ alive = {} /\ faults \in Nat
    BY DEF Init
  <2>2. /\ lpc = [l \in Launches |-> "none"]
        /\ phase = [l \in Launches |-> "up"]
        /\ tries = [l \in Launches |-> 0] /\ inode = [l \in Launches |-> 0]
        /\ into = [l \in Launches |-> 0] /\ main = [l \in Launches |-> 0]
        /\ holders = {} /\ owes = {}
    BY DEF Init
  <2> QED
    BY <2>1, <2>2 DEF TypeOK
<1>2. KeeperInv /\ LockInv /\ ProgramInv /\ EndInv
  BY DEF Init, KeeperInv, LockInv, Entering, ProgramInv, EndInv
<1> QED
  BY <1>1, <1>2 DEF IInv

\* The inductive invariant holds in every reachable state.
THEOREM Invariant == Spec => []IInv
<1>1. IInv /\ [Next]_vars => IInv'
  BY TypeKept, KeeperKept, LockKept, ProgramKept, EndKept DEF IInv
<1> QED
  BY <1>1, InitInv, PTL DEF Spec

\* Every variable of the keeper, the launches and the files keeps its type.
THEOREM TypeCorrect == Spec => []TypeOK
<1>1. IInv => TypeOK
  BY DEF IInv
<1> QED
  BY <1>1, Invariant, PTL

\* An idle end of the keeper ends no launch that took the keeper's own lock:
\* not on its way in, and not its program (zone.rs keep).
THEOREM IdleEndsNobodyHolds == Spec => IdleEndsNobody
<1>1. IInv /\ [Next]_vars =>
        [IdleEnd => \A l \in Launches :
            inode[l] = klock => ~Entering(l) /\ main[l] \notin alive]_vars
  <2> SUFFICES ASSUME IInv, IdleEnd, NEW l \in Launches, inode[l] = klock
               PROVE  ~Entering(l) /\ main[l] \notin alive
    OBVIOUS
  <2>1. kpc = "closing" /\ excl /\ klock # 0
    BY DEF IdleEnd, IInv, KeeperInv
  <2>2. ~Entering(l)
    BY <2>1 DEF IInv, LockInv
  <2>3. main[l] \notin alive
    BY <2>1 DEF IInv, EndInv
  <2> QED
    BY <2>2, <2>3
<1> QED
  BY <1>1, Invariant, PTL DEF Spec, IdleEndsNobody
=============================================================================
