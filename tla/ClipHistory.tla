---------------------------- MODULE ClipHistory ----------------------------
(***************************************************************************)
(* What a clipboard history promises those who write to it (the head of    *)
(* clip/src/lib.rs): an id is new and greater than every id before it, an  *)
(* entry's contents never change, its copies and pastes are only added to, *)
(* a delete takes the entry out of every answer for good - and nothing     *)
(* else ever changes an answer: not the seal of the log, not a merge, not  *)
(* a crash, not an open.                                                   *)
(*                                                                         *)
(* shown is what lasts: what the history would answer after a loss of      *)
(* power now.  unsure is the one way out of the promise: a manifest is     *)
(* renamed and the directory's sync failed, until one that succeeds - or,  *)
(* for good, until a segment which that manifest names is written over.    *)
(* Then nothing is said.                                                   *)
(***************************************************************************)
EXTENDS Naturals, Functions

CONSTANTS Ids, Times,       \* numbers of entries; when a copy or a paste was
          Contents,         \* what can be copied
          Kinds             \* the kinds of event

VARIABLES shown,            \* of each id answered: its contents and events
          given,            \* the ids ever given
          unsure
history == <<shown, given, unsure>>

Init ==
    /\ shown = <<>>
    /\ given = {}
    /\ unsure = FALSE

\* A new entry, under an id above every one before; a copy is its first event.
Add(id, c, at) ==
    /\ \A old \in given : old < id
    /\ given' = given \cup {id}
    /\ shown' = [x \in DOMAIN shown \cup {id} |->
                    IF x = id THEN [contents |-> c,
                                    events |-> {[kind |-> "copied", at |-> at]}]
                              ELSE shown[x]]

\* A copy again, or a paste.
Note(id, kind, at) ==
    /\ id \in DOMAIN shown
    /\ shown' = [shown EXCEPT ![id].events = @ \cup {[kind |-> kind, at |-> at]}]
    /\ UNCHANGED given

Delete(id) ==
    /\ id \in DOMAIN shown
    /\ shown' = Restrict(shown, DOMAIN shown \ {id})
    /\ UNCHANGED given

Operation ==
    \E id \in Ids :
        \/ \E c \in Contents, at \in Times : Add(id, c, at)
        \/ \E kind \in Kinds, at \in Times : Note(id, kind, at)
        \/ Delete(id)

\* Answers change as one operation changes them, or not at all; while unsure,
\* as they will.
Next ==
    \/ Operation /\ UNCHANGED unsure
    \/ unsure' /\ UNCHANGED <<shown, given>>
    \/ unsure

Spec == Init /\ [][Next]_history
=============================================================================
