----------------------------- MODULE ClipBroker ----------------------------
(***************************************************************************)
(* The broker of the private clipboards (clip/src/broker.rs and            *)
(* broker/paste.rs), as operators on its state: one CLIPBOARD offer for    *)
(* every running instance, and the epochs that say which copy of all the   *)
(* instances is the person's latest.                                       *)
(*                                                                         *)
(* A broker b is a record:                                                 *)
(*   next      the last serial given; epochs and revisions share it        *)
(*   live      the instances registered                                    *)
(*   offers    of each instance, the revision and the copy; 0: none        *)
(*   captures  of each instance, the epoch of the copy being read; 0: none *)
(*   last      the person's latest copy: its epoch (0: none yet), whose it *)
(*             is, the revision it became (0: not read yet), and whether   *)
(*             it failed or its instance ended                             *)
(*   seen      of each instance, the epoch it has or stands for            *)
(*   late      the epochs whose CAPTURE_TIMEOUT is over: those up to here, *)
(*             the timeout being one and the same for all                  *)
(*                                                                         *)
(* A copy is a record with its kind among its fields.  PRIMARY, which no   *)
(* paste is made from, the previews, the types and the sizes are left out; *)
(* that a selection does not fit the budgets is the caller's choice, FALSE *)
(* for fits.                                                               *)
(***************************************************************************)
EXTENDS Naturals

CONSTANTS Instances,        \* broker::Instance
          NoInstance, NoCopy

ASSUME BrokerAssumption == NoInstance \notin Instances

NoOffer == [revision |-> 0, copy |-> NoCopy]
NoLast  == [epoch |-> 0, source |-> NoInstance, ready |-> 0, failed |-> FALSE]

NewBroker == [next     |-> 0,
              live     |-> Instances,
              offers   |-> [i \in Instances |-> NoOffer],
              captures |-> [i \in Instances |-> 0],
              last     |-> NoLast,
              seen     |-> [i \in Instances |-> 0],
              late     |-> 0]

Accepted(b, revision) == [broker |-> b, ok |-> TRUE, revision |-> revision]
Rejected(b) == [broker |-> b, ok |-> FALSE, revision |-> 0]

-----------------------------------------------------------------------------
(* Captures and selections.                                                *)

AbortCapture(b, i, epoch) ==
    [b EXCEPT !.captures[i] = IF @ = epoch THEN 0 ELSE @,
              !.last.failed = @ \/ (b.last.source = i /\ b.last.epoch = epoch)]

CancelCapture(b, i) ==
    IF b.captures[i] = 0 THEN b ELSE AbortCapture(b, i, b.captures[i])

\* Mutant: every selection stands for the latest copy in its instance.
BeginCaptureSeen(b, i, userCopy) ==
    [b EXCEPT !.next = @ + 1,
              !.captures[i] = b.next + 1,
              !.last = IF userCopy
                       THEN [epoch |-> b.next + 1, source |-> i, ready |-> 0, failed |-> FALSE]
                       ELSE @,
              !.seen[i] = b.next + 1]

\* A copy of the person's becomes the latest before anything of it is read; a
\* selection of another kind in its place makes one not read yet fail.
BeginCapture(b, i, userCopy) ==
    LET epoch == b.next + 1
        latest == IF userCopy
                  THEN [epoch |-> epoch, source |-> i, ready |-> 0, failed |-> FALSE]
                  ELSE [b.last EXCEPT !.failed = @ \/ (b.last.source = i /\ b.last.ready = 0)]
    IN [b EXCEPT !.next = epoch,
                 !.captures[i] = epoch,
                 !.last = latest,
                 !.seen[i] = IF userCopy THEN epoch ELSE @]

\* Mutant: what is set stands for the latest copy, a restored one or not.
SetSelectionSeen(b, i, copy) ==
    LET revision == b.next + 1
        c == CancelCapture(b, i)
    IN Accepted([c EXCEPT !.next = revision,
                          !.offers[i] = [revision |-> revision, copy |-> copy],
                          !.seen[i] = c.last.epoch],
                revision)

\* Broker::set, of what fits.  A selection restored from a history stands in
\* its instance for whatever copy was the latest.
SetSelection(b, i, copy) ==
    LET revision == b.next + 1
        c == CancelCapture(b, i)
    IN Accepted([c EXCEPT !.next = revision,
                          !.offers[i] = [revision |-> revision, copy |-> copy],
                          !.seen[i] = IF copy.kind = "restored" THEN c.last.epoch ELSE @],
                revision)

\* Mutant: a capture that was cancelled may finish.
OnTimeCancelled(b, i, epoch) == epoch > b.late

OnTime(b, i, epoch) == b.captures[i] = epoch /\ epoch > b.late

FinishCapture(b, i, epoch, copy, fits) ==
    LET taken == [b EXCEPT !.captures[i] = 0]
        set   == SetSelection(taken, i, copy)
    IN CASE ~OnTime(b, i, epoch) -> Rejected(b)
         [] OnTime(b, i, epoch) /\ ~fits -> Rejected(AbortCapture(taken, i, epoch))
         [] OnTime(b, i, epoch) /\ fits ->
              IF b.last.source = i /\ b.last.epoch = epoch
              THEN [set EXCEPT !.broker.last.ready = set.revision,
                               !.broker.last.failed = FALSE]
              ELSE set

ClearSelection(b, i) == [CancelCapture(b, i) EXCEPT !.offers[i] = NoOffer]

\* The epoch of a latest copy stays when its instance goes: an older one must
\* not become the latest.
RemoveInstance(b, i) ==
    [b EXCEPT !.live = @ \ {i},
              !.offers[i] = NoOffer,
              !.captures[i] = 0,
              !.seen[i] = 0,
              !.last.failed = @ \/ b.last.source = i]

\* Mutant: a reader gets what there is.
ReadOfferNow(b, i, revision) == b.offers[i].copy

\* What a reader of that revision gets: never a later copy in its place.
ReadOffer(b, i, revision) ==
    IF b.offers[i].revision = revision THEN b.offers[i].copy ELSE NoCopy

-----------------------------------------------------------------------------
(* Pastes.                                                                 *)

Reading(b)     == b.last.ready = 0
Unavailable(b) == b.last.failed \/ (Reading(b) /\ b.last.epoch <= b.late)
Has(b, t)      == b.seen[t] >= b.last.epoch
SourceOffer(b) == b.offers[b.last.source]

\* The target's own selection is what is to be pasted.  What was imported
\* from an instance that has ended stays good.
IsCurrent(b, t) ==
    \/ b.last.epoch = 0
    \/ Unavailable(b) /\ ~Reading(b) /\ b.last.source # t /\ Has(b, t)
    \/ ~Unavailable(b) /\ Reading(b) /\ b.last.source # t /\ Has(b, t)
    \/ ~Unavailable(b) /\ ~Reading(b) /\ (b.last.source = t \/ Has(b, t))

\* The latest copy is still being read: wait for it, in its own instance too.
IsPending(b, t) ==
    /\ b.last.epoch # 0
    /\ ~Unavailable(b)
    /\ Reading(b)
    /\ b.last.source = t \/ ~Has(b, t)

\* The latest copy is another instance's, and is there as it was read.
IsTransfer(b, t, expected) ==
    /\ b.last.epoch # 0
    /\ ~Unavailable(b)
    /\ ~Reading(b)
    /\ b.last.source # t /\ ~Has(b, t)
    /\ b.offers[t].revision = expected
    /\ b.last.source \in b.live
    /\ SourceOffer(b).revision = b.last.ready

Decision(kind, b, t) ==
    [kind |-> kind, epoch |-> b.last.epoch, source |-> b.last.source,
     revision |-> b.last.ready, target |-> b.offers[t].revision,
     copy |-> IF kind = "transfer" THEN SourceOffer(b).copy ELSE b.offers[t].copy]

NoDecision == [kind |-> "stale", epoch |-> 0, source |-> NoInstance,
               revision |-> 0, target |-> 0, copy |-> NoCopy]

PreparePaste(b, t, expected) ==
    CASE IsCurrent(b, t) -> Decision("current", b, t)
      [] IsPending(b, t) -> Decision("pending", b, t)
      [] IsTransfer(b, t, expected) -> Decision("transfer", b, t)
      [] OTHER -> NoDecision

\* Mutant: the latest copy, whatever was shown.
MayCommitLatest(b, t, shown, allowSecret) ==
    LET now == PreparePaste(b, t, shown.target)
    IN now.kind = "transfer" /\ (now.copy.kind = "secret" => allowSecret)

\* Only exactly what was shown, to exactly the selection it was shown for.
MayCommit(b, t, shown, allowSecret) ==
    LET now == PreparePaste(b, t, shown.target)
    IN /\ now.kind = "transfer"
       /\ now.epoch = shown.epoch
       /\ now.revision = shown.revision
       /\ now.target = shown.target
       /\ now.copy.kind = "secret" => allowSecret

\* Mutant: the import is not marked as the latest.
CommitPasteUnseen(b, t, shown, allowSecret, fits) ==
    IF MayCommit(b, t, shown, allowSecret) /\ fits
    THEN SetSelection(b, t, SourceOffer(b).copy)
    ELSE Rejected(b)

CommitPaste(b, t, shown, allowSecret, fits) ==
    IF MayCommit(b, t, shown, allowSecret) /\ fits
    THEN LET set == SetSelection(b, t, SourceOffer(b).copy)
         IN [set EXCEPT !.broker.seen[t] = shown.epoch]
    ELSE Rejected(b)
=============================================================================
