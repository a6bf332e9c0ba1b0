---------------------------- MODULE TransferGate ----------------------------
(***************************************************************************)
(* The concurrency gate of SftpServiceImpl                                 *)
(* (electron/services/SftpService.ts): every downloadFile / uploadFile     *)
(* call takes one of transfer.maxConcurrent slots before it touches the    *)
(* network and gives it back in a `finally`.                               *)
(*                                                                         *)
(* The main process is single threaded, so a step of this module is a run  *)
(* of code between two suspensions: the head of a call up to its first     *)
(* await, the continuation of a resolved promise, or a callback.           *)
(***************************************************************************)
EXTENDS Integers, FiniteSets, Sequences

CONSTANTS
  Files,     (* the file transfers the renderer may ask for                *)
  Limits     (* the values the user may give to transfer.maxConcurrent     *)

ASSUME FilesAssumption  == IsFiniteSet(Files)
ASSUME LimitsAssumption == Limits # {} /\ Limits \subseteq Nat \ {0}

VARIABLES
  limit,     (* maxConcurrent(): read from the settings at every acquire   *)
  active,    (* SftpServiceImpl.active                                     *)
  waiters,   (* SftpServiceImpl.waiters, oldest first                      *)
  phase,     (* where each file's call is suspended                        *)
  paused     (* the streaming files the user has paused                    *)

vars == <<limit, active, waiters, phase, paused>>

(***************************************************************************)
(* A file is idle (no call), waiting (in waiters), woken (its waiter was   *)
(* resolved, its continuation has not run), opening (slot taken; SFTP      *)
(* channel and stat in progress), streaming (in the transfers map) or      *)
(* settled (runTransfer is over, the timestamps or the `finally` are not). *)
(***************************************************************************)
Phases == {"idle", "waiting", "woken", "opening", "streaming", "settled"}

InPhase(S) == {f \in Files : phase[f] \in S}

(* The calls that are between their active++ and their release().          *)
Holders == InPhase({"opening", "streaming", "settled"})

-----------------------------------------------------------------------------

Init ==
  /\ limit \in Limits
  /\ active = 0
  /\ waiters = <<>>
  /\ phase = [f \in Files |-> "idle"]
  /\ paused = {}

(***************************************************************************)
(* downloadFile / uploadFile up to its first suspension: acquire() takes a *)
(* free slot, or queues a waiter.                                          *)
(***************************************************************************)
AcquireNow(f) ==
  /\ phase[f] = "idle"
  /\ active < limit
  /\ active' = active + 1
  /\ phase' = [phase EXCEPT ![f] = "opening"]
  /\ UNCHANGED <<limit, waiters, paused>>

(* Mutant of AcquireLater: queue although a slot is free.                  *)
AcquireLaterUnguarded(f) ==
  /\ phase[f] = "idle"
  /\ phase' = [phase EXCEPT ![f] = "waiting"]
  /\ waiters' = Append(waiters, f)
  /\ UNCHANGED <<limit, active, paused>>

(* The head of a call that finds no free slot.                             *)
AcquireLater(f) ==
  /\ phase[f] = "idle"
  /\ active >= limit
  /\ phase' = [phase EXCEPT ![f] = "waiting"]
  /\ waiters' = Append(waiters, f)
  /\ UNCHANGED <<limit, active, paused>>

(* The continuation of `await new Promise(...)` in acquire(). It does not   *)
(* look at the limit again.                                                *)
ResumeAcquire(f) ==
  /\ phase[f] = "woken"
  /\ active' = active + 1
  /\ phase' = [phase EXCEPT ![f] = "opening"]
  /\ UNCHANGED <<limit, waiters, paused>>

(* Mutant of Release: the slot goes back, nobody is woken.                 *)
ReleaseWithoutWake(f) ==
  /\ active' = active - 1
  /\ phase' = [phase EXCEPT ![f] = "idle"]
  /\ UNCHANGED waiters

(* Mutant of Release: the newest waiter is resolved (pop for shift).       *)
ReleaseNewest(f) ==
  /\ active' = active - 1
  /\ IF waiters = <<>>
     THEN /\ phase' = [phase EXCEPT ![f] = "idle"]
          /\ UNCHANGED waiters
     ELSE /\ phase' = [phase EXCEPT ![f] = "idle", ![waiters[Len(waiters)]] = "woken"]
          /\ waiters' = SubSeq(waiters, 1, Len(waiters) - 1)

(***************************************************************************)
(* release(): the slot goes back and the oldest waiter, if there is one,   *)
(* is resolved. The woken call takes its slot only when its continuation   *)
(* runs (ResumeAcquire): the slot is not handed over.                      *)
(***************************************************************************)
Release(f) ==
  /\ active' = active - 1
  /\ IF waiters = <<>>
     THEN /\ phase' = [phase EXCEPT ![f] = "idle"]
          /\ UNCHANGED waiters
     ELSE /\ phase' = [phase EXCEPT ![f] = "idle", ![Head(waiters)] = "woken"]
          /\ waiters' = Tail(waiters)

(* Mutant of OpenFails: acquire() outside the try, so no `finally` runs.   *)
OpenFailsKeepsSlot(f) ==
  /\ phase[f] = "opening"
  /\ phase' = [phase EXCEPT ![f] = "idle"]
  /\ UNCHANGED <<limit, active, waiters, paused>>

(* wrapper(), stat or statSync throws: straight to the `finally`.          *)
OpenFails(f) ==
  /\ phase[f] = "opening"
  /\ Release(f)
  /\ UNCHANGED <<limit, paused>>

(* The streams exist: runTransfer enters the transfer into the map.        *)
StartStreaming(f) ==
  /\ phase[f] = "opening"
  /\ phase' = [phase EXCEPT ![f] = "streaming"]
  /\ UNCHANGED <<limit, active, waiters, paused>>

(* The user's pause and resume buttons, effective while the id is mapped.  *)
Pause(f) ==
  /\ phase[f] = "streaming"
  /\ f \notin paused
  /\ paused' = paused \cup {f}
  /\ UNCHANGED <<limit, active, waiters, phase>>

Unpause(f) ==
  /\ phase[f] = "streaming"
  /\ f \in paused
  /\ paused' = paused \ {f}
  /\ UNCHANGED <<limit, active, waiters, phase>>

(* A stream of f reports its end or an error (module TransferStream says    *)
(* which): runTransfer's promise settles and the id leaves the map.         *)
Settle(f) ==
  /\ phase[f] = "streaming"
  /\ phase' = [phase EXCEPT ![f] = "settled"]
  /\ paused' = paused \ {f}
  /\ UNCHANGED <<limit, active, waiters>>

(* The rest of the call after runTransfer, down to `finally`.              *)
Leave(f) ==
  /\ phase[f] = "settled"
  /\ Release(f)
  /\ UNCHANGED <<limit, paused>>

(* The user changes transfer.maxConcurrent; nothing looks at the waiters.  *)
SetLimit(n) ==
  /\ n # limit
  /\ limit' = n
  /\ UNCHANGED <<active, waiters, phase, paused>>

-----------------------------------------------------------------------------

(* The user cancelling a paused transfer destroys its streams, so a paused  *)
(* transfer may settle too; only an unpaused one is bound to.               *)
CallStep(f) ==
  \/ ResumeAcquire(f)
  \/ StartStreaming(f)
  \/ Leave(f)

Next ==
  \/ \E f \in Files :
       \/ AcquireNow(f)
       \/ AcquireLater(f)
       \/ OpenFails(f)
       \/ Pause(f)
       \/ Unpause(f)
       \/ Settle(f)
       \/ CallStep(f)
  \/ \E n \in Limits : SetLimit(n)

Spec == Init /\ [][Next]_vars

(***************************************************************************)
(* Fairness: Node runs every continuation (CallStep), and a stream that is *)
(* not paused ends or fails. The user owes nothing: no fairness on Pause,  *)
(* Unpause, SetLimit or on asking for a file.                              *)
(***************************************************************************)
Fairness ==
  \A f \in Files :
    /\ WF_vars(CallStep(f))
    /\ SF_vars(f \notin paused /\ Settle(f))

FairSpec == Spec /\ Fairness

-----------------------------------------------------------------------------

(* The shape of the state.                                                 *)
TypeOK ==
  /\ limit \in Limits
  /\ active \in Nat
  /\ waiters \in Seq(Files)
  /\ phase \in [Files -> Phases]
  /\ paused \in SUBSET Files

(***************************************************************************)
(* The counter is exactly the number of calls between acquire and release: *)
(* no path through downloadFile / uploadFile (open failure, error,         *)
(* cancellation, success, woken waiter) leaks a slot or returns one twice. *)
(***************************************************************************)
SlotAccounting == active = Cardinality(Holders)

(***************************************************************************)
(* waiters and the suspended calls agree: each waiting call is queued      *)
(* exactly once, and nothing that left the queue is still in it.           *)
(***************************************************************************)
QueueIsWaiting ==
  /\ \A f \in Files : phase[f] = "waiting" <=> \E i \in DOMAIN waiters : waiters[i] = f
  /\ \A i, j \in DOMAIN waiters : waiters[i] = waiters[j] => i = j

(***************************************************************************)
(* No lost wake-up: while a call waits, another one holds a slot or has    *)
(* been woken, so a release is still to come. Raising and lowering         *)
(* maxConcurrent in between does not break it.                             *)
(***************************************************************************)
NoLostWakeup == waiters # <<>> => Holders \cup InPhase({"woken"}) # {}

(***************************************************************************)
(* Waiters are served in arrival order: a call leaves the queue only from  *)
(* its head, whatever settles, fails or is cancelled meanwhile.            *)
(***************************************************************************)
FifoService ==
  [][\A f \in Files :
       phase[f] = "waiting" /\ phase'[f] # "waiting" =>
         Head(waiters) = f /\ waiters' = Tail(waiters)]_vars

(***************************************************************************)
(* A queued file gets its slot, provided no transfer stays paused for      *)
(* good: a paused transfer keeps its slot.                                 *)
(***************************************************************************)
QueuedServed ==
  (\A g \in Files : []<>(g \notin paused)) =>
    \A f \in Files : phase[f] = "waiting" ~> phase[f] = "opening"

=============================================================================
