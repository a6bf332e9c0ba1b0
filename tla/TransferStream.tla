--------------------------- MODULE TransferStream ---------------------------
(***************************************************************************)
(* One file transfer: SftpServiceImpl.runTransfer and the pause, resume    *)
(* and cancel entry points (electron/services/SftpService.ts), over the    *)
(* two Node streams it pipes together. The streams are external: Read,     *)
(* SourceEnd, Written, Finish, Close and the two failures say how a piped  *)
(* pair behaves, including that a drained sink restarts its source.        *)
(***************************************************************************)
EXTENDS Integers

CONSTANTS
  Chunks,      (* protocol-sized chunks in the file: bounds the stream     *)
  HighWater    (* chunks the sink buffers before write() asks for a drain  *)

ASSUME ChunksAssumption    == Chunks \in Nat \ {0}
ASSUME HighWaterAssumption == HighWater \in Nat \ {0}

VARIABLES
  listed,      (* the id is in SftpServiceImpl.transfers                   *)
  onHold,      (* ActiveTransfer.paused                                    *)
  cancelled,   (* ActiveTransfer.cancelled                                 *)
  shown,       (* status of the last sftp:progress event                   *)
  result,      (* how runTransfer's promise stands                         *)
  src,         (* the source stream                                         *)
  flowing,     (* the source is in flowing mode                            *)
  left,        (* chunks not read yet                                      *)
  buffered,    (* chunks handed to the sink, not written yet               *)
  needDrain,   (* pipe() stopped the source until the sink drains          *)
  sink,        (* the destination stream                                    *)
  file         (* the destination                                          *)

user    == <<onHold, cancelled>>
streams == <<src, flowing, left, buffered, needDrain, sink>>
streamvars == <<listed, user, shown, result, streams, file>>

Results  == {"pending", "done", "cancelled", "error"}
Statuses == Results \cup {"active", "paused"}

StreamInit ==
  /\ listed = TRUE /\ onHold = FALSE /\ cancelled = FALSE
  /\ shown = "pending" /\ result = "pending"
  /\ src = "open" /\ flowing = TRUE /\ left = Chunks
  /\ buffered = 0 /\ needDrain = FALSE
  /\ sink = "open" /\ file = "absent"

-----------------------------------------------------------------------------
(* The handlers runTransfer registers.                                     *)

Report(r) == result' = r /\ shown' = r

(* settleCancelled(): onCancel removes the destination, best effort. While  *)
(* the destination handle is not shut its open or write may still land     *)
(* after the removal.                                                      *)
Cancelled ==
  /\ Report("cancelled")
  /\ IF sink' = "closed" THEN file' = "absent" ELSE file' \in {"absent", file}

(* Mutant of OnDone: the second of 'finish' and 'close' reports again.     *)
OnDoneAgain ==
  /\ listed' = FALSE
  /\ IF cancelled THEN Cancelled ELSE Report("done") /\ UNCHANGED file

(* Mutant of OnDone: a closed sink is a finished transfer.                 *)
OnDoneUnchecked ==
  IF listed
  THEN listed' = FALSE /\ Report("done") /\ UNCHANGED file
  ELSE UNCHANGED <<listed, result, shown, file>>

(* onDone(), on the sink's 'finish' and again on its 'close'.              *)
OnDone ==
  IF listed
  THEN /\ listed' = FALSE
       /\ IF cancelled THEN Cancelled ELSE Report("done") /\ UNCHANGED file
  ELSE UNCHANGED <<listed, result, shown, file>>

(* onErr(), on either stream's 'error'.                                    *)
OnErr ==
  IF listed
  THEN /\ listed' = FALSE
       /\ IF cancelled THEN Cancelled ELSE Report("error") /\ UNCHANGED file
  ELSE UNCHANGED <<listed, result, shown, file>>

-----------------------------------------------------------------------------
(* The user's buttons: no effect once the id left the map.                 *)

PauseStream ==
  /\ listed /\ ~onHold
  /\ onHold' = TRUE /\ shown' = "paused"
  /\ flowing' = FALSE
  /\ UNCHANGED <<listed, cancelled, result, src, left, buffered, needDrain, sink, file>>

ResumeStream ==
  /\ listed /\ onHold
  /\ onHold' = FALSE /\ shown' = "active"
  /\ flowing' = TRUE
  /\ UNCHANGED <<listed, cancelled, result, src, left, buffered, needDrain, sink, file>>

(* Mutant of Cancel: only the source is destroyed.                         *)
CancelSourceOnly ==
  /\ listed /\ ~cancelled
  /\ cancelled' = TRUE
  /\ src' = IF src = "open" THEN "destroyed" ELSE src
  /\ flowing' = FALSE
  /\ UNCHANGED <<listed, onHold, shown, result, left, buffered, needDrain, sink, file>>

(* cancel(): the flag, then destroyFn on both streams.                     *)
Cancel ==
  /\ listed /\ ~cancelled
  /\ cancelled' = TRUE
  /\ src' = IF src = "open" THEN "destroyed" ELSE src
  /\ flowing' = FALSE
  /\ sink' = "destroyed" /\ buffered' = 0
  /\ UNCHANGED <<listed, onHold, shown, result, left, needDrain, file>>

-----------------------------------------------------------------------------
(* The streams.                                                            *)

(* A chunk: runTransfer's 'data' listener emits 'active' for the first and *)
(* then at most every 200 ms; pipe() writes it and stops the source when   *)
(* the sink is full.                                                       *)
Read ==
  /\ src = "open" /\ flowing /\ left > 0
  /\ left' = left - 1
  /\ IF left = Chunks THEN shown' = "active" ELSE shown' \in {shown, "active"}
  /\ buffered' = buffered + 1
  /\ needDrain' = (buffered' >= HighWater)
  /\ flowing' = ~needDrain'
  /\ UNCHANGED <<listed, user, result, src, sink, file>>

(* 'end' is only delivered in flowing mode; pipe() then ends the sink.     *)
SourceEnd ==
  /\ src = "open" /\ flowing /\ left = 0
  /\ src' = "ended" /\ flowing' = FALSE
  /\ sink' = "ending"
  /\ UNCHANGED <<listed, user, shown, result, left, buffered, needDrain, file>>

(* One chunk reaches the destination; an emptied sink that owed a drain    *)
(* puts the source back in flowing mode, paused by the user or not.        *)
Written ==
  /\ sink \in {"open", "ending"} /\ buffered > 0
  /\ buffered' = buffered - 1
  /\ file' = IF left = 0 /\ buffered' = 0 THEN "whole" ELSE "partial"
  /\ IF needDrain /\ buffered' = 0
     THEN needDrain' = FALSE /\ flowing' = (src = "open")
     ELSE UNCHANGED <<needDrain, flowing>>
  /\ UNCHANGED <<listed, user, shown, result, src, left, sink>>

(* 'finish': everything written and flushed.                               *)
Finish ==
  /\ sink = "ending" /\ buffered = 0
  /\ sink' = "finished"
  /\ OnDone
  /\ UNCHANGED <<user, src, flowing, left, buffered, needDrain>>

(* 'close': the destination handle is shut.                                *)
Close ==
  /\ sink \in {"finished", "destroyed"}
  /\ sink' = "closed"
  /\ OnDone
  /\ UNCHANGED <<user, src, flowing, left, buffered, needDrain>>

(* Shutting a destroyed sink's handle fails: 'error' instead of 'close'.   *)
CloseFails ==
  /\ sink = "destroyed"
  /\ sink' = "closed"
  /\ OnErr
  /\ UNCHANGED <<user, src, flowing, left, buffered, needDrain>>

(* A read fails, or a destroyed source reports its pending read's error.   *)
SourceError ==
  /\ src \in {"open", "destroyed"}
  /\ src' = "failed" /\ flowing' = FALSE
  /\ UNCHANGED sink
  /\ OnErr
  /\ UNCHANGED <<user, left, buffered, needDrain>>

(* A write fails: the sink destroys itself, pipe() lets go of the source.  *)
SinkError ==
  /\ sink \in {"open", "ending"}
  /\ sink' = "destroyed" /\ buffered' = 0
  /\ flowing' = FALSE
  /\ OnErr
  /\ UNCHANGED <<user, src, left, needDrain>>

-----------------------------------------------------------------------------

StreamNext ==
  \/ PauseStream \/ ResumeStream \/ Cancel
  \/ Read \/ SourceEnd \/ Written
  \/ Finish \/ Close \/ CloseFails
  \/ SourceError \/ SinkError

StreamSpec == StreamInit /\ [][StreamNext]_streamvars

(* The event loop delivers what the streams have pending. Nothing is owed   *)
(* by the user, and a stream need not fail.                                *)
StreamFairness ==
  /\ WF_streamvars(Read) /\ WF_streamvars(SourceEnd) /\ WF_streamvars(Written)
  /\ WF_streamvars(Finish) /\ WF_streamvars(Close)

StreamFairSpec == StreamSpec /\ StreamFairness

-----------------------------------------------------------------------------

(* The shape of the state.                                                 *)
StreamTypeOK ==
  /\ listed \in BOOLEAN /\ onHold \in BOOLEAN /\ cancelled \in BOOLEAN
  /\ shown \in Statuses /\ result \in Results
  /\ src \in {"open", "ended", "destroyed", "failed"}
  /\ flowing \in BOOLEAN /\ needDrain \in BOOLEAN
  /\ left \in 0..Chunks /\ buffered \in 0..Chunks
  /\ left + buffered <= Chunks
  /\ sink \in {"open", "ending", "finished", "destroyed", "closed"}
  /\ file \in {"absent", "partial", "whole"}

(***************************************************************************)
(* A transfer is reported once: 'finish' then 'close', an error then       *)
(* 'close', or a late chunk or button never change what the user was told  *)
(* or how the folder's accounting (summarize) counts the file.             *)
(***************************************************************************)
ReportedOnce == [][result # "pending" => UNCHANGED <<result, shown>>]_streamvars

(***************************************************************************)
(* A half-file is never mistaken for a real one: what is reported done has *)
(* every chunk in the destination.                                         *)
(***************************************************************************)
DoneIsWhole == result = "done" => file = "whole"

(* The user's cancel decides the outcome, also against a stream error that *)
(* the destroyed streams raise, and a folder does not count it as failed.  *)
CancelWins == cancelled => result \in {"pending", "cancelled"}

(***************************************************************************)
(* A cancelled transfer settles, paused or waiting for a drain as it may   *)
(* be, so the slot it holds in TransferGate comes back.                    *)
(***************************************************************************)
CancelSettles == cancelled ~> result = "cancelled"

(* A transfer that is not left paused ends, one way or the other.          *)
UnpausedSettles == (<>[]~onHold) => <>(result # "pending")

(***************************************************************************)
(* A transfer comes to its end: one that was cancelled, paused or waiting  *)
(* for a drain as it may be, and one that is not left paused (runTransfer, *)
(* cancelTransfer, resumeTransfer).                                        *)
(***************************************************************************)
TransferSettles == CancelSettles /\ UnpausedSettles

(***************************************************************************)
(* The gate's view of this transfer: a call that streams until its promise *)
(* settles, paused or not. Whatever the streams and buttons do, the gate   *)
(* sees it paused, resumed and settled as TransferGate says, or nothing.   *)
(***************************************************************************)
Gate == INSTANCE TransferGate
        WITH Files <- {1}, Limits <- {1}, limit <- 1, active <- 1, waiters <- <<>>,
             phase <- [f \in {1} |-> IF result = "pending" THEN "streaming" ELSE "settled"],
             paused <- IF onHold /\ result = "pending" THEN {1} ELSE {}

KeepsToGate == [][Gate!Pause(1) \/ Gate!Unpause(1) \/ Gate!Settle(1)]_(Gate!vars)
=============================================================================
