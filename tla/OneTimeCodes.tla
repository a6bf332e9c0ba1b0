---------------------------- MODULE OneTimeCodes ----------------------------
(***************************************************************************)
(* What a pairing code promises: at most one code is live, each is issued  *)
(* once, a code links one phone and is dead from then on, and it stands    *)
(* fewer than MaxTries wrong requests.                                     *)
(***************************************************************************)
EXTENDS Naturals

CONSTANTS Codes, None, MaxTries

VARIABLES
  live,        (* the code that links a phone now, or None                 *)
  tries,       (* wrong requests the live code has had                     *)
  issued,      (* codes that are or were live                              *)
  links        (* how many phones were linked                              *)

vars == <<live, tries, issued, links>>

Init == live = None /\ tries = 0 /\ issued = {} /\ links = 0

(* A new code replaces the live one.                                       *)
Issue(c) ==
  /\ c \notin issued
  /\ live' = c /\ tries' = 0 /\ issued' = issued \cup {c}
  /\ UNCHANGED links

Link ==
  /\ live # None
  /\ live' = None /\ tries' = 0 /\ links' = links + 1
  /\ UNCHANGED issued

Guess ==
  /\ live # None /\ tries + 1 < MaxTries
  /\ tries' = tries + 1
  /\ UNCHANGED <<live, issued, links>>

(* Its time is over, its tries are used up, or the server stops.           *)
Retire ==
  /\ live' = None /\ tries' = 0
  /\ UNCHANGED <<issued, links>>

Next == (\E c \in Codes : Issue(c)) \/ Link \/ Guess \/ Retire

Spec == Init /\ [][Next]_vars
=============================================================================
