------------------------------ MODULE VaultIdle -----------------------------
(***************************************************************************)
(* The vault with the settings page that sets and removes its master       *)
(* password (SecuritySettings) and the idle timer that every call of a     *)
(* window pings before it runs (ipc/util.ts).                              *)
(***************************************************************************)
EXTENDS Vault

VARIABLES
  status,      (* the mode the page shows, "unknown" until it was told     *)
  refresh      (* is the page's vault.status() under way?                  *)

page == <<status, refresh>>

IInit == VaultInit /\ status = "unknown" /\ refresh = FALSE

Off(A) == A /\ UNCHANGED page

(* Mutant of Refreshed: asking for the status does not ping the timer.     *)
RefreshedUntouched ==
  /\ running /\ (refresh \/ status = "unknown")
  /\ status' = mode /\ refresh' = FALSE
  /\ UNCHANGED vaultvars

(* refresh(), when the page opens and after a change that succeeded.       *)
Refreshed ==
  /\ Touch /\ (refresh \/ status = "unknown")
  /\ status' = mode /\ refresh' = FALSE

(* "Set" or "Change master password": without the current one, which the   *)
(* page asks for when it knows of one, a vault in master mode refuses.     *)
SetMaster(k) ==
  /\ status = "master" \/ (status = "keychain" /\ mode = "keychain")
  /\ SetMasterPassword(k)
  /\ refresh' = TRUE /\ UNCHANGED status

(* "Remove", a button of a page that shows a master password.              *)
RemoveMaster(c) == status = "master" /\ Off(RemoveMasterPassword(c))

(* A load goes on; when it ends a removal, the page refreshes.             *)
LoadGoesOn(l) ==
  /\ LoadStep(l)
  /\ refresh' = (refresh \/ mode' # mode)
  /\ UNCHANGED status

(* The windows go with the program.                                        *)
CrashAll == Crash /\ status' = "unknown" /\ refresh' = FALSE

INext ==
  \/ Off(Boot) \/ CrashAll
  \/ \E l \in Loaders : LoadGoesOn(l)
  \/ Refreshed \/ Off(Touch) \/ Off(Lock) \/ Off(TimerFires) \/ Off(UnlockVault)
  \/ Off(SaveSecret) \/ Off(DeleteSecrets)
  \/ \E on \in BOOLEAN : Off(SetTimeout(on))
  \/ \E k \in Keys : SetMaster(k)
  \/ \E c \in Calls : RemoveMaster(c)

ISpec == IInit /\ [][INext]_<<vaultvars, page>>

-----------------------------------------------------------------------------

(* An open vault that is to lock when nobody uses it has its timer running:*)
(* however it was opened, re-keyed or given its timeout, no order of calls *)
(* leaves it open for ever. setMasterPassword itself arms no timer in a    *)
(* vault that had no password; the page's refresh does.                    *)
OpenVaultIsTimed ==
  /\ VaultTyped
  /\ running /\ mode = "master" /\ mem # NoKey /\ timeout /\ ~refresh => timer
=============================================================================
