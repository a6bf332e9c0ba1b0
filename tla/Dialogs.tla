------------------------------ MODULE Dialogs -------------------------------
(***************************************************************************)
(* The dialogs of a window (store/useUiStore.ts, dialogs/DialogHost.tsx,   *)
(* ui/Modal.tsx): a stack of which only the top is reachable by the mouse, *)
(* closed by popping whatever is on top. Escape reaches every dialog of    *)
(* the stack. The unlock dialog (UnlockVaultDialog.tsx, vaultGuard.ts) is  *)
(* opened by a pane that connects while the vault is locked, and all the   *)
(* panes that wait for it share its one answer.                            *)
(***************************************************************************)
EXTENDS SequencesExt

CONSTANT Windows

VARIABLES
  dialogs,   (* useUiStore.dialogs of each window, the last on top         *)
  asking     (* vaultGuard.pending: panes of the window wait for an answer *)

dlgvars == <<dialogs, asking>>

DialogInit ==
    /\ dialogs = [w \in Windows |-> <<>>]
    /\ asking = [w \in Windows |-> FALSE]

NoDialog == [kind |-> "none"]
Top(w) == IF dialogs[w] = <<>> THEN NoDialog ELSE Last(dialogs[w])

OpenDialog(w, d) == dialogs' = [dialogs EXCEPT ![w] = Append(@, d)]
Popped(stack) == IF stack = <<>> THEN stack ELSE Front(stack)
ChangeTop(w, d) == dialogs' = [dialogs EXCEPT ![w][Len(dialogs[w])] = d]

Unlock == [kind |-> "unlock", answered |-> FALSE]

\* ensureVaultUnlocked finds the vault locked: it opens the dialog unless one is pending.
AskVault(w) ==
    /\ ~asking[w]
    /\ asking' = [asking EXCEPT ![w] = TRUE]
    /\ OpenDialog(w, Unlock)

\* The right password, or a cancel: the waiting panes are answered once, and only the
\* answer closes the dialog.
AnswerUnlock(w) ==
    /\ Top(w).kind = "unlock" /\ ~Top(w).answered
    /\ asking' = [asking EXCEPT ![w] = FALSE]
    /\ dialogs' = [dialogs EXCEPT ![w] = Popped(@)]

\* The cross, the backdrop or Cancel of the top dialog.
CloseTop(w) ==
    /\ Top(w).kind \notin {"none", "unlock"}
    /\ dialogs' = [dialogs EXCEPT ![w] = Popped(@)]
    /\ UNCHANGED asking

\* Mutant: Escape only closes.
EscapePops(w) ==
    /\ dialogs[w] # <<>>
    /\ dialogs' = [dialogs EXCEPT ![w] = Front(@)]
    /\ UNCHANGED asking

\* Escape: the top closes; an unlock dialog below it answers "no" and stays.
Escape(w) ==
    /\ dialogs[w] # <<>>
    /\ LET answered == [i \in DOMAIN dialogs[w] |->
                           IF dialogs[w][i].kind = "unlock" THEN [dialogs[w][i] EXCEPT !.answered = TRUE]
                           ELSE dialogs[w][i]]
           dead == Top(w).kind = "unlock" /\ Top(w).answered
       IN /\ dialogs' = [dialogs EXCEPT ![w] = IF dead THEN answered ELSE Front(answered)]
          /\ asking' = [asking EXCEPT ![w] = @ /\ \A d \in ToSet(dialogs[w]) : d.kind # "unlock"]
=============================================================================
