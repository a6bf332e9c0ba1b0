------------------------------ MODULE Snippets ------------------------------
(***************************************************************************)
(* Multi-line snippets: src/utils/runCommands.ts, started from the panel   *)
(* of src/components/sidebar/SnippetsPanel.tsx. A job sends a block to a   *)
(* terminal one line at a time and waits for the shell prompt before the   *)
(* next: what is typed ahead may be flushed by the command that runs.      *)
(*                                                                         *)
(* Of the output only its tail matters, and of the tail whether it looks   *)
(* like a prompt. The 300 ms timer is `quiet` (re-armed by every chunk),   *)
(* the 10 minute timer `hard`.                                             *)
(***************************************************************************)
EXTENDS TabStore

CONSTANTS
    Jobs,       \* runs of a snippet
    Lines,      \* how many lines the snippet has
    Terminals   \* the panes (by number) that snippets are sent to

VARIABLES
    job,        \* per run: where it stands
    shell       \* per terminal: the command that runs, what is typed ahead, what has run

snipvars == <<job, shell>>

ASSUME SnippetAssumption == Lines \in Nat \ {0, 1} /\ Terminals \subseteq Nat

Nothing == <<>>
JobType == [state : {"idle", "asking", "waiting", "done"}, pane : Terminals \cup {NoTab},
            next : 1..(Lines + 1), prompt : BOOLEAN, quiet : BOOLEAN, hard : BOOLEAN]

SnippetInit ==
    /\ job = [j \in Jobs |-> [state |-> "idle", pane |-> NoTab, next |-> 1,
                              prompt |-> FALSE, quiet |-> FALSE, hard |-> FALSE]]
    /\ shell = [p \in Terminals |-> [busy |-> Nothing, ahead |-> <<>>, ran |-> <<>>]]

Mode(m) == m \in scene.snippets
Alive(p) == p \in PanesOf(store.tabs)
ActivePane == IF Focused \in Open THEN TabOf(store.tabs, Focused).active ELSE NoTab

---------------------------------------------------------------------------
(* The terminal.                                                           *)

\* terminal.write: a line for a shell that is busy is typed ahead; one for a pane that
\* is gone goes nowhere.
Written(j, p, line) ==
    IF ~Alive(p) THEN shell
    ELSE IF shell[p].busy = Nothing THEN [shell EXCEPT ![p].busy = <<j, line>>]
    ELSE [shell EXCEPT ![p].ahead = Append(@, <<j, line>>)]

\* onData of every job that waits on p: the new tail, and the quiet timer armed again.
Heard(p, looksLikePrompt) ==
    job' = [j \in Jobs |->
        IF job[j].state = "waiting" /\ job[j].pane = p
        THEN [job[j] EXCEPT !.prompt = looksLikePrompt, !.quiet = TRUE] ELSE job[j]]

\* Output of a running command. Its tail may look like a prompt ("45%").
Output(p) ==
    /\ Alive(p) /\ shell[p].busy # Nothing
    /\ \E looks \in IF Mode("lookalike") THEN BOOLEAN ELSE {FALSE} : Heard(p, looks)
    /\ UNCHANGED <<tabvars, shell>>

\* The command ends and the prompt is printed. What was typed ahead either runs next or
\* was flushed by the command.
CommandEnds(p) ==
    /\ Alive(p) /\ shell[p].busy # Nothing
    /\ Heard(p, TRUE)
    /\ \E ahead \in {shell[p].ahead, <<>>} :
          shell' = [shell EXCEPT ![p] =
              [busy |-> IF ahead = <<>> THEN Nothing ELSE Head(ahead),
               ahead |-> IF ahead = <<>> THEN <<>> ELSE Tail(ahead),
               ran |-> Append(@.ran, @.busy)]]
    /\ UNCHANGED tabvars

---------------------------------------------------------------------------
(* The panel and the sequencer.                                            *)

\* The user sends the snippet to the active pane; its variables are asked for first.
Send(j) ==
    /\ Mode("run") /\ job[j].state = "idle"
    /\ ActivePane \in Terminals
    /\ Mode("hasty") \/ \A k \in Jobs : job[k].pane = ActivePane => job[k].state = "done"
    /\ job' = [job EXCEPT ![j].state = "asking", ![j].pane = ActivePane]
    /\ UNCHANGED <<tabvars, shell>>

\* sendNext: the next line and a fresh wait, or the end of the block.
SendNext(j) ==
    IF job[j].next > Lines
    THEN /\ job' = [job EXCEPT ![j] = [@ EXCEPT !.state = "done", !.prompt = FALSE,
                                                !.quiet = FALSE, !.hard = FALSE]]
         /\ UNCHANGED shell
    ELSE /\ job' = [job EXCEPT ![j] = [@ EXCEPT !.state = "waiting", !.next = job[j].next + 1,
                                                !.prompt = FALSE, !.quiet = FALSE, !.hard = TRUE]]
         /\ shell' = Written(j, job[j].pane, job[j].next)

\* The dialogs of expandSnippet are answered, or dismissed.
Answer(j) ==
    /\ job[j].state = "asking"
    /\ \/ SendNext(j)
       \/ job' = [job EXCEPT ![j].state = "done"] /\ UNCHANGED shell
    /\ UNCHANGED tabvars

\* The output has settled: finish() if its tail looks like a prompt.
Quiet(j) ==
    /\ job[j].state = "waiting" /\ job[j].quiet
    /\ IF job[j].prompt THEN SendNext(j)
       ELSE job' = [job EXCEPT ![j].quiet = FALSE] /\ UNCHANGED shell
    /\ UNCHANGED tabvars

\* Mutant: the long timer only fires while the pane is there.
HardWhileShown(j) ==
    /\ job[j].state = "waiting" /\ job[j].hard
    /\ Alive(job[j].pane) /\ (Mode("slow") \/ (shell[job[j].pane].busy = Nothing /\ ~job[j].quiet))
    /\ SendNext(j)
    /\ UNCHANGED tabvars

\* Ten minutes went by. Without a slow command that happens only where no prompt comes.
Hard(j) ==
    /\ job[j].state = "waiting" /\ job[j].hard
    /\ LET p == job[j].pane
       IN  Mode("slow") \/ ~Alive(p) \/ (shell[p].busy = Nothing /\ ~job[j].quiet)
    /\ SendNext(j)
    /\ UNCHANGED tabvars

SnippetNext ==
    \/ \E p \in Terminals : Output(p) \/ CommandEnds(p)
    \/ \E j \in Jobs : Send(j) \/ Answer(j) \/ Quiet(j) \/ Hard(j)

\* Timers fire, and a command that runs ends (unless its pane goes).
SnippetFairness ==
    /\ \A p \in Terminals : WF_<<tabvars, snipvars>>(CommandEnds(p))
    /\ \A j \in Jobs : WF_<<tabvars, snipvars>>(Quiet(j)) /\ WF_<<tabvars, snipvars>>(Hard(j))
=============================================================================
