-------------------------- MODULE SshConnectProofs --------------------------
(***************************************************************************)
(* Proofs about SshConnect, for every set of attempts, panes, windows and  *)
(* keys: who is asked while a session connects, and when a key is pinned.  *)
(*                                                                         *)
(* The invariant has four parts: the types; the attempts (what is          *)
(* unattended is a phone's, the clock runs); the prompts (a pending one is *)
(* its tab's, and a patient user sees it where the pane is); the pins (what*)
(* was known of a host when its question was asked is known still).        *)
(***************************************************************************)
EXTENDS SshConnect, TLAPS

Phases == {"idle", "creds", "dial", "hostkey", "auth", "kbi", "shell", "live", "failed"}
Modal == [hostKey : Prompt \cup {None}, kbi : Attempts \cup {None}, cred : Attempts \cup {None}]

Shapes ==
  /\ scene \in Scenes /\ stored \in BOOLEAN
  /\ pins \in [Hosts -> Keys \cup {None}]
  /\ phase \in [Attempts -> Phases]
  /\ hop \in [Attempts -> Hosts] /\ clock \in [Attempts -> BOOLEAN]
  /\ asks \in [Attempts -> 0 .. MaxAsks]
  /\ owner \in [Tabs -> Windows \cup {None}]
  /\ pendHostKey \in [Tabs -> Prompt \cup {None}]
  /\ pendKbi \in [Tabs -> Attempts \cup {None}]
  /\ pendCred \in [Tabs -> Attempts \cup {None}]
  /\ modal \in [Windows -> Modal]

-----------------------------------------------------------------------------
(* The attempts.                                                           *)

(* The panes with no window behind them are those of the phone attempts on *)
(* their way to a shell.                                                   *)
UnattendedIsPhones ==
  unattended = {Tab(a) : a \in {b \in scene.phone : phase[b] \in {"dial", "auth"}}}

OneUnder == scene.patient => \A a, b \in Attempts : Under(a) /\ Under(b) => a = b

AttemptPart == UnattendedIsPhones /\ OneUnder /\ PhoneNeverAsks /\ WaitIsBounded

-----------------------------------------------------------------------------
(* The prompts.                                                            *)

PendingIsOfTab ==
  \A t \in Tabs :
    /\ pendCred[t] # None => /\ Tab(pendCred[t]) = t
                             /\ phase[pendCred[t]] = "creds"
                             /\ pendCred[t] \notin scene.phone
    /\ pendHostKey[t] # None => Tab(pendHostKey[t].att) = t

(* Nobody moves a pane: its prompts are in the window it began in.         *)
ShownByOwner ==
  scene.patient =>
    /\ \A t \in Tabs : owner[t] # None
    /\ \A w \in Windows :
         /\ modal[w].hostKey # None => owner[Tab(modal[w].hostKey.att)] = w
         /\ modal[w].kbi # None => owner[Tab(modal[w].kbi)] = w
         /\ modal[w].cred # None => owner[Tab(modal[w].cred)] = w

OwnerShows ==
  scene.patient => \A a \in Attempts :
    /\ phase[a] = "kbi" => modal[owner[Tab(a)]].kbi = a /\ pendKbi[Tab(a)] = a
    /\ phase[a] = "creds" => modal[owner[Tab(a)]].cred = a /\ pendCred[Tab(a)] = a

PromptPart == PendingIsOfTab /\ ShownByOwner /\ OwnerShows /\ AnswerIsForShown

-----------------------------------------------------------------------------
(* The pins. With one pane, a host that was unknown when the pending       *)
(* question was asked is unknown still; strict mode asks of no unknown one,*)
(* and auto-accept asks nothing.                                           *)
PinPart ==
  /\ scene.strictness = "auto-accept" => \A t \in Tabs : pendHostKey[t] = None
  /\ OnePane => \A t \in Tabs : pendHostKey[t] # None /\ ~pendHostKey[t].changed
                         => pins[pendHostKey[t].host] = None
  /\ scene.strictness = "strict" =>
       \A t \in Tabs : pendHostKey[t] # None => pins[pendHostKey[t].host] # None

IInv == Shapes /\ AttemptPart /\ PromptPart /\ PinPart

-----------------------------------------------------------------------------
(* What the scene says.                                                    *)

LEMMA TabFacts ==
  ASSUME Shapes
  PROVE  /\ \A a \in Attempts : Tab(a) \in Tabs
         /\ scene.phone \subseteq Attempts
         /\ \A a \in scene.phone, b \in Attempts : Tab(a) = Tab(b) => a = b
BY SceneAssumption DEF Shapes, Tab

LEMMA NoneFacts == None \notin Attempts /\ None \notin Tabs /\ None \notin Windows /\ None \notin Keys
BY NoneAssumption

(* A prompt is a record, and None is not one where it matters: what is in  *)
(* a slot and is not None is a prompt.                                     *)
LEMMA SlotFacts ==
  ASSUME Shapes
  PROVE  /\ \A t \in Tabs : pendHostKey[t] # None => pendHostKey[t] \in Prompt
         /\ \A t \in Tabs : pendKbi[t] # None => pendKbi[t] \in Attempts
         /\ \A t \in Tabs : pendCred[t] # None => pendCred[t] \in Attempts
         /\ \A w \in Windows : modal[w].hostKey # None => modal[w].hostKey \in Prompt
         /\ \A w \in Windows : modal[w].kbi # None => modal[w].kbi \in Attempts
         /\ \A w \in Windows : modal[w].cred # None => modal[w].cred \in Attempts
BY DEF Shapes, Modal

LEMMA InvImplies == IInv => PromptsAgree
<1> SUFFICES ASSUME IInv PROVE PromptsAgree
  OBVIOUS
<1>1. unattended \subseteq {Tab(a) : a \in {b \in scene.phone : Under(b)}}
  BY TabFacts DEF IInv, AttemptPart, UnattendedIsPhones, Under
<1>2. TypeOK
  BY <1>1 DEF IInv, Shapes, TypeOK, Phases, Modal
<1>3. AskedIsShown
  <2> SUFFICES ASSUME scene.patient, NEW a \in Attempts
      PROVE  /\ phase[a] = "kbi" => \E w \in Windows : modal[w].kbi = a /\ pendKbi[Tab(a)] = a
             /\ phase[a] = "creds" => \E w \in Windows : modal[w].cred = a /\ pendCred[Tab(a)] = a
    BY DEF AskedIsShown
  <2>1. owner[Tab(a)] \in Windows
    BY TabFacts DEF IInv, PromptPart, ShownByOwner, Shapes
  <2> QED
    BY <2>1 DEF IInv, PromptPart, OwnerShows
<1> QED
  BY <1>2, <1>3 DEF IInv, AttemptPart, PromptPart, PromptsAgree

LEMMA InitInv == Init => IInv
<1> SUFFICES ASSUME Init PROVE IInv
  OBVIOUS
<1>1. Shapes
  BY SceneAssumption, MaxAsksAssumption DEF Init, Shapes, Phases, Modal, NoModal, Hosts
<1>2. AttemptPart
  <2>1. UnattendedIsPhones
    BY <1>1, TabFacts DEF Init, UnattendedIsPhones
  <2> QED
    BY <2>1, <1>1, TabFacts DEF Init, AttemptPart, OneUnder, Under, PhoneNeverAsks, WaitIsBounded
<1>3. PromptPart
  BY <1>1, NoneFacts, TabFacts
     DEF Init, PromptPart, PendingIsOfTab, ShownByOwner, OwnerShows, AnswerIsForShown, NoModal
<1>4. PinPart
  BY DEF Init, PinPart
<1> QED
  BY <1>1, <1>2, <1>3, <1>4 DEF IInv

-----------------------------------------------------------------------------
(* Steps that leave the prompts alone.                                     *)

(* An attempt that ends takes its pane out of the unattended ones.         *)
LEMMA FailKeepsAttempts ==
  ASSUME Shapes, AttemptPart, NEW a \in Attempts, Fail(a), scene' = scene
  PROVE  AttemptPart'
<1>1. UnattendedIsPhones'
  <2>1. \A b \in scene.phone : b # a => phase'[b] = phase[b] /\ Tab(b) # Tab(a)
    BY TabFacts DEF Fail, Shapes
  <2>2. phase'[a] = "failed"
    BY DEF Fail, Shapes
  <2> QED
    BY <2>1, <2>2 DEF AttemptPart, UnattendedIsPhones, Fail, Tab
<1>2. OneUnder'
  BY DEF AttemptPart, OneUnder, Under, Fail, Shapes
<1>3. PhoneNeverAsks'
  BY TabFacts DEF AttemptPart, PhoneNeverAsks, Fail, Shapes
<1>4. WaitIsBounded'
  BY DEF AttemptPart, WaitIsBounded, Fail, Shapes
<1> QED
  BY <1>1, <1>2, <1>3, <1>4 DEF AttemptPart

(* An attempt goes on, with nobody asked.                                  *)
LEMMA MoveKeepsAttempts ==
  ASSUME Shapes, AttemptPart, NEW a \in Attempts, NEW p \in {"dial", "auth"},
         phase' = [phase EXCEPT ![a] = p], p = "dial" => clock'[a],
         \A b \in Attempts \ {a} : clock'[b] = clock[b],
         phase[a] \in {"dial", "auth"} \/ a \notin scene.phone, Under(a),
         UNCHANGED <<scene, unattended>>
  PROVE  AttemptPart'
<1>1. UnattendedIsPhones'
  <2>1. \A b \in scene.phone :
          phase'[b] \in {"dial", "auth"} <=> phase[b] \in {"dial", "auth"}
    BY TabFacts DEF Shapes
  <2> QED
    BY <2>1 DEF AttemptPart, UnattendedIsPhones, Tab
<1>2. OneUnder'
  BY DEF AttemptPart, OneUnder, Under, Shapes
<1>3. PhoneNeverAsks'
  BY TabFacts DEF AttemptPart, PhoneNeverAsks, Shapes
<1>4. WaitIsBounded'
  BY DEF AttemptPart, WaitIsBounded, Shapes
<1> QED
  BY <1>1, <1>2, <1>3, <1>4 DEF AttemptPart

LEMMA QuietKeepsPrompts ==
  ASSUME Shapes, PromptPart, UNCHANGED <<scene, owner, pending, modal>>,
         \A a \in Attempts : phase'[a] = phase[a]
                             \/ (phase[a] # "creds" /\ phase'[a] \notin {"creds", "kbi"})
  PROVE  PromptPart'
<1>1. PendingIsOfTab'
  BY SlotFacts DEF PromptPart, PendingIsOfTab, pending, Tab
<1>2. ShownByOwner'
  BY DEF PromptPart, ShownByOwner, pending, Tab
<1>3. OwnerShows'
  BY DEF PromptPart, OwnerShows, pending, Tab
<1>4. AnswerIsForShown'
  BY DEF PromptPart, AnswerIsForShown, pending, Tab
<1> QED
  BY <1>1, <1>2, <1>3, <1>4 DEF PromptPart

LEMMA SamePinsKept ==
  ASSUME PinPart, UNCHANGED <<scene, pins, pendHostKey>>
  PROVE  PinPart'
BY DEF PinPart, OnePane, Tab

(* A step that only ends an attempt.                                       *)
LEMMA FailKeepsInv ==
  ASSUME IInv, NEW a \in Attempts, Fail(a), phase[a] # "creds",
         asks' \in [Attempts -> 0 .. MaxAsks],
         UNCHANGED <<scene, stored, pins, hop, owner, pending, modal>>
  PROVE  IInv'
<1>1. Shapes'
  BY DEF IInv, Shapes, Fail, pending, Phases, Modal
<1>2. AttemptPart'
  BY FailKeepsAttempts DEF IInv
<1>3. PromptPart'
  <2>1. \A b \in Attempts : phase'[b] = phase[b]
                             \/ (phase[b] # "creds" /\ phase'[b] \notin {"creds", "kbi"})
    BY DEF Fail, IInv, Shapes
  <2> QED
    BY <2>1, QuietKeepsPrompts DEF IInv
<1>4. PinPart'
  BY SamePinsKept DEF IInv, pending
<1> QED
  BY <1>1, <1>2, <1>3, <1>4 DEF IInv

LEMMA QuietSteps ==
  ASSUME IInv, NEW a \in Attempts,
         \/ TimesOut(a) \/ ConnFails(a) \/ NobodyAnswers(a)
         \/ \E k \in Keys : KeyRefused(a, k)
  PROVE  IInv'
<1>1. /\ Fail(a) /\ phase[a] # "creds"
      /\ UNCHANGED <<scene, stored, pins, hop, owner, pending, modal>>
  BY DEF TimesOut, ConnFails, NobodyAnswers, AsksLogin, KeyRefused, pending
<1>2. asks' \in [Attempts -> 0 .. MaxAsks]
  <2>1. asks' = asks \/ (asks[a] < MaxAsks /\ asks' = [asks EXCEPT ![a] = @ + 1])
    BY DEF TimesOut, ConnFails, NobodyAnswers, AsksLogin, KeyRefused
  <2> QED
    BY <2>1, MaxAsksAssumption DEF IInv, Shapes
<1> QED
  BY <1>1, <1>2, FailKeepsInv

LEMMA KeyTrustedStep ==
  ASSUME IInv, NEW a \in Attempts, NEW k \in Keys, KeyTrusted(a, k)
  PROVE  IInv'
<1>1. Shapes'
  BY DEF IInv, Shapes, KeyTrusted, Enter, pending, attempt, Phases, Modal
<1>2. AttemptPart'
  BY MoveKeepsAttempts DEF IInv, KeyTrusted, Enter, Under
<1>3. PromptPart'
  <2>1. \A b \in Attempts : phase'[b] = phase[b]
                             \/ (phase[b] # "creds" /\ phase'[b] \notin {"creds", "kbi"})
    BY DEF KeyTrusted, Enter, IInv, Shapes
  <2> QED
    BY <2>1, QuietKeepsPrompts DEF IInv, KeyTrusted
<1>4. PinPart'
  <2>1. CASE scene.strictness = "auto-accept"
    BY <2>1 DEF IInv, PinPart, KeyTrusted, pending
  <2>2. CASE scene.strictness # "auto-accept"
    <3>1. pins' = pins
      BY <2>2 DEF KeyTrusted, Trusted, IInv, Shapes
    <3> QED
      BY <3>1, SamePinsKept DEF IInv, KeyTrusted, pending
  <2> QED
    BY <2>1, <2>2
<1> QED
  BY <1>1, <1>2, <1>3, <1>4 DEF IInv

(* The clock stops, and the attempt stays where it is.                     *)
LEMMA ClockSteps ==
  ASSUME IInv, NEW a \in Attempts, Banner(a) \/ AnswersItself(a)
  PROVE  IInv'
<1>1. /\ phase[a] = "auth" /\ clock' = [clock EXCEPT ![a] = FALSE]
      /\ UNCHANGED <<scene, stored, pins, phase, hop, unattended, owner, pendHostKey,
                     pendKbi, pendCred, modal>>
  BY DEF Banner, AnswersItself, AsksLogin, pending
<1>2. asks' \in [Attempts -> 0 .. MaxAsks]
  <2>1. asks' = asks \/ (asks[a] < MaxAsks /\ asks' = [asks EXCEPT ![a] = @ + 1])
    BY DEF Banner, AnswersItself, AsksLogin
  <2> QED
    BY <2>1, MaxAsksAssumption DEF IInv, Shapes
<1>3. Shapes'
  BY <1>1, <1>2 DEF IInv, Shapes
<1>4. AttemptPart'
  BY <1>1 DEF IInv, Shapes, AttemptPart, UnattendedIsPhones, OneUnder, Under, PhoneNeverAsks,
              WaitIsBounded, Tab
<1>5. PromptPart'
  BY <1>1, QuietKeepsPrompts DEF IInv, pending
<1>6. PinPart'
  BY <1>1, SamePinsKept DEF IInv
<1> QED
  BY <1>3, <1>4, <1>5, <1>6 DEF IInv

LEMMA JumpReadyStep ==
  ASSUME IInv, NEW a \in Attempts, JumpReady(a)
  PROVE  IInv'
<1>1. Shapes'
  BY DEF IInv, Shapes, JumpReady, Dial, pending, Phases, Hosts
<1>2. AttemptPart'
  BY MoveKeepsAttempts DEF IInv, Shapes, JumpReady, Dial, Under
<1>3. PromptPart'
  <2>1. \A b \in Attempts : phase'[b] = phase[b]
                             \/ (phase[b] # "creds" /\ phase'[b] \notin {"creds", "kbi"})
    BY DEF JumpReady, Dial, IInv, Shapes
  <2> QED
    BY <2>1, QuietKeepsPrompts DEF IInv, JumpReady
<1>4. PinPart'
  BY SamePinsKept DEF IInv, JumpReady, pending
<1> QED
  BY <1>1, <1>2, <1>3, <1>4 DEF IInv

(* The shell: a window is behind the pane from here on.                    *)
LEMMA ShellSteps ==
  ASSUME IInv, NEW a \in Attempts, Ready(a) \/ ShellOpens(a)
  PROVE  IInv'
<1>1. /\ UNCHANGED <<scene, stored, pins, hop, asks, owner, pending, modal>>
      /\ phase[a] \in {"auth", "shell"}
      /\ \/ phase' = [phase EXCEPT ![a] = "shell"]
         \/ phase' = [phase EXCEPT ![a] = "live"]
  BY DEF Ready, ShellOpens, Enter
<1>2. clock' = clock \/ clock' = [clock EXCEPT ![a] = FALSE]
  BY DEF Ready, ShellOpens
<1>3. Shapes'
  BY <1>1, <1>2 DEF IInv, Shapes, pending, Phases
<1>4. AttemptPart'
  <2>1. UnattendedIsPhones'
    <3>1. CASE Ready(a)
      <4>1. \A b \in scene.phone : b # a => phase'[b] = phase[b] /\ Tab(b) # Tab(a)
        BY <3>1, TabFacts DEF Ready, Enter, IInv, Shapes
      <4>2. phase'[a] = "shell"
        BY <3>1 DEF Ready, Enter, IInv, Shapes
      <4> QED
        BY <3>1, <4>1, <4>2 DEF IInv, AttemptPart, UnattendedIsPhones, Ready, Tab
    <3>2. CASE ShellOpens(a)
      <4>1. \A b \in scene.phone :
              phase'[b] \in {"dial", "auth"} <=> phase[b] \in {"dial", "auth"}
        BY <3>2, TabFacts DEF ShellOpens, Enter, IInv, Shapes
      <4> QED
        BY <3>2, <4>1 DEF IInv, AttemptPart, UnattendedIsPhones, ShellOpens, Tab
    <3> QED
      BY <3>1, <3>2
  <2>2. OneUnder'
    BY <1>1 DEF IInv, AttemptPart, OneUnder, Under, Shapes
  <2>3. PhoneNeverAsks'
    BY <1>1, TabFacts DEF IInv, AttemptPart, PhoneNeverAsks, Shapes
  <2>4. WaitIsBounded'
    BY <1>1, <1>2 DEF IInv, AttemptPart, WaitIsBounded, Shapes
  <2> QED
    BY <2>1, <2>2, <2>3, <2>4 DEF AttemptPart
<1>5. PromptPart'
  <2>1. \A b \in Attempts : phase'[b] = phase[b]
                             \/ (phase[b] # "creds" /\ phase'[b] \notin {"creds", "kbi"})
    BY <1>1 DEF IInv, Shapes
  <2> QED
    BY <1>1, <2>1, QuietKeepsPrompts DEF IInv
<1>6. PinPart'
  BY <1>1, SamePinsKept DEF IInv, pending
<1> QED
  BY <1>3, <1>4, <1>5, <1>6 DEF IInv

(* The pane is closed or torn off, which a patient user does not do.       *)
LEMMA OwnerSteps ==
  ASSUME IInv, NEW t \in Tabs, ClosePane(t) \/ \E w \in Windows : TearOff(t, w)
  PROVE  IInv'
<1>1. /\ ~scene.patient
      /\ UNCHANGED <<scene, stored, pins, phase, hop, clock, asks, unattended, pendHostKey,
                     pendKbi, pendCred, modal>>
      /\ owner' \in [Tabs -> Windows \cup {None}]
  BY DEF ClosePane, TearOff, attempt, pending, IInv, Shapes
<1>2. Shapes'
  BY <1>1 DEF IInv, Shapes
<1>3. AttemptPart'
  BY <1>1 DEF IInv, AttemptPart, UnattendedIsPhones, OneUnder, Under, PhoneNeverAsks,
              WaitIsBounded, Tab
<1>4. PromptPart'
  BY <1>1 DEF IInv, PromptPart, PendingIsOfTab, ShownByOwner, OwnerShows, AnswerIsForShown, Tab
<1>5. PinPart'
  BY <1>1, SamePinsKept DEF IInv
<1> QED
  BY <1>2, <1>3, <1>4, <1>5 DEF IInv

-----------------------------------------------------------------------------
(* Steps that ask or answer.                                               *)

LEMMA StartStep ==
  ASSUME IInv, NEW a \in Attempts, Start(a)
  PROVE  IInv'
<1>1. Shapes'
  BY DEF IInv, Shapes, Start, Dial, FirstHop, pending, Phases, Hosts
<1>2. AttemptPart'
  <2>1. UnattendedIsPhones'
    <3>1. phase'[a] = "dial" /\ phase[a] = "idle" /\ scene' = scene
          /\ \A b \in Attempts : b # a => phase'[b] = phase[b]
      BY DEF Start, MayStart, Dial, IInv, Shapes
    <3>2. CASE a \in scene.phone
      BY <3>1, <3>2, TabFacts DEF Start, IInv, AttemptPart, UnattendedIsPhones, Tab
    <3>3. CASE a \notin scene.phone
      BY <3>1, <3>3, TabFacts DEF Start, IInv, AttemptPart, UnattendedIsPhones, Tab
    <3> QED
      BY <3>2, <3>3
  <2>2. OneUnder'
    BY DEF Start, MayStart, Dial, IInv, AttemptPart, OneUnder, Under, Shapes
  <2>3. PhoneNeverAsks'
    BY TabFacts DEF Start, Dial, IInv, AttemptPart, PhoneNeverAsks, Shapes
  <2>4. WaitIsBounded'
    BY DEF Start, Dial, IInv, AttemptPart, WaitIsBounded, Shapes
  <2> QED
    BY <2>1, <2>2, <2>3, <2>4 DEF AttemptPart
<1>3. PromptPart'
  <2>1. \A b \in Attempts : phase'[b] = phase[b]
                             \/ (phase[b] # "creds" /\ phase'[b] \notin {"creds", "kbi"})
    BY DEF Start, MayStart, Dial, IInv, Shapes
  <2> QED
    BY <2>1, QuietKeepsPrompts DEF IInv, Start
<1>4. PinPart'
  BY SamePinsKept DEF IInv, Start, pending
<1> QED
  BY <1>1, <1>2, <1>3, <1>4 DEF IInv

(* The credential picker, where nobody but the user of a window gets to.   *)
LEMMA StartAsksStep ==
  ASSUME IInv, NEW a \in Attempts, StartAsks(a)
  PROVE  IInv'
<1> USE DEF IInv
<1>1. /\ a \notin scene.phone /\ phase[a] = "idle"
      /\ phase' = [phase EXCEPT ![a] = "creds"]
      /\ pendCred' = [pendCred EXCEPT ![Tab(a)] = a]
      /\ UNCHANGED <<scene, stored, pins, hop, clock, asks, unattended, owner, pendHostKey,
                     pendKbi>>
      /\ Show(Tab(a), "cred", a)
  BY DEF StartAsks, MayStart, Gate
<1>2. Tab(a) \in Tabs
  BY TabFacts
<1>3. Shapes'
  BY <1>1, <1>2 DEF Shapes, Show, Modal, Phases
<1>4. AttemptPart'
  <2>1. UnattendedIsPhones'
    <3>1. \A b \in scene.phone :
            phase'[b] \in {"dial", "auth"} <=> phase[b] \in {"dial", "auth"}
      BY <1>1, TabFacts DEF Shapes
    <3> QED
      BY <1>1, <3>1 DEF AttemptPart, UnattendedIsPhones, Tab
  <2>2. OneUnder'
    BY <1>1 DEF StartAsks, MayStart, AttemptPart, OneUnder, Under, Shapes
  <2>3. PhoneNeverAsks' /\ WaitIsBounded'
    BY <1>1, TabFacts DEF AttemptPart, PhoneNeverAsks, WaitIsBounded, Shapes
  <2> QED
    BY <2>1, <2>2, <2>3 DEF AttemptPart
<1>5. PromptPart'
  <2>1. \A t \in Tabs : pendCred[t] # None => pendCred[t] # a
    BY <1>1 DEF PromptPart, PendingIsOfTab
  <2>2. PendingIsOfTab'
    BY <1>1, <1>2, <2>1, SlotFacts DEF PromptPart, PendingIsOfTab, Tab, Shapes
  <2>3. \A w \in Windows : modal'[w].hostKey = modal[w].hostKey /\ modal'[w].kbi = modal[w].kbi
    BY <1>1 DEF Show, Shapes, Modal
  <2>4. \A w \in Windows : modal'[w].cred = modal[w].cred
                           \/ (modal'[w].cred = a /\ owner[Tab(a)] = w)
    BY <1>1 DEF Show, Shapes, Modal
  <2>5. ShownByOwner'
    BY <1>1, <2>3, <2>4 DEF PromptPart, ShownByOwner, Tab
  <2>6. ASSUME scene.patient
        PROVE  modal'[owner[Tab(a)]].cred = a /\ \A b \in Attempts : ~Under(b)
    <3>1. \A b \in Attempts : ~Under(b)
      BY <2>6 DEF StartAsks, MayStart
    <3>2. unattended = {}
      BY <3>1, TabFacts DEF Under, AttemptPart, UnattendedIsPhones
    <3>3. owner[Tab(a)] \in Windows
      BY <2>6, <1>2 DEF PromptPart, ShownByOwner, Shapes
    <3> QED
      BY <1>1, <3>1, <3>2, <3>3 DEF Show, Shapes, Modal
  <2>7. OwnerShows'
    BY <1>1, <1>2, <2>6 DEF OwnerShows, Under, Tab, Shapes
  <2>8. AnswerIsForShown'
    BY <1>1, <2>3 DEF PromptPart, AnswerIsForShown, Tab
  <2> QED
    BY <2>2, <2>5, <2>7, <2>8 DEF PromptPart
<1>6. PinPart'
  BY <1>1, SamePinsKept
<1> QED
  BY <1>3, <1>4, <1>5, <1>6

(* A picker is closed: what it was about is the pending request of its tab.*)
LEMMA CloseFacts ==
  ASSUME Shapes, NEW w \in Windows
  PROVE  /\ Close(w, "cred") => /\ modal' \in [Windows -> Modal]
                                /\ modal'[w].cred = None
                                /\ \A v \in Windows :
                                     /\ modal'[v].hostKey = modal[v].hostKey
                                     /\ modal'[v].kbi = modal[v].kbi
                                     /\ v # w => modal'[v] = modal[v]
         /\ Close(w, "kbi") => /\ modal' \in [Windows -> Modal]
                               /\ modal'[w].kbi = None
                               /\ \A v \in Windows :
                                    /\ modal'[v].hostKey = modal[v].hostKey
                                    /\ modal'[v].cred = modal[v].cred
                                    /\ v # w => modal'[v] = modal[v]
         /\ Close(w, "hostKey") => /\ modal' \in [Windows -> Modal]
                                   /\ modal'[w].hostKey = None
                                   /\ \A v \in Windows :
                                        /\ modal'[v].kbi = modal[v].kbi
                                        /\ modal'[v].cred = modal[v].cred
                                        /\ v # w => modal'[v] = modal[v]
BY DEF Close, Shapes, Modal

LEMMA CredAnswered ==
  ASSUME IInv, NEW w \in Windows, NEW t \in Tabs, NEW p \in {"dial", "failed"},
         modal[w].cred # None, t = Tab(modal[w].cred),
         pendCred' = [pendCred EXCEPT ![t] = None], Close(w, "cred"),
         IF pendCred[t] # None THEN phase' = [phase EXCEPT ![pendCred[t]] = p]
         ELSE phase' = phase,
         UNCHANGED <<scene, owner, pendHostKey, pendKbi>>
  PROVE  PromptPart'
<1> USE DEF IInv
<1>1. \A b \in Attempts : (pendCred[t] # b /\ phase'[b] = phase[b])
                          \/ (pendCred[t] = b /\ phase'[b] \notin {"creds", "kbi"})
  BY SlotFacts, NoneFacts DEF Shapes
<1>2. PendingIsOfTab'
  BY <1>1, SlotFacts DEF PromptPart, PendingIsOfTab, Tab, Shapes
<1>3. \A v \in Windows : /\ modal'[v].hostKey = modal[v].hostKey
                         /\ modal'[v].kbi = modal[v].kbi
                         /\ v # w => modal'[v].cred = modal[v].cred
                         /\ v = w => modal'[v].cred = None
  BY CloseFacts
<1>4. ShownByOwner'
  BY <1>3 DEF PromptPart, ShownByOwner, Tab
<1>5. OwnerShows'
  <2> SUFFICES ASSUME scene.patient, NEW b \in Attempts
      PROVE  /\ phase'[b] = "kbi" => modal'[owner[Tab(b)]].kbi = b /\ pendKbi[Tab(b)] = b
             /\ phase'[b] = "creds" => modal'[owner[Tab(b)]].cred = b /\ pendCred'[Tab(b)] = b
    BY DEF OwnerShows, Tab
  <2>1. Tab(b) \in Tabs /\ owner[Tab(b)] \in Windows
    BY TabFacts DEF PromptPart, ShownByOwner, Shapes
  <2>2. CASE phase'[b] = "kbi"
    BY <1>1, <1>3, <2>1, <2>2 DEF PromptPart, OwnerShows
  <2>3. CASE phase'[b] = "creds"
    <3>1. pendCred[t] # b /\ modal[owner[Tab(b)]].cred = b /\ pendCred[Tab(b)] = b
      BY <1>1, <2>3 DEF PromptPart, OwnerShows
    <3>2. owner[Tab(b)] # w /\ Tab(b) # t
      BY <3>1
    <3> QED
      BY <1>3, <2>1, <2>3, <3>1, <3>2 DEF Shapes
  <2> QED
    BY <2>2, <2>3
<1>6. AnswerIsForShown'
  BY <1>3 DEF PromptPart, AnswerIsForShown, Tab
<1> QED
  BY <1>2, <1>4, <1>5, <1>6 DEF PromptPart

LEMMA SubmitStep ==
  ASSUME IInv, NEW w \in Windows, SubmitCredentials(w)
  PROVE  IInv'
<1> USE DEF IInv
<1> DEFINE t == Tab(modal[w].cred)
           a == pendCred[t]
<1>1. /\ modal[w].cred # None /\ stored' = TRUE
      /\ pendCred' = [pendCred EXCEPT ![t] = None]
      /\ IF a # None THEN Dial(a, FirstHop) ELSE UNCHANGED <<phase, hop, clock>>
      /\ Close(w, "cred")
      /\ UNCHANGED <<scene, pins, asks, unattended, owner, pendHostKey, pendKbi>>
  BY DEF SubmitCredentials
<1>2. t \in Tabs
  BY <1>1, SlotFacts, TabFacts
<1>3. a # None => a \in Attempts /\ phase[a] = "creds" /\ a \notin scene.phone
  BY <1>2, SlotFacts DEF PromptPart, PendingIsOfTab
<1>4. Shapes'
  <2>1. FirstHop \in Hosts
    BY DEF FirstHop, Hosts
  <2>2. phase' \in [Attempts -> Phases] /\ hop' \in [Attempts -> Hosts]
        /\ clock' \in [Attempts -> BOOLEAN]
    BY <1>1, <1>3, <2>1 DEF Dial, Shapes, Phases
  <2> QED
    BY <1>1, <1>2, <2>2, CloseFacts DEF Shapes
<1>5. AttemptPart'
  <2>1. CASE a = None
    BY <1>1, <2>1 DEF AttemptPart, UnattendedIsPhones, OneUnder, Under, PhoneNeverAsks,
                      WaitIsBounded, Tab
  <2>2. CASE a # None
    <3>1. phase' = [phase EXCEPT ![a] = "dial"] /\ clock'[a]
          /\ \A b \in Attempts \ {a} : clock'[b] = clock[b]
      BY <1>1, <1>3, <2>2 DEF Dial, Shapes
    <3> QED
      BY <1>1, <1>3, <2>2, <3>1, MoveKeepsAttempts DEF Under
  <2> QED
    BY <2>1, <2>2
<1>6. PromptPart'
  <2>1. IF a # None THEN phase' = [phase EXCEPT ![a] = "dial"] ELSE phase' = phase
    BY <1>1 DEF Dial
  <2> QED
    BY <1>1, <1>2, <2>1, CredAnswered
<1>7. PinPart'
  BY <1>1, SamePinsKept
<1> QED
  BY <1>4, <1>5, <1>6, <1>7

LEMMA CancelStep ==
  ASSUME IInv, NEW w \in Windows, CancelCredentials(w)
  PROVE  IInv'
<1> USE DEF IInv
<1> DEFINE t == Tab(modal[w].cred)
           a == pendCred[t]
<1>1. /\ modal[w].cred # None
      /\ pendCred' = [pendCred EXCEPT ![t] = None]
      /\ IF a # None THEN Fail(a) ELSE UNCHANGED <<phase, clock, unattended>>
      /\ Close(w, "cred")
      /\ UNCHANGED <<scene, stored, pins, hop, asks, owner, pendHostKey, pendKbi>>
  BY DEF CancelCredentials
<1>2. t \in Tabs
  BY <1>1, SlotFacts, TabFacts
<1>3. a # None => a \in Attempts
  BY <1>2, SlotFacts
<1>4. Shapes'
  <2>1. phase' \in [Attempts -> Phases] /\ clock' \in [Attempts -> BOOLEAN]
    BY <1>1, <1>3 DEF Fail, Shapes, Phases
  <2> QED
    BY <1>1, <1>2, <2>1, CloseFacts DEF Shapes
<1>5. AttemptPart'
  <2>1. CASE a = None
    BY <1>1, <2>1 DEF AttemptPart, UnattendedIsPhones, OneUnder, Under, PhoneNeverAsks,
                      WaitIsBounded, Tab
  <2>2. CASE a # None
    BY <1>1, <1>3, <2>2, FailKeepsAttempts
  <2> QED
    BY <2>1, <2>2
<1>6. PromptPart'
  <2>1. IF a # None THEN phase' = [phase EXCEPT ![a] = "failed"] ELSE phase' = phase
    BY <1>1 DEF Fail
  <2> QED
    BY <1>1, <1>2, <2>1, CredAnswered
<1>7. PinPart'
  BY <1>1, SamePinsKept
<1> QED
  BY <1>4, <1>5, <1>6, <1>7

(* A login question, which is put to the window of the pane.               *)
LEMMA AsksUserStep ==
  ASSUME IInv, NEW a \in Attempts, AsksUser(a)
  PROVE  IInv'
<1> USE DEF IInv
<1>1. /\ phase[a] = "auth" /\ Tab(a) \notin unattended
      /\ asks[a] < MaxAsks /\ asks' = [asks EXCEPT ![a] = @ + 1]
      /\ phase' = [phase EXCEPT ![a] = "kbi"]
      /\ clock' = [clock EXCEPT ![a] = FALSE]
      /\ pendKbi' = [pendKbi EXCEPT ![Tab(a)] = a]
      /\ UNCHANGED <<scene, stored, pins, hop, unattended, owner, pendHostKey, pendCred>>
      /\ Show(Tab(a), "kbi", a)
  BY DEF AsksUser, AsksLogin, Enter
<1>2. Tab(a) \in Tabs
  BY TabFacts
<1>3. a \notin scene.phone
  BY <1>1 DEF AttemptPart, UnattendedIsPhones
<1>4. Shapes'
  <2>1. asks' \in [Attempts -> 0 .. MaxAsks]
    BY <1>1, MaxAsksAssumption DEF Shapes
  <2> QED
    BY <1>1, <1>2, <2>1 DEF Shapes, Show, Modal, Phases
<1>5. AttemptPart'
  <2>1. UnattendedIsPhones'
    <3>1. \A b \in scene.phone :
            phase'[b] \in {"dial", "auth"} <=> phase[b] \in {"dial", "auth"}
      BY <1>1, <1>3, TabFacts DEF Shapes
    <3> QED
      BY <1>1, <3>1 DEF AttemptPart, UnattendedIsPhones, Tab
  <2>2. OneUnder'
    BY <1>1 DEF AttemptPart, OneUnder, Under, Shapes
  <2>3. PhoneNeverAsks'
    BY <1>1, <1>3, TabFacts DEF AttemptPart, PhoneNeverAsks, Shapes
  <2>4. WaitIsBounded'
    BY <1>1 DEF AttemptPart, WaitIsBounded, Shapes
  <2> QED
    BY <2>1, <2>2, <2>3, <2>4 DEF AttemptPart
<1>6. PromptPart'
  <2>1. PendingIsOfTab'
    BY <1>1, <1>2, SlotFacts, NoneFacts DEF PromptPart, PendingIsOfTab, Tab, Shapes
  <2>2. \A w \in Windows : modal'[w].hostKey = modal[w].hostKey
                           /\ modal'[w].cred = modal[w].cred
    BY <1>1 DEF Show, Shapes, Modal
  <2>3. \A w \in Windows : modal'[w].kbi = modal[w].kbi
                           \/ (modal'[w].kbi = a /\ owner[Tab(a)] = w)
    BY <1>1 DEF Show, Shapes, Modal
  <2>4. ShownByOwner'
    BY <1>1, <2>2, <2>3 DEF PromptPart, ShownByOwner, Tab
  <2>5. OwnerShows'
    <3> SUFFICES ASSUME scene.patient
        PROVE  \A b \in Attempts :
                 /\ phase'[b] = "kbi" => modal'[owner[Tab(b)]].kbi = b /\ pendKbi'[Tab(b)] = b
                 /\ phase'[b] # "creds"
      BY <1>1 DEF OwnerShows, Tab
    <3>1. \A b \in Attempts : phase'[b] \in {"kbi", "creds"} => b = a
      BY <1>1 DEF AttemptPart, OneUnder, Under, Shapes
    <3>2. owner[Tab(a)] \in Windows
      BY <1>2 DEF PromptPart, ShownByOwner, Shapes
    <3>3. modal'[owner[Tab(a)]].kbi = a
      BY <1>1, <3>2 DEF Show, Shapes, Modal
    <3> QED
      BY <1>1, <1>2, <3>1, <3>3 DEF Shapes
  <2>6. AnswerIsForShown'
    BY <1>1, <2>2 DEF PromptPart, AnswerIsForShown, Tab
  <2> QED
    BY <2>1, <2>4, <2>5, <2>6 DEF PromptPart
<1>7. PinPart'
  BY <1>1, SamePinsKept
<1> QED
  BY <1>4, <1>5, <1>6, <1>7

LEMMA AnswerKbiStep ==
  ASSUME IInv, NEW w \in Windows, AnswerKbi(w)
  PROVE  IInv'
<1> USE DEF IInv
<1> DEFINE t == Tab(modal[w].kbi)
           a == pendKbi[t]
<1>1. /\ modal[w].kbi # None /\ Close(w, "kbi")
      /\ pendKbi' = [pendKbi EXCEPT ![t] = None]
      /\ IF a # None /\ phase[a] = "kbi" THEN Enter(a, "auth") ELSE UNCHANGED phase
      /\ UNCHANGED <<scene, stored, pins, hop, clock, asks, unattended, owner, pendHostKey,
                     pendCred>>
  BY DEF AnswerKbi
<1>2. t \in Tabs /\ (a # None => a \in Attempts)
  BY <1>1, SlotFacts, TabFacts
<1>3. Shapes'
  <2>1. phase' \in [Attempts -> Phases]
    BY <1>1, <1>2 DEF Enter, Shapes, Phases
  <2> QED
    BY <1>1, <1>2, <2>1, CloseFacts DEF Shapes
<1>4. AttemptPart'
  <2>1. CASE a # None /\ phase[a] = "kbi"
    BY <1>1, <1>2, <2>1, MoveKeepsAttempts DEF Enter, Under, AttemptPart, PhoneNeverAsks
  <2>2. CASE ~(a # None /\ phase[a] = "kbi")
    BY <1>1, <2>2 DEF AttemptPart, UnattendedIsPhones, OneUnder, Under, PhoneNeverAsks,
                      WaitIsBounded, Tab
  <2> QED
    BY <2>1, <2>2
<1>5. PromptPart'
  <2>1. \A b \in Attempts : phase'[b] = phase[b]
                             \/ (phase[b] = "kbi" /\ a = b /\ phase'[b] = "auth")
    BY <1>1, <1>2 DEF Enter, Shapes
  <2>2. \A v \in Windows : /\ modal'[v].hostKey = modal[v].hostKey
                           /\ modal'[v].cred = modal[v].cred
                           /\ v # w => modal'[v].kbi = modal[v].kbi
                           /\ v = w => modal'[v].kbi = None
    BY <1>1, CloseFacts
  <2>3. PendingIsOfTab'
    BY <1>1, <1>2, <2>1, SlotFacts DEF PromptPart, PendingIsOfTab, Tab, Shapes
  <2>4. ShownByOwner'
    BY <1>1, <2>2 DEF PromptPart, ShownByOwner, Tab
  <2>5. OwnerShows'
    <3> SUFFICES ASSUME scene.patient, NEW b \in Attempts
        PROVE  /\ phase'[b] = "kbi" => modal'[owner[Tab(b)]].kbi = b /\ pendKbi'[Tab(b)] = b
               /\ phase'[b] = "creds" => modal'[owner[Tab(b)]].cred = b /\ pendCred[Tab(b)] = b
      BY <1>1 DEF OwnerShows, Tab
    <3>1. Tab(b) \in Tabs /\ owner[Tab(b)] \in Windows
      BY TabFacts DEF PromptPart, ShownByOwner, Shapes
    <3>2. CASE phase'[b] = "creds"
      BY <2>1, <2>2, <3>1, <3>2 DEF PromptPart, OwnerShows
    <3>3. CASE phase'[b] = "kbi"
      <4>1. phase[b] = "kbi" /\ modal[owner[Tab(b)]].kbi = b /\ pendKbi[Tab(b)] = b
        BY <2>1, <3>3 DEF PromptPart, OwnerShows
      <4>2. a # b
        BY <1>1, <1>2, <3>3, <4>1, NoneFacts DEF Enter, Shapes
      <4>3. owner[Tab(b)] # w /\ Tab(b) # t
        BY <4>1, <4>2
      <4> QED
        BY <1>1, <2>2, <3>1, <3>3, <4>1, <4>3 DEF Shapes
    <3> QED
      BY <3>2, <3>3
  <2>6. AnswerIsForShown'
    BY <1>1, <2>2 DEF PromptPart, AnswerIsForShown, Tab
  <2> QED
    BY <2>3, <2>4, <2>5, <2>6 DEF PromptPart
<1>6. PinPart'
  BY <1>1, SamePinsKept
<1> QED
  BY <1>3, <1>4, <1>5, <1>6

(* The host-key question, of an attempt that a window stands behind.       *)
LEMMA KeyPromptedStep ==
  ASSUME IInv, NEW a \in Attempts, NEW k \in Keys, KeyPrompted(a, k)
  PROVE  IInv'
<1> USE DEF IInv
<1> DEFINE p == [att |-> a, host |-> hop[a], key |-> k, changed |-> pins[hop[a]] # None]
<1>1. /\ phase[a] = "dial" /\ scene.strictness # "auto-accept"
      /\ ~(scene.strictness = "strict" /\ pins[hop[a]] = None)
      /\ Tab(a) \notin unattended
      /\ phase' = [phase EXCEPT ![a] = "hostkey"]
      /\ pendHostKey' = [pendHostKey EXCEPT ![Tab(a)] = p]
      /\ UNCHANGED <<scene, stored, pins, hop, clock, asks, unattended, owner, pendKbi,
                     pendCred>>
      /\ Show(Tab(a), "hostKey", p)
  BY DEF KeyPrompted, Refused, Enter
<1>2. Tab(a) \in Tabs /\ p \in Prompt /\ p.att = a
  BY TabFacts DEF Shapes, Prompt
<1>3. a \notin scene.phone
  BY <1>1 DEF AttemptPart, UnattendedIsPhones
<1>4. Shapes'
  <2>1. modal' \in [Windows -> Modal]
    BY <1>1, <1>2 DEF Shapes, Show, Modal
  <2> QED
    BY <1>1, <1>2, <2>1 DEF Shapes, Phases
<1>5. AttemptPart'
  <2>1. UnattendedIsPhones'
    <3>1. \A b \in scene.phone :
            phase'[b] \in {"dial", "auth"} <=> phase[b] \in {"dial", "auth"}
      BY <1>1, <1>3, TabFacts DEF Shapes
    <3> QED
      BY <1>1, <3>1 DEF AttemptPart, UnattendedIsPhones, Tab
  <2>2. OneUnder'
    BY <1>1 DEF AttemptPart, OneUnder, Under, Shapes
  <2>3. PhoneNeverAsks'
    BY <1>1, <1>3, TabFacts DEF AttemptPart, PhoneNeverAsks, Shapes
  <2>4. WaitIsBounded'
    BY <1>1 DEF AttemptPart, WaitIsBounded, Shapes
  <2> QED
    BY <2>1, <2>2, <2>3, <2>4 DEF AttemptPart
<1>6. PromptPart'
  <2>1. PendingIsOfTab'
    BY <1>1, <1>2, SlotFacts DEF PromptPart, PendingIsOfTab, Tab, Shapes
  <2>2. \A w \in Windows : modal'[w].kbi = modal[w].kbi /\ modal'[w].cred = modal[w].cred
    BY <1>1 DEF Show, Shapes, Modal
  <2>3. \A w \in Windows : IF owner[Tab(a)] = w THEN modal'[w].hostKey = p
                           ELSE modal'[w].hostKey = modal[w].hostKey
    BY <1>1 DEF Show, Shapes, Modal
  <2>4. ShownByOwner'
    BY <1>1, <1>2, <2>2, <2>3 DEF PromptPart, ShownByOwner, Tab
  <2>5. OwnerShows'
    BY <1>1, <2>2, TabFacts DEF PromptPart, ShownByOwner, OwnerShows, Tab, Shapes
  <2>6. AnswerIsForShown'
    <3> SUFFICES ASSUME scene.patient, NEW w \in Windows, modal'[w].hostKey # None
        PROVE  pendHostKey'[Tab(modal'[w].hostKey.att)] \in {None, modal'[w].hostKey}
      BY <1>1 DEF AnswerIsForShown, Tab
    <3>1. CASE owner[Tab(a)] = w
      BY <1>1, <1>2, <2>3, <3>1 DEF Shapes
    <3>2. CASE owner[Tab(a)] # w
      <4>1. modal'[w].hostKey = modal[w].hostKey /\ Tab(modal[w].hostKey.att) # Tab(a)
        BY <2>3, <3>2 DEF PromptPart, ShownByOwner
      <4> QED
        BY <1>1, <4>1 DEF PromptPart, AnswerIsForShown, Shapes
    <3> QED
      BY <3>1, <3>2
  <2> QED
    BY <2>1, <2>4, <2>5, <2>6 DEF PromptPart
<1>7. PinPart'
  <2>1. ASSUME OnePane, NEW t \in Tabs, pendHostKey'[t] # None
        PROVE  pendHostKey'[t] = p
    <3>1. CASE t = Tab(a)
      BY <1>1, <1>2, <3>1 DEF Shapes
    <3>2. CASE t # Tab(a)
      <4>1. pendHostKey[t] # None /\ pendHostKey[t] \in Prompt /\ Tab(pendHostKey[t].att) = t
        BY <1>1, <2>1, <3>2, SlotFacts DEF PromptPart, PendingIsOfTab, Shapes
      <4>2. pendHostKey[t].att \in Attempts
        BY <4>1 DEF Prompt
      <4> QED
        BY <2>1, <3>2, <4>1, <4>2 DEF OnePane
    <3> QED
      BY <3>1, <3>2
  <2>2. ASSUME OnePane, NEW t \in Tabs, pendHostKey'[t] # None, ~pendHostKey'[t].changed
        PROVE  pins[pendHostKey'[t].host] = None
    <3>1. p.host = hop[a] /\ (p.changed <=> pins[hop[a]] # None)
      OBVIOUS
    <3> HIDE DEF p
    <3> QED
      BY <2>1, <2>2, <3>1
  <2>3. ASSUME scene.strictness = "strict", NEW t \in Tabs, pendHostKey'[t] # None
        PROVE  pins[pendHostKey'[t].host] # None
    BY <1>1, <1>2, <2>3 DEF PinPart, Shapes
  <2> QED
    BY <1>1, <2>2, <2>3 DEF PinPart, OnePane, Tab
<1> QED
  BY <1>4, <1>5, <1>6, <1>7

(* What an answer does to the pins: it keeps them, or pins the key of the  *)
(* question it answers.                                                    *)
LEMMA PinFacts ==
  ASSUME Shapes, NEW p \in Prompt, NEW d \in Decisions, PinAnswer(p, d)
  PROVE  /\ pins' \in [Hosts -> Keys \cup {None}]
         /\ \A h \in Hosts : pins'[h] # pins[h] => h = p.host /\ pins'[h] = p.key
         /\ \A h \in Hosts : pins[h] # None => pins'[h] # None
         /\ pins' # pins => d = "always" \/ (d = "accept" /\ ~p.changed)
<1>1. p.host \in Hosts /\ p.key \in Keys
  BY DEF Prompt
<1>2. CASE d = "always" \/ (d = "accept" /\ ~p.changed)
  BY <1>1, <1>2, NoneFacts DEF PinAnswer, Pin, Shapes
<1>3. CASE ~(d = "always" \/ (d = "accept" /\ ~p.changed))
  BY <1>3 DEF PinAnswer, Shapes
<1> QED
  BY <1>2, <1>3

LEMMA AnswerHostKeyStep ==
  ASSUME IInv, NEW w \in Windows, NEW d \in Decisions, AnswerHostKey(w, d)
  PROVE  IInv'
<1> USE DEF IInv
<1> DEFINE shown == modal[w].hostKey
           t == Tab(shown.att)
           p == pendHostKey[t]
           a == p.att
<1>1. /\ shown # None /\ Close(w, "hostKey")
      /\ UNCHANGED <<scene, stored, hop, asks, owner, pendKbi, pendCred>>
      /\ p = None => UNCHANGED <<pins, phase, clock, unattended, pendHostKey>>
      /\ p # None => /\ pendHostKey' = [pendHostKey EXCEPT ![Tab(a)] = None]
                     /\ PinAnswer(p, d)
                     /\ \/ UNCHANGED <<phase, clock, unattended>>
                        \/ phase[a] = "hostkey" /\ Fail(a)
                        \/ /\ phase[a] = "hostkey" /\ phase' = [phase EXCEPT ![a] = "auth"]
                           /\ UNCHANGED <<clock, unattended>>
  BY DEF AnswerHostKey, Enter
<1>0. UNCHANGED <<scene, owner, pendKbi, pendCred>>
  BY <1>1
<1>2. t \in Tabs
  BY <1>1, SlotFacts, TabFacts DEF Prompt
<1>3. p # None => p \in Prompt /\ a \in Attempts /\ Tab(a) = t
  BY <1>2, SlotFacts DEF Prompt, PromptPart, PendingIsOfTab
<1>4. Shapes'
  <2>1. pins' \in [Hosts -> Keys \cup {None}]
    BY <1>1, <1>3, PinFacts DEF Shapes
  <2>2. phase' \in [Attempts -> Phases] /\ clock' \in [Attempts -> BOOLEAN]
    BY <1>1, <1>3 DEF Fail, Shapes, Phases
  <2>3. pendHostKey' \in [Tabs -> Prompt \cup {None}]
    BY <1>1, <1>2, <1>3 DEF Shapes
  <2> QED
    BY <1>1, <2>1, <2>2, <2>3, CloseFacts DEF Shapes
<1>5. AttemptPart'
  <2>1. CASE UNCHANGED <<phase, clock, unattended>>
    BY <1>0, <2>1 DEF AttemptPart, UnattendedIsPhones, OneUnder, Under, PhoneNeverAsks,
                      WaitIsBounded, Tab
  <2>2. CASE p # None /\ phase[a] = "hostkey" /\ Fail(a)
    BY <1>1, <1>3, <2>2, FailKeepsAttempts
  <2>3. CASE /\ p # None /\ phase[a] = "hostkey" /\ phase' = [phase EXCEPT ![a] = "auth"]
             /\ UNCHANGED <<clock, unattended>>
    BY <1>1, <1>3, <2>3, MoveKeepsAttempts DEF Under, AttemptPart, PhoneNeverAsks
  <2> QED
    BY <1>1, <2>1, <2>2, <2>3
<1>6. PromptPart'
  <2>1. \A b \in Attempts : phase'[b] = phase[b]
                             \/ (phase[b] = "hostkey" /\ phase'[b] \in {"auth", "failed"})
    BY <1>1, <1>3 DEF Fail, Shapes
  <2>2. \A v \in Windows : /\ modal'[v].kbi = modal[v].kbi
                           /\ modal'[v].cred = modal[v].cred
                           /\ v # w => modal'[v].hostKey = modal[v].hostKey
                           /\ v = w => modal'[v].hostKey = None
    BY <1>1, CloseFacts
  <2>3. \A u \in Tabs : pendHostKey'[u] \in {None, pendHostKey[u]}
    BY <1>1, <1>2, <1>3 DEF Shapes
  <2>4. PendingIsOfTab'
    BY <1>0, <2>1, <2>3, SlotFacts DEF PromptPart, PendingIsOfTab, Tab
  <2>5. ShownByOwner'
    BY <1>0, <2>2 DEF PromptPart, ShownByOwner, Tab
  <2>6. OwnerShows'
    BY <1>0, <2>1, <2>2, TabFacts DEF PromptPart, ShownByOwner, OwnerShows, Tab, Shapes
  <2>7. AnswerIsForShown'
    <3> SUFFICES ASSUME scene.patient, NEW v \in Windows, modal'[v].hostKey # None
        PROVE  pendHostKey'[Tab(modal'[v].hostKey.att)] \in {None, modal'[v].hostKey}
      BY <1>0 DEF AnswerIsForShown, Tab
    <3>1. modal'[v].hostKey = modal[v].hostKey /\ modal[v].hostKey # None
      BY <2>2
    <3>2. Tab(modal[v].hostKey.att) \in Tabs
      BY <3>1, SlotFacts, TabFacts DEF Prompt
    <3> QED
      BY <2>3, <3>1, <3>2 DEF PromptPart, AnswerIsForShown
  <2> QED
    BY <2>4, <2>5, <2>6, <2>7 DEF PromptPart
<1>7. PinPart'
  <2>1. CASE p = None
    BY <1>1, <2>1, SamePinsKept
  <2>2. CASE p # None
    <3>1. \A u \in Tabs : pendHostKey'[u] = IF u = t THEN None ELSE pendHostKey[u]
      BY <1>1, <1>2, <1>3, <2>2 DEF Shapes
    <3>2. ASSUME OnePane, NEW u \in Tabs, pendHostKey[u] # None PROVE u = t
      <4>1. pendHostKey[u].att \in Attempts /\ Tab(pendHostKey[u].att) = u
        BY <3>2, SlotFacts DEF Prompt, PromptPart, PendingIsOfTab
      <4> QED
        BY <1>3, <2>2, <3>2, <4>1 DEF OnePane
    <3>3. OnePane => \A u \in Tabs : pendHostKey'[u] = None
      BY <3>1, <3>2
    <3>4. ASSUME scene.strictness = "strict", NEW u \in Tabs, pendHostKey'[u] # None
          PROVE  pins'[pendHostKey'[u].host] # None
      <4>1. pendHostKey'[u] = pendHostKey[u] /\ pendHostKey[u] \in Prompt
        BY <3>1, <3>4, SlotFacts
      <4>2. pins[pendHostKey[u].host] # None /\ pendHostKey[u].host \in Hosts
        BY <3>4, <4>1 DEF PinPart, Prompt
      <4> QED
        BY <1>1, <1>3, <2>2, <4>1, <4>2, PinFacts
    <3>5. scene.strictness = "auto-accept" => \A u \in Tabs : pendHostKey'[u] = None
      BY <3>1 DEF PinPart
    <3> QED
      BY <1>0, <3>3, <3>4, <3>5 DEF PinPart, OnePane, Tab
  <2> QED
    BY <2>1, <2>2
<1> QED
  BY <1>4, <1>5, <1>6, <1>7

-----------------------------------------------------------------------------
(* The theorems.                                                           *)

LEMMA StepInv == IInv /\ [Next]_vars => IInv'
<1> SUFFICES ASSUME IInv, [Next]_vars PROVE IInv'
  OBVIOUS
<1>1. ASSUME NEW a \in Attempts, Start(a) \/ StartAsks(a) \/ TimesOut(a) PROVE IInv'
  BY <1>1, StartStep, StartAsksStep, QuietSteps
<1>2. ASSUME NEW a \in Attempts, ServerActs(a) PROVE IInv'
  BY <1>2, KeyTrustedStep, KeyPromptedStep, QuietSteps, ClockSteps, AsksUserStep,
     JumpReadyStep, ShellSteps DEF ServerActs
<1>3. ASSUME NEW w \in Windows, UserAnswers(w) PROVE IInv'
  BY <1>3, SubmitStep, CancelStep, AnswerKbiStep, AnswerHostKeyStep DEF UserAnswers
<1>4. ASSUME NEW t \in Tabs, ClosePane(t) \/ \E w \in Windows : TearOff(t, w) PROVE IInv'
  BY <1>4, OwnerSteps
<1>5. CASE UNCHANGED vars
  <2>1. Shapes'
    BY <1>5 DEF IInv, Shapes, vars, attempt, pending
  <2>2. AttemptPart'
    BY <1>5 DEF IInv, AttemptPart, UnattendedIsPhones, OneUnder, Under, PhoneNeverAsks,
                WaitIsBounded, Tab, vars, attempt, pending
  <2>3. PromptPart' /\ PinPart'
    BY <1>5, QuietKeepsPrompts, SamePinsKept DEF IInv, vars, attempt, pending
  <2> QED
    BY <2>1, <2>2, <2>3 DEF IInv
<1> QED
  BY <1>1, <1>2, <1>3, <1>4, <1>5 DEF Next

(* The prompts pending in the main process are those on the screen, the    *)
(* answer is about the key that was read, no phone is asked anything, and a*)
(* clock runs wherever no user is waited for, in every reachable state     *)
(* (SshService, GlobalPrompts, mobileGate).                                *)
THEOREM PromptsAlwaysAgree == Spec => []PromptsAgree
<1>1. Spec => []IInv
  BY InitInv, StepInv, PTL DEF Spec
<1> QED
  BY <1>1, InvImplies, PTL

(* Which steps touch the pins: a trusted key, an accepted one, an answer.  *)
LEMMA StrictStep == IInv /\ [Next]_vars =>
  (scene.strictness = "strict" => \A h \in Hosts : pins[h] = None => pins'[h] = None)
<1> SUFFICES ASSUME IInv, [Next]_vars, scene.strictness = "strict", NEW h \in Hosts,
                    pins[h] = None
    PROVE  pins'[h] = None
  OBVIOUS
<1> USE DEF IInv
<1>1. ASSUME NEW a \in Attempts, NEW k \in Keys, KeyTrusted(a, k) PROVE pins'[h] = None
  BY <1>1 DEF KeyTrusted, Trusted, Shapes
<1>2. ASSUME NEW w \in Windows, NEW d \in Decisions, AnswerHostKey(w, d) PROVE pins'[h] = None
  <2> DEFINE p == pendHostKey[Tab(modal[w].hostKey.att)]
  <2>1. modal[w].hostKey # None /\ (p = None => pins' = pins) /\ (p # None => PinAnswer(p, d))
    BY <1>2 DEF AnswerHostKey
  <2>2. Tab(modal[w].hostKey.att) \in Tabs
    BY <2>1, SlotFacts, TabFacts DEF Prompt
  <2>3. CASE p # None
    <3>1. p \in Prompt /\ pins[p.host] # None
      BY <2>2, <2>3, SlotFacts DEF PinPart
    <3> QED
      BY <2>1, <2>3, <3>1, PinFacts
  <2> QED
    BY <2>1, <2>3
<1>3. ASSUME NEW a \in Attempts,
             \/ Start(a) \/ StartAsks(a) \/ TimesOut(a)
             \/ \E k \in Keys : KeyRefused(a, k) \/ KeyPrompted(a, k)
             \/ Banner(a) \/ AnswersItself(a) \/ NobodyAnswers(a) \/ AsksUser(a)
             \/ JumpReady(a) \/ Ready(a) \/ ShellOpens(a) \/ ConnFails(a)
      PROVE  pins'[h] = None
  BY <1>3 DEF Start, StartAsks, TimesOut, KeyRefused, KeyPrompted, Banner, AnswersItself,
              NobodyAnswers, AsksUser, AsksLogin, JumpReady, Ready, ShellOpens, ConnFails
<1>4. ASSUME NEW w \in Windows, SubmitCredentials(w) \/ CancelCredentials(w) \/ AnswerKbi(w)
      PROVE  pins'[h] = None
  BY <1>4 DEF SubmitCredentials, CancelCredentials, AnswerKbi
<1>5. ASSUME NEW t \in Tabs, ClosePane(t) \/ \E w \in Windows : TearOff(t, w)
      PROVE  pins'[h] = None
  BY <1>5 DEF ClosePane, TearOff
<1>6. CASE UNCHANGED vars
  BY <1>6 DEF vars
<1> QED
  BY <1>1, <1>2, <1>3, <1>4, <1>5, <1>6 DEF Next, ServerActs, UserAnswers

LEMMA SaidOnceStep ==
  ASSUME IInv, OnePane, NEW h \in Hosts, pins[h] # None, pins'[h] # pins[h]
  PROVE  ~Said("accept")
<1> SUFFICES ASSUME NEW w \in Windows, AnswerHostKey(w, "accept") PROVE FALSE
  BY DEF Said
<1> USE DEF IInv
<1> DEFINE p == pendHostKey[Tab(modal[w].hostKey.att)]
<1>1. modal[w].hostKey # None /\ p # None /\ PinAnswer(p, "accept")
  BY DEF AnswerHostKey
<1>2. Tab(modal[w].hostKey.att) \in Tabs
  BY <1>1, SlotFacts, TabFacts DEF Prompt
<1>3. p \in Prompt
  BY <1>1, <1>2, SlotFacts
<1>4. h = p.host /\ ~p.changed
  BY <1>1, <1>3, PinFacts DEF Decisions, Shapes
<1> QED
  BY <1>1, <1>2, <1>4 DEF PinPart

(* A refusal writes no pin.                                                *)
LEMMA SaidNoStep ==
  ASSUME NEW w \in Windows, AnswerHostKey(w, "reject")
  PROVE  pins' = pins
BY DEF AnswerHostKey, PinAnswer

LEMMA PinStep ==
  ASSUME IInv, [Next]_vars, NEW h \in Hosts, pins'[h] # pins[h]
  PROVE  AutoPins(h) \/ UserPins(h)
<1> USE DEF IInv
<1>1. ASSUME NEW a \in Attempts, NEW k \in Keys, KeyTrusted(a, k) PROVE AutoPins(h)
  <2>1. hop[a] = h /\ pins'[h] = k /\ scene.strictness = "auto-accept"
    BY <1>1 DEF KeyTrusted, Trusted, Shapes
  <2> QED
    BY <1>1, <2>1 DEF AutoPins
<1>2. ASSUME NEW w \in Windows, NEW d \in Decisions, AnswerHostKey(w, d) PROVE UserPins(h)
  <2> DEFINE p == Asked(w)
  <2>1. modal[w].hostKey # None /\ p # None /\ PinAnswer(p, d)
    BY <1>2 DEF AnswerHostKey, Asked
  <2>2. Tab(modal[w].hostKey.att) \in Tabs
    BY <2>1, SlotFacts, TabFacts DEF Prompt
  <2>3. p \in Prompt /\ scene.strictness # "auto-accept"
    BY <2>1, <2>2, SlotFacts DEF Asked, PinPart
  <2>4. p.host = h /\ p.key = pins'[h] /\ d \in {"accept", "always"}
    BY <2>1, <2>3, PinFacts
  <2>5. scene.patient => p = modal[w].hostKey
    BY <2>1 DEF Asked, PromptPart, AnswerIsForShown
  <2>6. ~Said("reject")
    BY SaidNoStep DEF Said
  <2> HIDE DEF p
  <2>7. AnswerHostKey(w, "accept") \/ AnswerHostKey(w, "always")
    BY <1>2, <2>4
  <2> QED
    BY <2>1, <2>3, <2>4, <2>5, <2>6, <2>7 DEF UserPins, p
<1>3. ASSUME NEW a \in Attempts,
             \/ Start(a) \/ StartAsks(a) \/ TimesOut(a)
             \/ \E k \in Keys : KeyRefused(a, k) \/ KeyPrompted(a, k)
             \/ Banner(a) \/ AnswersItself(a) \/ NobodyAnswers(a) \/ AsksUser(a)
             \/ JumpReady(a) \/ Ready(a) \/ ShellOpens(a) \/ ConnFails(a)
      PROVE  FALSE
  BY <1>3 DEF Start, StartAsks, TimesOut, KeyRefused, KeyPrompted, Banner, AnswersItself,
              NobodyAnswers, AsksUser, AsksLogin, JumpReady, Ready, ShellOpens, ConnFails
<1>4. ASSUME NEW w \in Windows, SubmitCredentials(w) \/ CancelCredentials(w) \/ AnswerKbi(w)
      PROVE  FALSE
  BY <1>4 DEF SubmitCredentials, CancelCredentials, AnswerKbi
<1>5. ASSUME NEW t \in Tabs, ClosePane(t) \/ \E w \in Windows : TearOff(t, w)
      PROVE  FALSE
  BY <1>5 DEF ClosePane, TearOff
<1>6. CASE UNCHANGED vars
  BY <1>6 DEF vars
<1> QED
  BY <1>1, <1>2, <1>3, <1>4, <1>5, <1>6 DEF Next, ServerActs, UserAnswers

(* A pin changes only by auto-accept mode or by a user's yes to the key    *)
(* that is pinned, a pinned one in one pane only by 'always', and strict   *)
(* mode pins nothing new, in every step of every scene (verifyHostKey and  *)
(* respondHostKey).                                                        *)
THEOREM PinsAlwaysAsAnswered == Spec => PinsAsAnswered
<1>1. Spec => []IInv /\ [][Next]_vars
  BY InitInv, StepInv, PTL DEF Spec
<1>2. IInv /\ [Next]_vars =>
        [scene.strictness = "strict" =>
           \A h \in Hosts : pins[h] = None => pins'[h] = None]_vars
  BY StrictStep
<1>3. IInv /\ [Next]_vars =>
        [\A h \in Hosts : pins'[h] # pins[h] =>
           /\ AutoPins(h) \/ UserPins(h)
           /\ scene.patient /\ OnePane /\ pins[h] # None => ~Said("accept")]_vars
  BY PinStep, SaidOnceStep
<1> QED
  BY <1>1, <1>2, <1>3, PTL DEF PinsAsAnswered, PinsAreKept, StrictPinsNothing
=============================================================================
