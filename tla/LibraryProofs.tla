---------------------------- MODULE LibraryProofs ---------------------------
(***************************************************************************)
(* Proofs about the two places a secret waits in, which share no variable. *)
(*                                                                         *)
(* Vault: for any number of keys and any behaviour of the credential store,*)
(* with a crash at any moment and removals of the master password that do  *)
(* not overlap, no stored secret ever ends up under a key the next start   *)
(* will not read, and with the settings page no open vault stays open for  *)
(* ever.                                                                   *)
(*                                                                         *)
(* Library: for any scene, files and names, whoever waits for the vault to *)
(* be unlocked has a dialog on the screen that will answer; and whatever   *)
(* is edited, imported, scanned and deleted, from however many windows and *)
(* for documents of any length, the tables stay sound.                     *)
(***************************************************************************)
EXTENDS VaultIdle, Library, ImportExportProofs

-----------------------------------------------------------------------------
(* The key of the vault.                                                   *)

Writing == {"writing", "checking"}

(* One load at a time: init() in keychain mode before the program runs, a  *)
(* removal in master mode while it does.                                   *)
OneLoad ==
  /\ ~running => mem = NoKey
  /\ pc["boot"] # "idle" => mode = "keychain" /\ ~running
  /\ \A c \in Calls : pc[c] # "idle" => mode = "master" /\ running
  /\ \A l, m \in Loaders : pc[l] # "idle" /\ pc[m] # "idle" => l = m

(* A load that writes to the credential store has its key in the file, or  *)
(* there is no file; then init() minted it for a vault without secrets.    *)
WriteBacked ==
  /\ \A l \in Loaders : pc[l] \in Writing =>
       /\ key[l] \in Keys
       /\ hadFile[l] => file = key[l]
       /\ ~hadFile[l] => file = NoKey
  /\ pc["boot"] \in Writing /\ ~hadFile["boot"] => under = {}

VInv ==
  /\ VaultTyped
  /\ SecretsReadable
  /\ MemoryIsDurable
  /\ OneLoad
  /\ WriteBacked

LEMMA BootIsLoader == "boot" \in Loaders /\ \A c \in Calls : c \in Loaders /\ c # "boot"
<1>1. QED
  BY CallsAssumption DEF Loaders

LEMMA InitVInv == VaultInit => VInv
<1> SUFFICES ASSUME VaultInit PROVE VInv
  OBVIOUS
<1>1. VaultTyped
  BY KeysAssumption DEF VaultInit, VaultTyped
<1>2. SecretsReadable
  BY KeysAssumption DEF VaultInit, SecretsReadable, DurableKey
<1>3. MemoryIsDurable
  BY DEF VaultInit, MemoryIsDurable
<1>4. OneLoad /\ WriteBacked
  BY BootIsLoader DEF VaultInit, OneLoad, WriteBacked, Writing
<1>5. QED
  BY <1>1, <1>2, <1>3, <1>4 DEF VInv

-----------------------------------------------------------------------------
(* How a load ends.                                                        *)

(* It rejects: all that may have changed is where a key is kept.           *)
LEMMA RejectedVInv ==
  ASSUME VInv, NEW l \in Loaders, pc[l] # "idle", Rejected(l),
         chain' \in Keys \cup {NoKey, Bad}, file' \in Keys \cup {NoKey},
         l = "boot" => under = {} \/ (file' = file /\ (file # NoKey \/ chain' = chain)),
         UNCHANGED <<old, key, hadFile, idle>>
  PROVE  VInv'
<1>0. VaultTyped /\ SecretsReadable /\ MemoryIsDurable /\ OneLoad /\ WriteBacked
  BY DEF VInv
<1>1. VaultTyped'
  BY <1>0 DEF Rejected, Goes, VaultTyped, idle
<1>2. \A m \in Loaders : pc'[m] = "idle"
  BY <1>0 DEF Rejected, Goes, VaultTyped, OneLoad
<1>3. (OneLoad /\ WriteBacked)'
  BY <1>0, <1>2, BootIsLoader DEF Rejected, OneLoad, WriteBacked, Writing
<1>4. CASE l = "boot"
  <2>1. mem' = NoKey
    BY <1>0, <1>4 DEF OneLoad, Rejected
  <2>2. mode = "keychain" /\ mode' = mode /\ under' = under
    BY <1>0, <1>4 DEF OneLoad, Rejected
  <2>3. MemoryIsDurable'
    BY <2>1 DEF MemoryIsDurable
  <2>4. SecretsReadable'
    <3>1. CASE under = {}
      BY <2>2, <3>1 DEF SecretsReadable
    <3>2. CASE file' = file /\ (file # NoKey \/ chain' = chain)
      <4>1. DurableKey' = DurableKey
        BY <2>2, <3>2 DEF DurableKey
      <4>2. QED
        BY <1>0, <2>2, <4>1 DEF SecretsReadable
    <3>3. QED
      BY <1>4, <3>1, <3>2
  <2>5. QED
    BY <1>1, <1>3, <2>3, <2>4 DEF VInv
<1>5. CASE l \in Calls
  <2>1. mode = "master"
    BY <1>0, <1>5 DEF OneLoad
  <2>2. (SecretsReadable /\ MemoryIsDurable)'
    BY <1>0, <2>1 DEF Rejected, SecretsReadable, MemoryIsDurable, DurableKey
  <2>3. QED
    BY <1>1, <1>3, <2>2 DEF VInv
<1>6. QED
  BY <1>4, <1>5 DEF Loaders

(* It has the key k, and k is what the next start in keychain mode reads.  *)
LEMMA LoadedVInv ==
  ASSUME VInv, NEW l \in Loaders, pc[l] # "idle", NEW k \in Keys, KeyLoaded(l, k),
         chain' \in Keys \cup {NoKey, Bad}, file' \in Keys \cup {NoKey},
         k = IF file' # NoKey THEN file' ELSE chain',
         l = "boot" => under \subseteq {k},
         UNCHANGED <<old, key, hadFile, idle>>
  PROVE  VInv'
<1>0. VaultTyped /\ SecretsReadable /\ MemoryIsDurable /\ OneLoad /\ WriteBacked
  BY DEF VInv
<1>1. CASE l = "boot"
  <2>1. /\ mode = "keychain" /\ mode' = mode /\ under' = under /\ mkey' = mkey
        /\ mem' = k /\ running' = TRUE /\ alias' = alias /\ Goes(l, "idle")
    BY <1>0, <1>1 DEF OneLoad, KeyLoaded
  <2>2. VaultTyped'
    BY <1>0, <2>1 DEF Goes, VaultTyped, idle
  <2>3. (SecretsReadable /\ MemoryIsDurable)'
    BY <1>1, <2>1 DEF SecretsReadable, MemoryIsDurable, DurableKey
  <2>4. \A m \in Loaders : pc'[m] = "idle"
    BY <1>0, <2>1 DEF Goes, VaultTyped, OneLoad
  <2>5. (OneLoad /\ WriteBacked)'
    BY <2>1, <2>4, BootIsLoader DEF OneLoad, WriteBacked, Writing
  <2>6. QED
    BY <2>2, <2>3, <2>5 DEF VInv
<1>2. CASE l \in Calls /\ under \subseteq {old[l]}
  <2>1. /\ under' = {k : u \in under}
        /\ mode' = "keychain" /\ mkey' = NoKey /\ mem' = k /\ alias' = {}
        /\ running' = running /\ Goes(l, "idle")
    BY <1>2, BootIsLoader DEF KeyLoaded, Removed
  <2>2. VaultTyped'
    BY <1>0, <2>1 DEF Goes, VaultTyped, idle
  <2>3. (SecretsReadable /\ MemoryIsDurable)'
    BY <2>1 DEF SecretsReadable, MemoryIsDurable, DurableKey
  <2>4. \A m \in Loaders : pc'[m] = "idle"
    BY <1>0, <2>1 DEF Goes, VaultTyped, OneLoad
  <2>5. running
    BY <1>0, <1>2 DEF OneLoad
  <2>6. (OneLoad /\ WriteBacked)'
    BY <2>1, <2>4, <2>5, BootIsLoader DEF OneLoad, WriteBacked, Writing
  <2>7. QED
    BY <2>2, <2>3, <2>6 DEF VInv
<1>3. CASE l \in Calls /\ ~(under \subseteq {old[l]})
  <2>1. Rejected(l)
    BY <1>3, BootIsLoader DEF KeyLoaded, Removed
  <2>2. QED
    BY <1>3, <2>1, RejectedVInv, BootIsLoader
<1>4. QED
  BY <1>1, <1>2, <1>3 DEF Loaders

(* It puts the key into the file, or fails to.                             *)
LEMMA SavedToFileVInv ==
  ASSUME VInv, NEW l \in Loaders, pc[l] # "idle", NEW k \in Keys,
         SavedToFile(l, k), chain' \in Keys \cup {NoKey, Bad},
         l = "boot" => under = {},
         UNCHANGED <<old, key, hadFile, idle>>
  PROVE  VInv'
<1>1. CASE file' = k /\ KeyLoaded(l, k)
  BY KeysAssumption, <1>1, LoadedVInv
<1>2. CASE UNCHANGED file /\ Rejected(l)
  <2>1. file' \in Keys \cup {NoKey}
    BY <1>2 DEF VInv, VaultTyped
  <2>2. QED
    BY <1>2, <2>1, RejectedVInv
<1>3. QED
  BY <1>1, <1>2 DEF SavedToFile

(* What init() minted goes to the file of a vault without secrets.         *)
LEMMA NotStoredVInv ==
  ASSUME VInv, NEW l \in Loaders, pc[l] \in Writing, NotStored(l),
         chain' \in Keys \cup {NoKey, Bad},
         UNCHANGED <<old, key, hadFile, idle>>
  PROVE  VInv'
<1>0. /\ VaultTyped /\ SecretsReadable /\ OneLoad /\ key[l] \in Keys /\ pc[l] # "idle"
      /\ hadFile[l] => file = key[l]
      /\ l = "boot" /\ ~hadFile[l] => under = {}
  BY DEF VInv, WriteBacked, Writing
<1>1. CASE hadFile[l]
  <2>1. file' = key[l] /\ file # NoKey /\ KeyLoaded(l, key[l])
    BY KeysAssumption, <1>0, <1>1 DEF NotStored
  <2>2. l = "boot" => under \subseteq {key[l]}
    BY <1>0, <1>1, <2>1 DEF OneLoad, SecretsReadable, DurableKey
  <2>3. QED
    BY KeysAssumption, <1>0, <2>1, <2>2, LoadedVInv
<1>2. CASE ~hadFile[l]
  BY <1>0, <1>2, SavedToFileVInv DEF NotStored
<1>3. QED
  BY <1>1, <1>2

-----------------------------------------------------------------------------
(* The steps of a load.                                                    *)

LEMMA ProbedVInv ==
  ASSUME VInv, NEW l \in Loaders, NEW reachable \in BOOLEAN, Probed(l, reachable)
  PROVE  VInv'
<1>0. /\ VaultTyped /\ SecretsReadable /\ MemoryIsDurable /\ OneLoad /\ WriteBacked
      /\ pc[l] = "reading"
      /\ UNCHANGED <<chain, old, idle>>
  BY DEF VInv, Probed
<1> DEFINE inChain == reachable /\ chain \in Keys
           inFile  == file # NoKey
           secrets == l = "boot" /\ under # {}
           plan    == Plan(reachable, inChain, inFile, secrets)
<1>a. chain' \in Keys \cup {NoKey, Bad} /\ file \in Keys \cup {NoKey}
  BY <1>0 DEF VaultTyped
<1>1. ASSUME Rejected(l), UNCHANGED <<file, key, hadFile>> PROVE VInv'
  BY <1>0, <1>1, <1>a, RejectedVInv
<1>2. ASSUME NEW k \in Candidates(plan.use), plan.use # "refuse"
      PROVE  /\ k \in Keys
             /\ inFile => k = file /\ plan.use = "file" /\ ~plan.writeFile
             /\ ~inFile /\ inChain => k = chain /\ ~plan.writeChain /\ ~plan.writeFile
             /\ ~inFile /\ ~inChain => /\ ~secrets /\ plan.use = "new"
                                       /\ plan.writeFile = ~plan.writeChain
  <2>1. CASE inFile
    BY <2>1, <1>2, <1>a DEF Plan, Candidates
  <2>2. CASE ~inFile /\ inChain
    BY <2>2, <1>2 DEF Plan, Candidates
  <2>3. CASE ~inFile /\ ~inChain
    BY <2>3, <1>2 DEF Plan, Candidates, Refuse
  <2>4. QED
    BY <2>1, <2>2, <2>3
<1>3. ASSUME NEW k \in Candidates(plan.use), plan.use # "refuse",
             Goes(l, "writing"), key' = [key EXCEPT ![l] = k], plan.writeChain,
             hadFile' = [hadFile EXCEPT ![l] = (plan.use = "file")],
             UNCHANGED <<mode, mkey, under, running, mem, alias, file>>
      PROVE  VInv'
  <2>1. k \in Keys
    BY <1>2, <1>3
  <2>2. VaultTyped'
    BY <1>0, <1>3, <2>1 DEF Goes, VaultTyped, idle
  <2>3. (SecretsReadable /\ MemoryIsDurable)'
    BY <1>0, <1>3 DEF SecretsReadable, MemoryIsDurable, DurableKey
  <2>4. pc'[l] = "writing" /\ \A m \in Loaders \ {l} : pc'[m] = "idle"
    BY <1>0, <1>3 DEF Goes, VaultTyped, OneLoad
  <2>5. OneLoad'
    BY <1>0, <1>3, <2>4, BootIsLoader DEF OneLoad
  <2>6. key'[l] = k /\ hadFile'[l] = (plan.use = "file")
    BY <1>0, <1>3 DEF VaultTyped
  <2>7. /\ plan.use = "file" => file = k
        /\ plan.use # "file" => file = NoKey /\ ~secrets
    BY <1>2, <1>3
  <2>8. WriteBacked'
    <3>1. \A m \in Loaders : pc'[m] \in Writing => m = l
      BY <2>4 DEF Writing
    <3>2. key'[l] \in Keys /\ (hadFile'[l] => file' = key'[l]) /\ (~hadFile'[l] => file' = NoKey)
      BY <1>3, <2>1, <2>6, <2>7
    <3>3. l = "boot" /\ ~hadFile'[l] => under' = {}
      BY <1>3, <2>6, <2>7
    <3>4. QED
      BY <3>1, <3>2, <3>3, BootIsLoader DEF WriteBacked
  <2>9. QED
    BY <2>2, <2>3, <2>5, <2>8 DEF VInv
<1>4. ASSUME NEW k \in Candidates(plan.use), plan.use # "refuse",
             ~plan.writeChain, UNCHANGED <<key, hadFile>>,
             IF plan.writeFile THEN SavedToFile(l, k)
                               ELSE UNCHANGED file /\ KeyLoaded(l, k)
      PROVE  VInv'
  <2>0. k \in Keys /\ pc[l] # "idle"
    BY <1>0, <1>2, <1>4
  <2>1. CASE plan.writeFile
    <3>1. ~secrets /\ SavedToFile(l, k)
      BY <1>2, <1>4, <2>1
    <3>2. QED
      BY <1>0, <1>a, <1>4, <2>0, <3>1, SavedToFileVInv
  <2>2. CASE ~plan.writeFile
    <3>1. UNCHANGED file /\ KeyLoaded(l, k)
      BY <1>4, <2>2
    <3>2. k = IF file # NoKey THEN file ELSE chain
      BY <1>2, <1>4, <2>2
    <3>3. l = "boot" => under \subseteq {k}
      BY <1>0, <3>2 DEF OneLoad, SecretsReadable, DurableKey
    <3>4. QED
      BY <1>0, <1>a, <1>4, <2>0, <3>1, <3>2, <3>3, LoadedVInv
  <2>3. QED
    BY <2>1, <2>2
<1>5. Candidates("refuse") = {}
  BY DEF Candidates
<1>6. QED
  BY <1>1, <1>3, <1>4, <1>5 DEF Probed

LEMMA WrittenVInv ==
  ASSUME VInv, NEW l \in Loaders, Written(l)
  PROVE  VInv'
<1>0. /\ VaultTyped /\ SecretsReadable /\ MemoryIsDurable /\ OneLoad /\ WriteBacked
      /\ pc[l] = "writing" /\ pc[l] \in Writing /\ key[l] \in Keys
      /\ UNCHANGED <<old, key, hadFile, idle>>
  BY DEF VInv, Written, WriteBacked, Writing
<1>1. ASSUME chain' \in {key[l], Bad}, Goes(l, "checking"),
             UNCHANGED <<mode, mkey, under, running, mem, alias, file>>
      PROVE  VInv'
  <2>1. VaultTyped'
    BY <1>0, <1>1 DEF Goes, VaultTyped, idle
  <2>2. pc'[l] = "checking" /\ \A m \in Loaders \ {l} : pc'[m] = pc[m] /\ pc[m] = "idle"
    BY <1>0, <1>1 DEF Goes, VaultTyped, OneLoad
  <2>3. OneLoad'
    BY <1>0, <1>1, <2>2, BootIsLoader DEF OneLoad
  <2>4. WriteBacked'
    BY <1>0, <1>1, <2>2, BootIsLoader DEF WriteBacked, Writing
  <2>5. CASE l = "boot"
    BY KeysAssumption, <1>0, <1>1, <2>1, <2>3, <2>4, <2>5
       DEF VInv, OneLoad, WriteBacked, SecretsReadable, MemoryIsDurable, DurableKey
  <2>6. CASE l \in Calls
    <3>1. mode = "master"
      BY <1>0, <2>6 DEF OneLoad
    <3>2. (SecretsReadable /\ MemoryIsDurable)'
      BY <1>0, <1>1, <3>1 DEF SecretsReadable, MemoryIsDurable, DurableKey
    <3>3. QED
      BY <2>1, <2>3, <2>4, <3>2 DEF VInv
  <2>7. QED
    BY <2>5, <2>6 DEF Loaders
<1>2. ASSUME chain' \in {chain, key[l], Bad}, NotStored(l) PROVE VInv'
  <2>1. chain' \in Keys \cup {NoKey, Bad}
    BY <1>0, <1>2 DEF VaultTyped
  <2>2. QED
    BY <1>0, <1>2, <2>1, NotStoredVInv
<1>3. QED
  BY <1>1, <1>2 DEF Written

LEMMA CheckedVInv ==
  ASSUME VInv, NEW l \in Loaders, NEW reachable \in BOOLEAN, Checked(l, reachable)
  PROVE  VInv'
<1>0. /\ VaultTyped /\ SecretsReadable /\ OneLoad /\ WriteBacked
      /\ pc[l] \in Writing /\ pc[l] # "idle" /\ key[l] \in Keys
      /\ UNCHANGED <<chain, old, key, hadFile, idle>>
      /\ chain' \in Keys \cup {NoKey, Bad}
  BY DEF VInv, Checked, WriteBacked, Writing, VaultTyped
<1>1. CASE reachable /\ chain = key[l]
  <2>1. KeyLoaded(l, key[l])
    BY <1>1 DEF Checked
  <2>2. file' \in {NoKey, key[l]}
    BY <1>0, <1>1 DEF Checked, WriteBacked
  <2>3. l = "boot" => under \subseteq {key[l]}
    BY KeysAssumption, <1>0 DEF OneLoad, SecretsReadable, DurableKey, WriteBacked
  <2>4. QED
    BY <1>0, <1>1, <2>1, <2>2, <2>3, LoadedVInv
<1>2. CASE ~(reachable /\ chain = key[l])
  BY <1>0, <1>2, NotStoredVInv DEF Checked
<1>3. QED
  BY <1>1, <1>2

-----------------------------------------------------------------------------

LEMMA NextVInv == ~Overlap /\ VInv /\ [VaultNext]_vaultvars => VInv'
<1> SUFFICES ASSUME ~Overlap, VInv, [VaultNext]_vaultvars PROVE VInv'
  OBVIOUS
<1>0. VaultTyped /\ SecretsReadable /\ MemoryIsDurable /\ OneLoad /\ WriteBacked
  BY DEF VInv
<1>1. CASE Boot
  <2>1. mem = NoKey /\ \A l \in Loaders : pc[l] = "idle"
    BY <1>0, <1>1 DEF Boot, Halted, OneLoad
  <2>2. UNCHANGED <<durable, mem, old, alias, key, hadFile, idle>>
    BY <1>1 DEF Boot
  <2>3. CASE mode = "master"
    BY <1>0, <1>1, <2>1, <2>2, <2>3, BootIsLoader
       DEF Boot, VInv, VaultTyped, OneLoad, WriteBacked, SecretsReadable,
           MemoryIsDurable, DurableKey, durable, idle, Writing
  <2>4. CASE mode # "master"
    <3>1. pc' = [pc EXCEPT !["boot"] = "reading"] /\ running' = running /\ mode = "keychain"
      BY <1>0, <1>1, <2>4 DEF Boot, Goes, VaultTyped
    <3>2. pc'["boot"] = "reading" /\ \A c \in Calls : pc'[c] = "idle"
      BY <1>0, <2>1, <3>1, BootIsLoader DEF VaultTyped
    <3>3. VaultTyped'
      BY <1>0, <2>2, <3>1 DEF VaultTyped, durable, idle
    <3>4. (OneLoad /\ WriteBacked)'
      BY <1>0, <1>1, <2>1, <2>2, <3>1, <3>2
         DEF Boot, Halted, OneLoad, WriteBacked, Writing, Loaders, durable
    <3>5. (SecretsReadable /\ MemoryIsDurable)'
      BY <1>0, <2>2 DEF SecretsReadable, MemoryIsDurable, DurableKey, durable
    <3>6. QED
      BY <3>3, <3>4, <3>5 DEF VInv
  <2>5. QED
    BY <2>3, <2>4
<1>2. CASE Crash
  <2>1. /\ running' = FALSE /\ mem' = NoKey
        /\ \A l \in Loaders : pc'[l] = "idle"
        /\ UNCHANGED <<mode, mkey, under, file, timeout>>
    BY <1>2 DEF Crash
  <2>2. (OneLoad /\ WriteBacked /\ MemoryIsDurable)'
    BY <2>1, BootIsLoader DEF OneLoad, WriteBacked, MemoryIsDurable, Writing
  <2>3. CASE UNCHANGED chain
    <3>1. VaultTyped'
      BY <1>0, <1>2, <2>3 DEF Crash, VaultTyped
    <3>2. SecretsReadable'
      BY <1>0, <2>1, <2>3 DEF SecretsReadable, DurableKey
    <3>3. QED
      BY <2>2, <3>1, <3>2 DEF VInv
  <2>4. ASSUME NEW l \in Loaders, pc[l] = "writing", chain' \in {key[l], Bad}
        PROVE VInv'
    <3>1. VaultTyped'
      BY <1>0, <1>2, <2>4 DEF Crash, VaultTyped, WriteBacked, Writing
    <3>2. CASE l = "boot"
      BY KeysAssumption, <1>0, <2>1, <2>2, <2>4, <3>1, <3>2
         DEF VInv, SecretsReadable, DurableKey, WriteBacked, Writing, OneLoad
    <3>3. CASE l \in Calls
      BY <1>0, <2>1, <2>2, <2>4, <3>1, <3>3
         DEF VInv, SecretsReadable, DurableKey, OneLoad
    <3>4. QED
      BY <3>2, <3>3 DEF Loaders
  <2>5. QED
    BY <1>2, <2>3, <2>4 DEF Crash
<1>3. ASSUME NEW l \in Loaders, LoadStep(l) PROVE VInv'
  BY <1>3, ProbedVInv, WrittenVInv, CheckedVInv DEF LoadStep
<1>4. CASE Touch \/ \E on \in BOOLEAN : SetTimeout(on)
  BY <1>0, <1>4
     DEF Touch, SetTimeout, VInv, VaultTyped, OneLoad, WriteBacked, Touched,
         SecretsReadable, MemoryIsDurable, DurableKey, durable, loading
<1>5. ASSUME Locked, running PROVE VInv'
  <2>1. VaultTyped'
    BY <1>0, <1>5 DEF Locked, VaultTyped, durable
  <2>2. QED
    BY <1>0, <1>5, <2>1
       DEF Locked, VInv, OneLoad, WriteBacked,
           SecretsReadable, MemoryIsDurable, DurableKey, durable
<1>6. CASE Lock
  BY <1>5, <1>6 DEF Lock
<1>7. CASE TimerFires
  <2>1. CASE mode = "master"
    BY <1>5, <1>7, <2>1 DEF TimerFires
  <2>2. CASE mode # "master"
    <3>1. timer' = FALSE /\ UNCHANGED <<durable, running, mem, loading>>
      BY <1>7, <2>2 DEF TimerFires
    <3>2. timeout' \in BOOLEAN
      BY <1>0, <1>7, <2>2 DEF TimerFires, VaultTyped
    <3>3. VaultTyped'
      BY <1>0, <3>1, <3>2 DEF VaultTyped, durable, loading
    <3>4. (SecretsReadable /\ MemoryIsDurable /\ OneLoad /\ WriteBacked)'
      BY <1>0, <3>1 DEF OneLoad, WriteBacked, SecretsReadable, MemoryIsDurable, DurableKey, durable, loading
    <3>5. QED
      BY <3>3, <3>4 DEF VInv
  <2>3. QED
    BY <2>1, <2>2
<1>8. CASE UnlockVault
  <2>1. VaultTyped'
    BY <1>0, <1>8 DEF UnlockVault, VaultTyped, Touched, durable
  <2>2. QED
    BY <1>0, <1>8, <2>1
       DEF UnlockVault, VInv, OneLoad, WriteBacked,
           SecretsReadable, MemoryIsDurable, DurableKey, durable
<1>9. CASE SaveSecret \/ DeleteSecrets
  <2>1. /\ running /\ timer' \in BOOLEAN /\ under' \in {under \cup {mem}, {}}
        /\ under' # {} => mem # NoKey
        /\ UNCHANGED <<mode, mkey, chain, file, running, mem, loading, timeout>>
    BY <1>0, <1>9 DEF SaveSecret, DeleteSecrets, VaultTyped, Touched
  <2>2. VaultTyped'
    BY <1>0, <2>1 DEF VaultTyped, loading
  <2>3. (SecretsReadable /\ MemoryIsDurable)'
    BY <1>0, <2>1 DEF SecretsReadable, MemoryIsDurable, DurableKey
  <2>4. (OneLoad /\ WriteBacked)'
    BY <1>0, <2>1 DEF OneLoad, WriteBacked, Writing, loading
  <2>5. QED
    BY <2>2, <2>3, <2>4 DEF VInv
<1>10. ASSUME NEW k \in Keys, SetMasterPassword(k) PROVE VInv'
  <2>1. VaultTyped'
    BY KeysAssumption, <1>0, <1>10 DEF SetMasterPassword, VaultTyped, Touched
  <2>2. (SecretsReadable /\ MemoryIsDurable)'
    BY <1>10 DEF SetMasterPassword, SecretsReadable, MemoryIsDurable, DurableKey
  <2>3. (OneLoad /\ WriteBacked)'
    BY <1>0, <1>10 DEF SetMasterPassword, OneLoad, WriteBacked, Writing
  <2>4. QED
    BY <2>1, <2>2, <2>3 DEF VInv
<1>11. ASSUME NEW c \in Calls, RemoveMasterPassword(c) PROVE VInv'
  <2>1. c \in Loaders /\ c # "boot" /\ \A l \in Loaders : pc[l] = "idle"
    BY <1>11, BootIsLoader DEF RemoveMasterPassword
  <2>2. VaultTyped'
    BY <1>0, <1>11, <2>1 DEF RemoveMasterPassword, Goes, VaultTyped, Touched, durable
  <2>3. (SecretsReadable /\ MemoryIsDurable)'
    BY <1>0, <1>11
       DEF RemoveMasterPassword, SecretsReadable, MemoryIsDurable, DurableKey, durable
  <2>4. pc'[c] = "reading" /\ \A l \in Loaders \ {c} : pc'[l] = "idle"
    BY <1>0, <1>11, <2>1 DEF RemoveMasterPassword, Goes, VaultTyped
  <2>5. (OneLoad /\ WriteBacked)'
    BY <1>0, <1>11, <2>1, <2>4, BootIsLoader
       DEF RemoveMasterPassword, OneLoad, WriteBacked, Writing, durable
  <2>6. QED
    BY <2>2, <2>3, <2>5 DEF VInv
<1>12. CASE UNCHANGED vaultvars
  BY <1>0, <1>12
     DEF vaultvars, durable, loading, idle, VInv, VaultTyped, OneLoad, WriteBacked,
         SecretsReadable, MemoryIsDurable, DurableKey
<1>13. QED
  BY <1>1, <1>2, <1>3, <1>4, <1>6, <1>7, <1>8, <1>9, <1>10, <1>11, <1>12 DEF VaultNext

-----------------------------------------------------------------------------

(* The strengthened invariant of the vault.                                *)
THEOREM VaultInductive ==
  ASSUME ~Overlap
  PROVE  VaultSpec => []VInv
<1>1. VaultInit => VInv
  BY InitVInv
<1>2. VInv /\ [VaultNext]_vaultvars => VInv'
  BY NextVInv
<1>3. QED
  BY <1>1, <1>2, PTL DEF VaultSpec

(***************************************************************************)
(* Whatever the credential store does and whenever the program crashes,    *)
(* the key under which all secrets are encrypted is the one a start reads: *)
(* neither migration, nor a change of mode, nor a failed one loses it.     *)
(***************************************************************************)
THEOREM SecretsAlwaysReadable ==
  ASSUME ~Overlap
  PROVE  VaultSpec => []SecretsReadable
<1>1. VInv => SecretsReadable
  BY DEF VInv
<1>2. VaultSpec => []VInv
  BY VaultInductive
<1>3. QED
  BY <1>1, <1>2, PTL

(***************************************************************************)
(* The next secret to be saved will be readable too: this.key is never     *)
(* anything else than the key a start would read.                          *)
(***************************************************************************)
THEOREM MemoryAlwaysDurable ==
  ASSUME ~Overlap
  PROVE  VaultSpec => []MemoryIsDurable
<1>1. VInv => MemoryIsDurable
  BY DEF VInv
<1>2. VaultSpec => []VInv
  BY VaultInductive
<1>3. QED
  BY <1>1, <1>2, PTL

-----------------------------------------------------------------------------
(* The vault with the settings page: its steps are steps of the vault.     *)

(* An open vault of master mode is timed, or the page is about to touch it.*)
Timed == running /\ mode = "master" /\ mem # NoKey /\ timeout /\ ~refresh => timer

IdleInv == VInv /\ refresh \in BOOLEAN /\ Timed

LEMMA PageStepIsVaultStep == [INext]_<<vaultvars, page>> => [VaultNext]_vaultvars
<1>1. ASSUME NEW l \in Loaders, LoadGoesOn(l) PROVE VaultNext
  BY <1>1 DEF LoadGoesOn, VaultNext
<1>2. ASSUME NEW k \in Keys, SetMaster(k) PROVE VaultNext
  BY <1>2 DEF SetMaster, VaultNext
<1>3. ASSUME NEW c \in Calls, RemoveMaster(c) PROVE VaultNext
  BY <1>3 DEF RemoveMaster, Off, VaultNext
<1>4. ASSUME NEW on \in BOOLEAN, Off(SetTimeout(on)) PROVE VaultNext
  BY <1>4 DEF Off, VaultNext
<1>5. CASE \/ Off(Boot) \/ CrashAll \/ Refreshed \/ Off(Touch) \/ Off(Lock)
          \/ Off(TimerFires) \/ Off(UnlockVault) \/ Off(SaveSecret) \/ Off(DeleteSecrets)
  BY <1>5 DEF Off, CrashAll, Refreshed, VaultNext
<1>6. QED
  BY <1>1, <1>2, <1>3, <1>4, <1>5 DEF INext

(* A load that hands the program a key leaves the vault without a password.*)
LEMMA LoadOpensKeychain ==
  ASSUME VInv, NEW l \in Loaders, LoadStep(l)
  PROVE  /\ UNCHANGED idle
         /\ mode' = "keychain" \/ UNCHANGED <<mode, running, mem>>
<1> DEFINE Opens == mode' = "keychain" \/ UNCHANGED <<mode, running, mem>>
<1>1. Rejected(l) => Opens
  BY DEF Rejected
<1>2. ASSUME NEW k, pc[l] # "idle", KeyLoaded(l, k) PROVE Opens
  <2>1. CASE l = "boot"
    <3>1. mode = "keychain" /\ mode' = mode
      BY <1>2, <2>1 DEF KeyLoaded, VInv, OneLoad
    <3>2. QED
      BY <3>1
  <2>2. CASE l # "boot"
    BY <1>1, <1>2, <2>2 DEF KeyLoaded, Removed
  <2>3. QED
    BY <2>1, <2>2
<1>3. ASSUME NEW k, pc[l] # "idle", SavedToFile(l, k) PROVE Opens
  BY <1>1, <1>2, <1>3 DEF SavedToFile
<1>4. ASSUME pc[l] # "idle", NotStored(l) PROVE Opens
  BY <1>2, <1>3, <1>4 DEF NotStored
<1>5. ASSUME NEW reachable \in BOOLEAN, Probed(l, reachable) PROVE Opens
  BY <1>1, <1>2, <1>3, <1>5 DEF Probed
<1>6. ASSUME NEW reachable \in BOOLEAN, Checked(l, reachable) PROVE Opens
  BY <1>2, <1>4, <1>6 DEF Checked
<1>7. CASE Written(l)
  BY <1>4, <1>7 DEF Written
<1>8. Opens
  BY <1>5, <1>6, <1>7 DEF LoadStep
<1>9. UNCHANGED idle
  BY DEF LoadStep, Probed, Checked, Written
<1>10. QED
  BY <1>8, <1>9

LEMMA NextIdleInv == ~Overlap /\ IdleInv /\ [INext]_<<vaultvars, page>> => IdleInv'
<1> SUFFICES ASSUME ~Overlap, IdleInv, [INext]_<<vaultvars, page>> PROVE IdleInv'
  OBVIOUS
<1>0. VInv /\ VaultTyped /\ OneLoad /\ refresh \in BOOLEAN /\ Timed
  BY DEF IdleInv, VInv
<1>1. VInv'
  BY <1>0, NextVInv, PageStepIsVaultStep
<1> SUFFICES (refresh \in BOOLEAN /\ Timed)'
  BY <1>1 DEF IdleInv
<1>2. CASE Off(Boot)
  <2>1. mem' = NoKey
    BY <1>0, <1>2 DEF Off, Boot, Halted, OneLoad
  <2>2. QED
    BY <1>0, <1>2, <2>1 DEF Off, page, Timed
<1>3. CASE CrashAll
  BY <1>3 DEF CrashAll, Crash, Timed
<1>4. ASSUME NEW l \in Loaders, LoadGoesOn(l) PROVE (refresh \in BOOLEAN /\ Timed)'
  <2>1. /\ UNCHANGED idle
        /\ mode' = "keychain" \/ UNCHANGED <<mode, running, mem>>
    BY <1>0, <1>4, LoadOpensKeychain DEF LoadGoesOn
  <2>2. refresh' = (refresh \/ mode' # mode)
    BY <1>4 DEF LoadGoesOn
  <2>3. QED
    BY <1>0, <2>1, <2>2 DEF Timed, idle
<1>5. CASE Refreshed
  BY <1>0, <1>5 DEF Refreshed, Touch, Touched, Timed, VaultTyped, durable
<1>6. CASE Off(Touch) \/ \E on \in BOOLEAN : Off(SetTimeout(on))
  BY <1>0, <1>6 DEF Off, page, Touch, SetTimeout, Touched, Timed, VaultTyped, durable
<1>7. CASE Off(Lock) \/ Off(TimerFires)
  BY <1>0, <1>7 DEF Off, page, Lock, TimerFires, Locked, Timed, durable
<1>8. CASE Off(UnlockVault)
  BY <1>0, <1>8 DEF Off, page, UnlockVault, Touched, Timed, durable, VaultTyped
<1>9. CASE Off(SaveSecret) \/ Off(DeleteSecrets)
  BY <1>0, <1>9 DEF Off, page, SaveSecret, DeleteSecrets, Touched, Timed, VaultTyped
<1>10. ASSUME NEW k \in Keys, SetMaster(k) PROVE (refresh \in BOOLEAN /\ Timed)'
  BY <1>10 DEF SetMaster, Timed
<1>11. ASSUME NEW c \in Calls, RemoveMaster(c) PROVE (refresh \in BOOLEAN /\ Timed)'
  BY <1>0, <1>11 DEF RemoveMaster, Off, page, RemoveMasterPassword, Touched, Timed, durable, VaultTyped
<1>12. CASE UNCHANGED <<vaultvars, page>>
  BY <1>0, <1>12 DEF vaultvars, page, durable, idle, Timed
<1>13. QED
  BY <1>2, <1>3, <1>4, <1>5, <1>6, <1>7, <1>8, <1>9, <1>10, <1>11, <1>12 DEF INext

(***************************************************************************)
(* However the vault was opened, re-keyed or given its timeout: while it   *)
(* is open in master mode with a timeout above "never", its idle timer     *)
(* runs, or the page that has just set the password is about to start it.  *)
(***************************************************************************)
THEOREM OpenVaultAlwaysTimed ==
  ASSUME ~Overlap
  PROVE  ISpec => []OpenVaultIsTimed
<1>1. IInit => IdleInv
  BY InitVInv DEF IInit, VaultInit, IdleInv, Timed
<1>2. IdleInv /\ [INext]_<<vaultvars, page>> => IdleInv'
  BY NextIdleInv
<1>3. IdleInv => OpenVaultIsTimed
  BY DEF IdleInv, VInv, Timed, OpenVaultIsTimed
<1>4. QED
  BY <1>1, <1>2, <1>3, PTL DEF ISpec

-----------------------------------------------------------------------------
(* The dialogs of a window.                                                *)

(* The stack of a calm user's window: an unlock dialog is on top or there  *)
(* is none, and it is there, unanswered, exactly as long as a pane waits.  *)
CalmStack(s, waits) ==
  /\ Stack(s)
  /\ \A i \in 1 .. Len(s) : "kind" \in DOMAIN s[i] /\ (s[i].kind = "unlock" => i = Len(s))
  /\ IF waits THEN s # <<>> /\ s[Len(s)] = Unlock
     ELSE s # <<>> => s[Len(s)].kind # "unlock"

LEMMA NoneOpen == CalmStack(<<>>, FALSE)
<1>1. QED
  BY EmptyStack DEF CalmStack

LEMMA Pushed ==
  ASSUME NEW s, CalmStack(s, FALSE), NEW d, "kind" \in DOMAIN d, d.kind # "unlock"
  PROVE  CalmStack(Append(s, d), FALSE)
<1>1. Stack(s) /\ Len(s) \in Nat
  BY StackFacts DEF CalmStack
<1>2. \A i \in 1 .. Len(s) : "kind" \in DOMAIN s[i] /\ s[i].kind # "unlock"
  <2>1. ASSUME NEW i \in 1 .. Len(s), s[i].kind = "unlock" PROVE FALSE
    <3>1. i = Len(s) /\ s # <<>>
      BY <1>1, <2>1, EmptyStack DEF CalmStack
    <3>2. QED
      BY <2>1, <3>1 DEF CalmStack
  <2>2. QED
    BY <2>1 DEF CalmStack
<1>3. QED
  BY <1>1, <1>2, PushedStack DEF CalmStack

LEMMA UnlockOpened ==
  ASSUME NEW s, CalmStack(s, FALSE)
  PROVE  CalmStack(Append(s, Unlock), TRUE)
<1>1. Stack(s) /\ Len(s) \in Nat
  BY StackFacts DEF CalmStack
<1>2. \A i \in 1 .. Len(s) : "kind" \in DOMAIN s[i] /\ s[i].kind # "unlock"
  <2>1. ASSUME NEW i \in 1 .. Len(s), s[i].kind = "unlock" PROVE FALSE
    <3>1. i = Len(s) /\ s # <<>>
      BY <1>1, <2>1, EmptyStack DEF CalmStack
    <3>2. QED
      BY <2>1, <3>1 DEF CalmStack
  <2>2. QED
    BY <2>1 DEF CalmStack
<1>3. "kind" \in DOMAIN Unlock
  BY DEF Unlock
<1> DEFINE t == Append(s, Unlock)
<1>4. /\ Stack(t) /\ Len(t) = Len(s) + 1 /\ t[Len(s) + 1] = Unlock
      /\ \A i \in 1 .. Len(s) : t[i] = s[i]
  BY <1>1, PushedStack
<1> HIDE DEF t
<1>5. t # <<>>
  BY <1>1, <1>4, EmptyStack
<1>6. \A i \in 1 .. Len(t) : "kind" \in DOMAIN t[i] /\ (t[i].kind = "unlock" => i = Len(t))
  BY <1>1, <1>2, <1>3, <1>4
<1>7. CalmStack(t, TRUE)
  BY <1>1, <1>4, <1>5, <1>6 DEF CalmStack
<1>8. QED
  BY <1>7 DEF t

(* Whatever is on top, without it no unlock dialog is left.                *)
LEMMA FrontCalm ==
  ASSUME NEW s, Stack(s), s # <<>>,
         \A i \in 1 .. (Len(s) - 1) : "kind" \in DOMAIN s[i] /\ s[i].kind # "unlock"
  PROVE  CalmStack(Front(s), FALSE)
<1> DEFINE n == Len(s)
           f == Front(s)
<1>1. Stack(f) /\ Len(f) = n - 1 /\ \A i \in 1 .. (n - 1) : f[i] = s[i]
  BY PoppedStack
<1>2. f # <<>> => Len(f) \in 1 .. Len(f)
  BY <1>1, StackFacts
<1> HIDE DEF f
<1>3. \A i \in 1 .. Len(f) : "kind" \in DOMAIN f[i] /\ f[i].kind # "unlock"
  BY <1>1
<1>4. CalmStack(f, FALSE)
  BY <1>1, <1>2, <1>3 DEF CalmStack
<1>5. QED
  BY <1>4 DEF f

LEMMA TopGone ==
  ASSUME NEW s, NEW waits \in BOOLEAN, CalmStack(s, waits), s # <<>>
  PROVE  CalmStack(Front(s), FALSE)
<1> DEFINE n == Len(s)
<1>1. Stack(s) /\ n \in Nat /\ n \in 1 .. n
  BY StackFacts DEF CalmStack
<1>2. \A i \in 1 .. n : "kind" \in DOMAIN s[i] /\ (s[i].kind = "unlock" => i = n)
  BY DEF CalmStack
<1> HIDE DEF n
<1>3. \A i \in 1 .. (n - 1) : "kind" \in DOMAIN s[i] /\ s[i].kind # "unlock"
  BY <1>1, <1>2
<1>4. QED
  BY <1>1, <1>3, FrontCalm DEF n

LEMMA TopChanged ==
  ASSUME NEW s, NEW waits \in BOOLEAN, CalmStack(s, waits), s # <<>>, s[Len(s)].kind # "unlock",
         NEW d, "kind" \in DOMAIN d, d.kind # "unlock"
  PROVE  CalmStack([s EXCEPT ![Len(s)] = d], waits) /\ ~ waits
<1>1. Stack(s) /\ Len(s) \in Nat /\ Len(s) \in 1 .. Len(s)
  BY StackFacts DEF CalmStack
<1>2. ~ waits
  BY DEF CalmStack, Unlock
<1> DEFINE t == [s EXCEPT ![Len(s)] = d]
<1>3. Stack(t) /\ Len(t) = Len(s) /\ \A i \in 1 .. Len(s) : t[i] = IF i = Len(s) THEN d ELSE s[i]
  BY <1>1, ChangedStack
<1> HIDE DEF t
<1>4. CalmStack(t, waits)
  BY <1>1, <1>2, <1>3 DEF CalmStack
<1>5. QED
  BY <1>2, <1>4 DEF t

CalmLoads(q, task, s) ==
  /\ Stack(q) /\ \A i \in 1 .. Len(q) : "then" \in DOMAIN q[i]
  /\ Closes(q) => Len(q) = 1 /\ task = NoAssign /\ s # <<>> /\ s[Len(s)].kind # "unlock"

CalmWindow(w) ==
  /\ CalmStack(dialogs[w], asking[w])
  /\ CalmLoads(loads[w], assign[w], dialogs[w])

(* The user waits, and opens no dialog over another by the keyboard.       *)
Mannerly == scene.calm /\ ~Acts("shortcuts")

ByWindow ==
  /\ DOMAIN dialogs = Windows /\ DOMAIN loads = Windows /\ DOMAIN assign = Windows
  /\ asking \in [Windows -> BOOLEAN]

AskInv == ByWindow /\ (Mannerly => \A w \in Windows : CalmWindow(w))

(* A step is of one window.                                                *)
Only(w) ==
  /\ dialogs' = dialogs \/ \E s : dialogs' = [dialogs EXCEPT ![w] = s]
  /\ asking' = asking \/ \E waits \in BOOLEAN : asking' = [asking EXCEPT ![w] = waits]
  /\ loads' = loads \/ \E q : loads' = [loads EXCEPT ![w] = q]
  /\ assign' = assign \/ \E task : assign' = [assign EXCEPT ![w] = task]
  /\ scene' = scene

LEMMA OneWindow ==
  ASSUME AskInv, NEW w \in Windows, Only(w), Mannerly => CalmWindow(w)'
  PROVE  AskInv'
<1>1. ByWindow'
  BY DEF AskInv, ByWindow, Only
<1>2. Mannerly' <=> Mannerly
  BY DEF Only, Mannerly, Acts
<1>3. ASSUME NEW v \in Windows, v # w
      PROVE  /\ dialogs'[v] = dialogs[v] /\ asking'[v] = asking[v]
             /\ loads'[v] = loads[v] /\ assign'[v] = assign[v]
  BY <1>3 DEF AskInv, ByWindow, Only
<1>4. ASSUME Mannerly, NEW v \in Windows PROVE CalmWindow(v)'
  <2>1. CASE v = w
    BY <1>4, <2>1
  <2>2. CASE v # w
    BY <1>3, <1>4, <2>2 DEF AskInv, CalmWindow
  <2>3. QED
    BY <2>1, <2>2
<1>5. QED
  BY <1>1, <1>2, <1>4 DEF AskInv

(* Where a calm user may act nothing is under way.                         *)
LEMMA FreeIsSettled ==
  ASSUME AskInv, Mannerly, NEW w \in Windows, Free(w) \/ Settled(w)
  PROVE  loads[w] = <<>> /\ assign[w] = NoAssign /\ CalmStack(dialogs[w], asking[w])
         /\ asking[w] \in BOOLEAN
<1>1. loads[w] = <<>> /\ assign[w] = NoAssign
  BY DEF Mannerly, Free, Settled
<1>2. CalmStack(dialogs[w], asking[w]) /\ asking[w] \in BOOLEAN
  BY DEF AskInv, CalmWindow, ByWindow
<1>3. QED
  BY <1>1, <1>2

LEMMA NothingUnderWay == \A task, s : CalmLoads(<<>>, task, s)
<1>1. QED
  BY EmptyStack DEF CalmLoads, Closes

(* A request, and the load that follows it when it succeeds.               *)
LEMMA Sent ==
  ASSUME ByWindow, NEW w \in Windows, NEW r, NEW then, Send(w, r, then)
  PROVE  /\ loads' = loads \/ loads' = [loads EXCEPT ![w] = Append(loads[w], Load(then))]
         /\ loads'[w] = loads[w] \/ loads'[w] = Append(loads[w], Load(then))
<1>1. QED
  BY DEF ByWindow, Send

LEMMA FirstLoad ==
  ASSUME NEW q, NEW d, q = <<>> \/ q = Append(<<>>, d), "then" \in DOMAIN d, NEW task, NEW s,
         d.then = "close" => task = NoAssign /\ s # <<>> /\ s[Len(s)].kind # "unlock"
  PROVE  CalmLoads(q, task, s)
<1> DEFINE one == Append(<<>>, d)
<1>1. Stack(one) /\ Len(one) = 1 /\ one[1] = d
  BY OnlyOne
<1> HIDE DEF one
<1>2. \A i \in 1 .. Len(one) : one[i] = d
  BY <1>1
<1>3. CalmLoads(one, task, s)
  BY <1>1, <1>2 DEF CalmLoads, Closes
<1>4. QED
  BY <1>3, NothingUnderWay DEF one

LEMMA PlainLoad ==
  ASSUME NEW q, q = <<>> \/ q = Append(<<>>, Load("nothing")), NEW task, NEW s
  PROVE  CalmLoads(q, task, s)
<1>1. "then" \in DOMAIN Load("nothing") /\ Load("nothing").then # "close"
  BY DEF Load
<1> DEFINE d == Load("nothing")
<1> HIDE DEF d
<1>2. "then" \in DOMAIN d /\ d.then # "close" /\ (q = <<>> \/ q = Append(<<>>, d))
  BY <1>1 DEF d
<1>3. QED
  BY <1>2, FirstLoad

LEMMA LoadFacts == \A then : "then" \in DOMAIN Load(then) /\ Load(then).then = then
<1>1. QED
  BY DEF Load

-----------------------------------------------------------------------------
(* Gestures.                                                               *)

(* What is on top.                                                         *)
LEMMA TopFacts ==
  ASSUME AskInv, Mannerly, NEW w \in Windows, Top(w).kind # "none"
  PROVE  /\ dialogs[w] # <<>> /\ Top(w) = dialogs[w][Len(dialogs[w])]
         /\ "kind" \in DOMAIN Top(w)
         /\ Top(w).kind # "unlock" => asking[w] = FALSE
<1>1. CalmStack(dialogs[w], asking[w]) /\ asking[w] \in BOOLEAN
  BY DEF AskInv, CalmWindow, ByWindow
<1>2. dialogs[w] # <<>>
  BY DEF Top, NoDialog
<1>3. /\ Len(dialogs[w]) \in 1 .. Len(dialogs[w])
      /\ Top(w) = dialogs[w][Len(dialogs[w])]
  BY <1>1, <1>2, StackFacts DEF CalmStack, Top
<1>4. Unlock.kind = "unlock"
  BY DEF Unlock
<1>5. QED
  BY <1>1, <1>2, <1>3, <1>4 DEF CalmStack

(* A gesture that only sends a request.                                    *)
LEMMA RequestKeeps ==
  ASSUME AskInv, NEW w \in Windows, Free(w), NEW r, Send(w, r, "nothing"),
         UNCHANGED <<scene, assign, dlgvars>>
  PROVE  AskInv'
<1>1. Only(w)
  BY Sent DEF AskInv, Only, dlgvars
<1>2. ASSUME Mannerly PROVE CalmWindow(w)'
  <2>1. loads[w] = <<>> /\ CalmStack(dialogs[w], asking[w])
    BY <1>2, FreeIsSettled
  <2>2. loads'[w] = <<>> \/ loads'[w] = Append(<<>>, Load("nothing"))
    BY <2>1, Sent DEF AskInv
  <2>3. CalmLoads(loads'[w], assign'[w], dialogs'[w])
    BY <2>2, PlainLoad
  <2>4. QED
    BY <2>1, <2>3 DEF CalmWindow, dlgvars
<1>3. QED
  BY <1>1, <1>2, OneWindow

(* One that opens a dialog.                                                *)
LEMMA OpenKeeps ==
  ASSUME AskInv, NEW w \in Windows, Free(w), NEW d, OpenDialog(w, d),
         "kind" \in DOMAIN d, d.kind # "unlock",
         Mannerly => asking[w] = FALSE, UNCHANGED <<scene, assign, loads, asking>>
  PROVE  AskInv'
<1>1. Only(w) /\ dialogs'[w] = Append(dialogs[w], d)
  BY DEF AskInv, ByWindow, Only, OpenDialog
<1>2. ASSUME Mannerly PROVE CalmWindow(w)'
  <2>1. loads[w] = <<>> /\ CalmStack(dialogs[w], FALSE)
    BY <1>2, FreeIsSettled
  <2>2. CalmStack(Append(dialogs[w], d), FALSE)
    BY <2>1, Pushed
  <2>3. QED
    BY <1>1, <1>2, <2>1, <2>2, NothingUnderWay DEF CalmWindow
<1>3. QED
  BY <1>1, <1>2, OneWindow

(* One that changes the top dialog, and maybe begins an assignment.        *)
LEMMA ChangeKeeps ==
  ASSUME AskInv, NEW w \in Windows, Free(w), NEW d, ChangeTop(w, d),
         Top(w).kind \notin {"none", "unlock"},
         Mannerly => "kind" \in DOMAIN d /\ d.kind = Top(w).kind,
         UNCHANGED <<scene, loads, asking>>,
         assign' = assign \/ \E task : assign' = [assign EXCEPT ![w] = task]
  PROVE  AskInv'
<1>1. Only(w) /\ dialogs'[w] = [dialogs[w] EXCEPT ![Len(dialogs[w])] = d]
  BY DEF AskInv, ByWindow, Only, ChangeTop
<1>2. ASSUME Mannerly PROVE CalmWindow(w)'
  <2>1. loads[w] = <<>> /\ CalmStack(dialogs[w], asking[w]) /\ asking[w] \in BOOLEAN
    BY <1>2, FreeIsSettled
  <2>2. dialogs[w] # <<>> /\ dialogs[w][Len(dialogs[w])].kind # "unlock"
    BY <1>2, TopFacts
  <2>3. CalmStack([dialogs[w] EXCEPT ![Len(dialogs[w])] = d], asking[w])
    BY <1>2, <2>1, <2>2, TopChanged
  <2>4. QED
    BY <1>1, <2>1, <2>3, NothingUnderWay DEF CalmWindow
<1>3. QED
  BY <1>1, <1>2, OneWindow

(* Whatever it does to the stack, maybe with a request.                    *)
LEMMA StackKeeps ==
  ASSUME AskInv, NEW w \in Windows, scene.calm => Settled(w),
         NEW s, dialogs' = [dialogs EXCEPT ![w] = s], Mannerly => CalmStack(s, asking'[w]),
         asking' = asking \/ \E waits \in BOOLEAN : asking' = [asking EXCEPT ![w] = waits],
         UNCHANGED <<scene, assign>>, UNCHANGED loads \/ \E r : Send(w, r, "nothing")
  PROVE  AskInv'
<1>1. Only(w) /\ dialogs'[w] = s
  BY Sent DEF AskInv, ByWindow, Only
<1>2. ASSUME Mannerly PROVE CalmWindow(w)'
  <2>1. loads[w] = <<>>
    BY <1>2, FreeIsSettled DEF Mannerly
  <2>2. loads'[w] = <<>> \/ loads'[w] = Append(<<>>, Load("nothing"))
    BY <2>1, Sent DEF AskInv
  <2>3. CalmLoads(loads'[w], assign'[w], dialogs'[w])
    BY <2>2, PlainLoad
  <2>4. QED
    BY <1>1, <1>2, <2>3 DEF CalmWindow
<1>3. QED
  BY <1>1, <1>2, OneWindow

(* Without its top dialog, which is not one that a pane waits for.         *)
LEMMA PoppedCalm ==
  ASSUME AskInv, Mannerly, NEW w \in Windows, Top(w).kind \notin {"none", "unlock"}
  PROVE  CalmStack(Popped(dialogs[w]), FALSE) /\ asking[w] = FALSE
<1>1. dialogs[w] # <<>> /\ asking[w] = FALSE
  BY TopFacts
<1>2. CalmStack(dialogs[w], asking[w])
  BY DEF AskInv, CalmWindow
<1>3. QED
  BY <1>1, <1>2, TopGone DEF Popped

(* Save or Import: the top dialog changes, and the load that follows will  *)
(* close it.                                                               *)
LEMMA SaveKeeps ==
  ASSUME AskInv, NEW w \in Windows, Free(w), NEW d, ChangeTop(w, d),
         Top(w).kind \notin {"none", "unlock"},
         Mannerly => "kind" \in DOMAIN d /\ d.kind = Top(w).kind,
         UNCHANGED <<scene, assign, asking>>, NEW r, Send(w, r, "close")
  PROVE  AskInv'
<1>1. Only(w) /\ dialogs'[w] = [dialogs[w] EXCEPT ![Len(dialogs[w])] = d]
  BY Sent DEF AskInv, ByWindow, Only, ChangeTop
<1>2. ASSUME Mannerly PROVE CalmWindow(w)'
  <2>1. /\ loads[w] = <<>> /\ assign[w] = NoAssign
        /\ CalmStack(dialogs[w], asking[w]) /\ asking[w] \in BOOLEAN
    BY <1>2, FreeIsSettled
  <2>2. dialogs[w] # <<>> /\ dialogs[w][Len(dialogs[w])].kind # "unlock"
    BY <1>2, TopFacts
  <2> DEFINE t == [dialogs[w] EXCEPT ![Len(dialogs[w])] = d]
  <2>3. CalmStack(t, asking[w]) /\ asking[w] = FALSE
    BY <1>2, <2>1, <2>2, TopChanged
  <2>4. t # <<>> /\ t[Len(t)].kind # "unlock"
    <3>1. Stack(dialogs[w]) /\ Len(dialogs[w]) \in 1 .. Len(dialogs[w])
      BY <2>1, <2>2, StackFacts DEF CalmStack
    <3>2. Len(t) = Len(dialogs[w])
      BY <3>1, ChangedStack
    <3> HIDE DEF t
    <3>3. t # <<>>
      BY <3>1, <3>2, EmptyStack
    <3>4. QED
      BY <2>3, <3>3 DEF CalmStack
  <2>5. loads'[w] = <<>> \/ loads'[w] = Append(<<>>, Load("close"))
    BY <2>1, Sent DEF AskInv
  <2> HIDE DEF t
  <2>6. CalmLoads(loads'[w], NoAssign, t)
    BY <2>4, <2>5, FirstLoad, LoadFacts
  <2>7. QED
    BY <1>1, <2>1, <2>3, <2>6 DEF CalmWindow, t
<1>3. QED
  BY <1>1, <1>2, OneWindow

-----------------------------------------------------------------------------
(* Each action keeps what the answers rest on.                             *)

(* Where a dialog is opened no pane waits.                                 *)
LEMMA NobodyWaits ==
  ASSUME AskInv, Mannerly, NEW w \in Windows,
         AtTree(w) \/ Reach(w) \/ Top(w).kind \notin {"none", "unlock"}
  PROVE  asking[w] = FALSE
<1>1. CASE dialogs[w] = <<>>
  BY <1>1 DEF AskInv, ByWindow, CalmWindow, CalmStack
<1>2. CASE Top(w).kind \notin {"none", "unlock"}
  BY <1>2, TopFacts
<1>3. QED
  BY <1>1, <1>2 DEF Reach, AtTree, Mannerly

LEMMA ReachIsFree == \A w : Reach(w) \/ AtTree(w) => Free(w)
<1>1. QED
  BY DEF Reach, AtTree

LEMMA TreeRequestsKeep ==
  ASSUME AskInv, NEW w \in Windows,
         MoveToGroup(w) \/ CreateGroup(w) \/ RenameGroup(w) \/ RememberCredentials(w)
  PROVE  AskInv'
<1>1. Free(w) /\ \E r : Send(w, r, "nothing")
  BY ReachIsFree DEF MoveToGroup, CreateGroup, RenameGroup, RememberCredentials
<1>2. UNCHANGED <<scene, assign, dlgvars>>
  BY DEF MoveToGroup, CreateGroup, RenameGroup, RememberCredentials
<1>3. QED
  BY <1>1, <1>2, RequestKeeps

LEMMA SessionDialogKind ==
  \A how, id, form : /\ "kind" \in DOMAIN SessionDialog(how, id, form)
                      /\ SessionDialog(how, id, form).kind = "session"
<1>1. QED
  BY DEF SessionDialog

LEMMA ImportDialogKind ==
  \A inputs : "kind" \in DOMAIN ImportDialog(inputs) /\ ImportDialog(inputs).kind = "import"
<1>1. QED
  BY DEF ImportDialog

LEMMA OpensKeep ==
  ASSUME AskInv, NEW w \in Windows,
         \/ AskDelete(w) \/ NewSession(w) \/ EditSession(w) \/ OpenVault(w) \/ AskDeleteKey(w)
         \/ Preview(w) \/ OpenSnippet(w)
  PROVE  AskInv'
<1>1. PICK d : OpenDialog(w, d) /\ "kind" \in DOMAIN d /\ d.kind # "unlock"
  <2>1. CASE AskDelete(w) \/ AskDeleteKey(w)
    <3>1. PICK what, id : OpenDialog(w, Confirm(what, id))
      BY <2>1 DEF AskDelete, AskDeleteKey
    <3>2. QED
      BY <3>1 DEF Confirm
  <2>2. CASE NewSession(w) \/ EditSession(w)
    <3>1. PICK how, id, form : OpenDialog(w, SessionDialog(how, id, form))
      BY <2>2 DEF NewSession, EditSession
    <3>2. QED
      BY <3>1, SessionDialogKind
  <2>3. CASE OpenVault(w)
    BY <2>3 DEF OpenVault
  <2>4. CASE Preview(w)
    <3>1. PICK inputs : OpenDialog(w, ImportDialog(inputs))
      BY <2>4 DEF Preview
    <3>2. QED
      BY <3>1, ImportDialogKind
  <2>5. CASE OpenSnippet(w)
    <3>1. PICK id, global, owner : OpenDialog(w, [kind |-> "snippet", id |-> id, global |-> global, owner |-> owner])
      BY <2>5 DEF OpenSnippet
    <3>2. QED
      BY <3>1
  <2>6. QED
    BY <2>1, <2>2, <2>3, <2>4, <2>5
<1>2. AtTree(w) \/ Reach(w) \/ (Free(w) /\ Top(w).kind = "vault")
  BY DEF AskDelete, AskDeleteKey, NewSession, EditSession, OpenVault, Preview, OpenSnippet, AtVault, At
<1>3. Free(w) /\ (Mannerly => asking[w] = FALSE)
  BY <1>2, ReachIsFree, NobodyWaits
<1>4. UNCHANGED <<scene, assign, loads, asking>>
  BY DEF AskDelete, AskDeleteKey, NewSession, EditSession, OpenVault, Preview, OpenSnippet, libvars
<1>5. QED
  BY <1>1, <1>3, <1>4, OpenKeeps

LEMMA ChangesKeep ==
  ASSUME AskInv, NEW w \in Windows,
         \/ EditField(w) \/ ImportIntoForm(w) \/ FillVault(w) \/ OpenPicker(w) \/ Toggle(w) \/ Apply(w)
         \/ LocateKey(w) \/ ScopeToggle(w)
  PROVE  AskInv'
<1>1. /\ Free(w) /\ Top(w).kind \in {"session", "vault", "import", "snippet"}
      /\ UNCHANGED <<scene, loads, asking>>
      /\ assign' = assign \/ \E task : assign' = [assign EXCEPT ![w] = task]
  BY DEF EditField, ImportIntoForm, FillVault, OpenPicker, Toggle, Apply, LocateKey, ScopeToggle,
         AtVault, At, libvars
<1>2. PICK d : ChangeTop(w, d) /\ (Mannerly => "kind" \in DOMAIN d /\ d.kind = Top(w).kind)
  <2>1. Mannerly => "kind" \in DOMAIN Top(w)
    BY <1>1, TopFacts
  <2>2. CASE EditField(w)
    <3>1. PICK form : ChangeTop(w, [Top(w) EXCEPT !.form = form])
      BY <2>2 DEF EditField
    <3>2. QED
      BY <2>1, <3>1, KindKept
  <2>3. CASE ImportIntoForm(w)
    <3>1. PICK form, keys : ChangeTop(w, [Top(w) EXCEPT !.form = form, !.keys = keys])
      BY <2>3 DEF ImportIntoForm
    <3> DEFINE formed == [Top(w) EXCEPT !.form = form]
               d == [formed EXCEPT !.keys = keys]
    <3>2. Mannerly => "kind" \in DOMAIN formed /\ formed.kind = Top(w).kind
      BY <2>1, KindKept
    <3> HIDE DEF formed
    <3>3. Mannerly => "kind" \in DOMAIN d /\ d.kind = Top(w).kind
      BY <3>2, KindKept
    <3>4. QED
      BY <3>1, <3>3 DEF formed
  <2>4. CASE FillVault(w)
    BY <2>1, <2>4, KindKept DEF FillVault
  <2>5. CASE OpenPicker(w) \/ Apply(w)
    <3>1. PICK picker : ChangeTop(w, [Top(w) EXCEPT !.picker = picker])
      BY <2>5 DEF OpenPicker, Apply
    <3>2. QED
      BY <2>1, <3>1, KindKept
  <2>6. CASE Toggle(w)
    <3>1. PICK picked : ChangeTop(w, [Top(w) EXCEPT !.picker.picked = picked])
      BY <2>6 DEF Toggle
    <3>2. QED
      BY <2>1, <3>1
  <2>7. CASE LocateKey(w)
    <3>1. PICK p, q : ChangeTop(w, [Top(w) EXCEPT !.located[p] = q])
      BY <2>7, Zenon DEF LocateKey
    <3>2. QED
      BY <2>1, <3>1
  <2>8. CASE ScopeToggle(w)
    <3>1. PICK global : ChangeTop(w, [Top(w) EXCEPT !.global = global])
      BY <2>8 DEF ScopeToggle
    <3>2. QED
      BY <2>1, <3>1, KindKept
  <2>9. QED
    BY <2>2, <2>3, <2>4, <2>5, <2>6, <2>7, <2>8
<1>3. QED
  BY <1>1, <1>2, ChangeKeeps

LEMMA SavesKeep ==
  ASSUME AskInv, NEW w \in Windows, SaveSession(w) \/ CommitImport(w)
  PROVE  AskInv'
<1>1. Free(w) /\ Top(w).kind \in {"session", "import"} /\ UNCHANGED <<scene, assign, asking>>
  BY DEF SaveSession, CommitImport, At
<1>2. PICK r, sent : Send(w, r, "close") /\ ChangeTop(w, [Top(w) EXCEPT !.sent = sent])
  BY DEF SaveSession, CommitImport
<1> DEFINE d == [Top(w) EXCEPT !.sent = sent]
<1>3. Mannerly => "kind" \in DOMAIN d /\ d.kind = Top(w).kind
  BY <1>1, TopFacts, KindKept
<1>4. ChangeTop(w, d)
  BY <1>2
<1> HIDE DEF d
<1>5. QED
  BY <1>1, <1>2, <1>3, <1>4, SaveKeeps

LEMMA DeleteKeeps ==
  ASSUME AskInv, NEW w \in Windows, ConfirmDelete(w)
  PROVE  AskInv'
<1>1. PICK i \in DOMAIN dialogs[w] :
         /\ dialogs[w][i].kind = "confirm" /\ (scene.calm => i = Len(dialogs[w]))
         /\ Delete(w, dialogs[w][i])
         /\ dialogs' = [dialogs EXCEPT ![w] =
               LET rest == Popped(dialogs[w]) IN
               IF dialogs[w][i].what = "key" /\ rest # <<>> /\ Last(rest).kind = "vault"
               THEN [rest EXCEPT ![Len(rest)].keys = DOMAIN db'.keys] ELSE rest]
  BY DEF ConfirmDelete
<1>2. Free(w) /\ UNCHANGED <<scene, assign, asking>>
  BY DEF ConfirmDelete
<1>3. UNCHANGED loads \/ \E r : Send(w, r, "nothing")
  BY <1>1 DEF Delete
<1> DEFINE rest == Popped(dialogs[w])
           keyless == [rest EXCEPT ![Len(rest)].keys = DOMAIN db'.keys]
<1>4. ASSUME Mannerly
      PROVE  asking[w] = FALSE /\ CalmStack(rest, FALSE)
             /\ (rest # <<>> => Last(rest) = rest[Len(rest)] /\ CalmStack(keyless, FALSE))
  <2>1. CalmStack(dialogs[w], asking[w]) /\ asking[w] \in BOOLEAN
    BY <1>4 DEF AskInv, CalmWindow, ByWindow
  <2>2. DOMAIN dialogs[w] = 1 .. Len(dialogs[w]) /\ Len(dialogs[w]) \in Nat
    BY <2>1, StackFacts DEF CalmStack
  <2>3. dialogs[w] # <<>> /\ Last(dialogs[w]) = dialogs[w][Len(dialogs[w])]
    BY <1>1, <2>1, <2>2, EmptyStack, StackFacts DEF CalmStack
  <2>4. Top(w).kind = "confirm"
    BY <1>1, <1>4, <2>3 DEF Top, Mannerly
  <2>5. asking[w] = FALSE /\ CalmStack(rest, FALSE)
    BY <1>4, <2>4, PoppedCalm
  <2>6. ASSUME rest # <<>> PROVE Last(rest) = rest[Len(rest)] /\ CalmStack(keyless, FALSE)
    <3> HIDE DEF rest
    <3>1. Len(rest) \in 1 .. Len(rest) /\ Last(rest) = rest[Len(rest)]
      BY <2>5, <2>6, StackFacts DEF CalmStack
    <3> DEFINE d == [rest[Len(rest)] EXCEPT !.keys = DOMAIN db'.keys]
    <3>2. rest[Len(rest)].kind # "unlock" /\ "kind" \in DOMAIN rest[Len(rest)]
      BY <2>5, <2>6, <3>1 DEF CalmStack
    <3>3. "kind" \in DOMAIN d /\ d.kind # "unlock"
      BY <3>2, KindKept
    <3>4. keyless = [rest EXCEPT ![Len(rest)] = d]
      BY <3>1
    <3> HIDE DEF d, keyless
    <3>5. CalmStack(keyless, FALSE)
      BY <2>5, <2>6, <3>2, <3>3, <3>4, TopChanged
    <3>6. QED
      BY <3>1, <3>5
  <2>7. QED
    BY <2>5, <2>6
<1> DEFINE left == IF dialogs[w][i].what = "key" /\ rest # <<>> /\ Last(rest).kind = "vault" THEN keyless ELSE rest
<1>5. dialogs' = [dialogs EXCEPT ![w] = left]
  BY <1>1
<1>6. Mannerly => CalmStack(left, asking'[w])
  <2> HIDE DEF rest, keyless
  <2>1. QED
    BY <1>2, <1>4
<1>7. scene.calm => Settled(w)
  BY <1>2 DEF Free
<1> HIDE DEF left
<1>8. QED
  BY <1>2, <1>3, <1>5, <1>6, <1>7, StackKeeps

LEMMA AsksKeep ==
  ASSUME AskInv, NEW w \in Windows, PaneAsks(w)
  PROVE  AskInv'
<1>1. /\ scene.calm => Settled(w)
      /\ dialogs' = [dialogs EXCEPT ![w] = Append(dialogs[w], Unlock)]
      /\ asking' = [asking EXCEPT ![w] = TRUE] /\ ~ asking[w]
      /\ UNCHANGED <<scene, assign, loads>>
  BY DEF PaneAsks, AskVault, OpenDialog, libvars
<1>2. ASSUME Mannerly PROVE CalmStack(Append(dialogs[w], Unlock), asking'[w])
  <2>1. asking'[w] = TRUE /\ asking[w] = FALSE /\ CalmStack(dialogs[w], asking[w])
    BY <1>1, <1>2 DEF AskInv, ByWindow, CalmWindow
  <2>2. QED
    BY <2>1, UnlockOpened
<1>3. QED
  BY <1>1, <1>2, StackKeeps

LEMMA AnswersKeep ==
  ASSUME AskInv, NEW w \in Windows, PaneAnswered(w)
  PROVE  AskInv'
<1>1. /\ scene.calm => Settled(w)
      /\ Top(w).kind = "unlock"
      /\ dialogs' = [dialogs EXCEPT ![w] = Popped(dialogs[w])]
      /\ asking' = [asking EXCEPT ![w] = FALSE]
      /\ UNCHANGED <<scene, assign, loads>>
  BY DEF PaneAnswered, AnswerUnlock, Free, libvars
<1>2. ASSUME Mannerly PROVE CalmStack(Popped(dialogs[w]), asking'[w])
  <2>1. asking'[w] = FALSE /\ asking[w] \in BOOLEAN /\ CalmStack(dialogs[w], asking[w])
    BY <1>1, <1>2 DEF AskInv, ByWindow, CalmWindow
  <2>2. dialogs[w] # <<>>
    BY <1>1 DEF Top, NoDialog
  <2>3. QED
    BY <2>1, <2>2, TopGone DEF Popped
<1>3. QED
  BY <1>1, <1>2, StackKeeps

LEMMA CancelKeeps ==
  ASSUME AskInv, NEW w \in Windows, Cancel(w)
  PROVE  AskInv'
<1>1. Free(w) /\ (scene.calm => Settled(w)) /\ UNCHANGED <<scene, assign, loads, asking>>
  BY DEF Cancel, Free, libvars, CloseTop
<1>2. CASE Top(w).kind = "vault" /\ Top(w).picker # NoPicker
  <2> DEFINE d == [Top(w) EXCEPT !.picker = NoPicker]
  <2>1. ChangeTop(w, d)
    BY <1>2 DEF Cancel
  <2>2. Mannerly => "kind" \in DOMAIN d /\ d.kind = Top(w).kind
    BY <1>2, TopFacts, KindKept
  <2> HIDE DEF d
  <2>3. QED
    BY <1>1, <1>2, <2>1, <2>2, ChangeKeeps
<1>3. CASE ~ (Top(w).kind = "vault" /\ Top(w).picker # NoPicker)
  <2>1. Top(w).kind \notin {"none", "unlock"} /\ dialogs' = [dialogs EXCEPT ![w] = Popped(dialogs[w])]
    BY <1>3 DEF Cancel, CloseTop
  <2>2. Mannerly => CalmStack(Popped(dialogs[w]), asking'[w])
    BY <1>1, <2>1, PoppedCalm
  <2>3. QED
    BY <1>1, <2>1, <2>2, StackKeeps
<1>4. QED
  BY <1>2, <1>3

(* Escape: an unlock dialog of a calm user is on top and not answered, so  *)
(* it closes, and nobody waits any more.                                   *)
LEMMA EscapeKeeps ==
  ASSUME AskInv, NEW w \in Windows, PressEscape(w)
  PROVE  AskInv'
<1> DEFINE s == dialogs[w]
           answered == [i \in DOMAIN s |->
                          IF s[i].kind = "unlock" THEN [s[i] EXCEPT !.answered = TRUE] ELSE s[i]]
           dead == Top(w).kind = "unlock" /\ Top(w).answered
           left == IF dead THEN answered ELSE Front(answered)
           none == \A d \in ToSet(s) : d.kind # "unlock"
           waits == asking[w] /\ none
<1>1. /\ scene.calm => Settled(w)
      /\ s # <<>>
      /\ dialogs' = [dialogs EXCEPT ![w] = left]
      /\ asking' = [asking EXCEPT ![w] = waits]
      /\ UNCHANGED <<scene, assign, loads>>
  BY DEF PressEscape, Escape, Free, libvars
<1>2. waits \in BOOLEAN /\ asking'[w] = waits
  BY <1>1 DEF AskInv, ByWindow
<1>3. ASSUME Mannerly PROVE CalmStack(left, waits)
  <2>1. CalmStack(s, asking[w]) /\ asking[w] \in BOOLEAN
    BY <1>3 DEF AskInv, CalmWindow, ByWindow
  <2>2. Stack(s) /\ DOMAIN s = 1 .. Len(s) /\ Len(s) \in 1 .. Len(s) /\ Top(w) = s[Len(s)]
    BY <1>1, <2>1, StackFacts DEF CalmStack, Top
  <2>3. ~ waits
    <3>1. ASSUME asking[w] PROVE ~ none
      <4>1. s[Len(s)] = Unlock
        BY <2>1, <3>1 DEF CalmStack
      <4>2. s[Len(s)] \in ToSet(s) /\ Unlock.kind = "unlock"
        BY <2>2 DEF ToSet, Unlock
      <4>3. QED
        BY <4>1, <4>2
    <3>2. QED
      BY <3>1
  <2>4. ~ dead
    <3>1. CASE asking[w]
      BY <2>1, <2>2, <3>1 DEF CalmStack, Unlock
    <3>2. CASE ~ asking[w]
      BY <1>1, <2>1, <2>2, <3>2 DEF CalmStack
    <3>3. QED
      BY <3>1, <3>2
  <2>5. Stack(answered) /\ Len(answered) = Len(s)
    <3>1. PICK S : s \in Seq(S)
      BY <2>2 DEF Stack
    <3> DEFINE T == S \cup {[d EXCEPT !.answered = TRUE] : d \in S}
    <3>2. \A i \in 1 .. Len(s) : s[i] \in S
      BY <3>1
    <3>3. \A i \in 1 .. Len(s) : answered[i] \in T
      BY <2>2, <3>2
    <3>4. answered = [i \in 1 .. Len(s) |-> answered[i]]
      BY <2>2
    <3> HIDE DEF answered, T
    <3>5. DOMAIN answered = 1 .. Len(s)
      BY <3>4
    <3>6. answered \in Seq(T)
      BY <2>2, <3>3, <3>4, <3>5, MakesSeq
    <3>7. Len(answered) = Len(s)
      BY <2>2, <3>5, <3>6
    <3>8. QED
      BY <3>6, <3>7 DEF Stack
  <2>6. \A i \in 1 .. (Len(s) - 1) : "kind" \in DOMAIN s[i] /\ s[i].kind # "unlock" /\ answered[i] = s[i]
    <3>1. \A i \in 1 .. (Len(s) - 1) : i \in 1 .. Len(s) /\ i # Len(s)
      BY <2>2
    <3>2. \A i \in 1 .. (Len(s) - 1) : "kind" \in DOMAIN s[i] /\ s[i].kind # "unlock"
      BY <2>1, <3>1 DEF CalmStack
    <3>3. QED
      BY <2>2, <3>1, <3>2
  <2>7. answered # <<>>
    BY <2>2, <2>5, EmptyStack
  <2> HIDE DEF answered, dead, waits, s
  <2>8. CalmStack(Front(answered), FALSE)
    BY <2>5, <2>6, <2>7, FrontCalm
  <2>9. QED
    BY <1>2, <2>3, <2>4, <2>8
<1> HIDE DEF left, waits
<1>4. QED
  BY <1>1, <1>2, <1>3, StackKeeps

LEMMA ReadKeeps ==
  ASSUME AskInv, NEW w \in Windows, ReadTable(w)
  PROVE  AskInv'
<1> DEFINE q == loads[w]
<1>1. PICK i \in DOMAIN q :
         loads' = [loads EXCEPT ![w][i] = IF q[i].read = 0 THEN [q[i] EXCEPT !.read = 1, !.sessions = db.sessions]
                                          ELSE [q[i] EXCEPT !.read = 2, !.groups = db.groups]]
  BY DEF ReadTable
<1> DEFINE d == IF q[i].read = 0 THEN [q[i] EXCEPT !.read = 1, !.sessions = db.sessions]
                ELSE [q[i] EXCEPT !.read = 2, !.groups = db.groups]
           r == [q EXCEPT ![i] = d]
<1>2. UNCHANGED <<scene, assign, dialogs, asking>>
  BY DEF ReadTable, dlgvars
<1>3. loads' = [loads EXCEPT ![w] = r]
  BY <1>1
<1>4. "then" \in DOMAIN q[i] => "then" \in DOMAIN d /\ d.then = q[i].then
  <2> DEFINE t1 == [q[i] EXCEPT !.read = 1]
             t2 == [q[i] EXCEPT !.read = 2]
  <2>1. ASSUME "then" \in DOMAIN q[i]
        PROVE  /\ "then" \in DOMAIN t1 /\ t1.then = q[i].then
               /\ "then" \in DOMAIN t2 /\ t2.then = q[i].then
    BY <2>1, ThenKept
  <2>2. d = IF q[i].read = 0 THEN [t1 EXCEPT !.sessions = db.sessions] ELSE [t2 EXCEPT !.groups = db.groups]
    OBVIOUS
  <2> HIDE DEF t1, t2, d
  <2>3. QED
    BY <2>1, <2>2, ThenKept
<1>5. Only(w) /\ loads'[w] = r
  BY <1>2, <1>3 DEF Only, AskInv, ByWindow
<1>6. ASSUME Mannerly PROVE CalmWindow(w)'
  <2>1. CalmStack(dialogs[w], asking[w]) /\ CalmLoads(q, assign[w], dialogs[w])
    BY <1>6 DEF AskInv, CalmWindow
  <2>2. Stack(q) /\ DOMAIN q = 1 .. Len(q)
    BY <2>1, StackFacts DEF CalmLoads
  <2> HIDE DEF d
  <2>3. Stack(r) /\ Len(r) = Len(q) /\ \A j \in 1 .. Len(q) : r[j] = IF j = i THEN d ELSE q[j]
    BY <2>2, ChangedStack
  <2> HIDE DEF q, r
  <2>4. \A j \in 1 .. Len(q) : "then" \in DOMAIN r[j] /\ r[j].then = q[j].then
    BY <1>4, <2>1, <2>2, <2>3 DEF CalmLoads
  <2>5. CalmLoads(r, assign[w], dialogs[w])
    BY <2>1, <2>3, <2>4 DEF CalmLoads, Closes
  <2>6. QED
    BY <1>2, <1>5, <2>1, <2>5 DEF CalmWindow
<1>7. QED
  BY <1>5, <1>6, OneWindow

(* The load that closes a dialog is the only one, and takes its dialog off;*)
(* any other leaves the stack alone.                                       *)
LEMMA LoadedKeeps ==
  ASSUME AskInv, NEW w \in Windows, Loaded(w)
  PROVE  AskInv'
<1> DEFINE q == loads[w]
           closes == Head(q).then = "close"
           left == IF closes THEN Popped(dialogs[w]) ELSE dialogs[w]
<1>1. /\ q # <<>> /\ loads' = [loads EXCEPT ![w] = Tail(q)]
      /\ UNCHANGED <<scene, assign, asking>>
      /\ IF closes THEN dialogs' = [dialogs EXCEPT ![w] = Popped(dialogs[w])] ELSE UNCHANGED dialogs
  BY DEF Loaded
<1>2. Only(w) /\ dialogs'[w] = left /\ loads'[w] = Tail(q)
  BY <1>1 DEF Only, AskInv, ByWindow
<1>3. ASSUME Mannerly PROVE CalmWindow(w)'
  <2>1. CalmStack(dialogs[w], asking[w]) /\ asking[w] \in BOOLEAN /\ CalmLoads(q, assign[w], dialogs[w])
    BY <1>3 DEF AskInv, CalmWindow, ByWindow
  <2> HIDE DEF q
  <2>2. /\ Stack(q) /\ Stack(Tail(q)) /\ Len(q) \in Nat /\ Len(Tail(q)) = Len(q) - 1
        /\ Head(q) = q[1] /\ 1 \in 1 .. Len(q)
        /\ \A i \in 1 .. (Len(q) - 1) : Tail(q)[i] = q[i + 1] /\ i + 1 \in 1 .. Len(q)
    BY <1>1, <2>1, TailStack, StackFacts DEF CalmLoads
  <2>3. Closes(q) => Len(q) = 1
    BY <2>1 DEF CalmLoads
  <2>4. ~ Closes(Tail(q))
    BY <2>2, <2>3 DEF Closes
  <2>5. CalmLoads(Tail(q), assign[w], left)
    BY <2>1, <2>2, <2>4 DEF CalmLoads
  <2>6. CalmStack(left, asking[w])
    <3>1. CASE closes
      <4>1. Closes(q)
        BY <2>2, <3>1 DEF Closes
      <4>2. dialogs[w] # <<>> /\ dialogs[w][Len(dialogs[w])].kind # "unlock"
        BY <2>1, <4>1 DEF CalmLoads
      <4>3. asking[w] = FALSE
        BY <2>1, <4>2 DEF CalmStack, Unlock
      <4>4. QED
        BY <2>1, <3>1, <4>2, <4>3, TopGone DEF Popped
    <3>2. QED
      BY <2>1, <3>1
  <2> HIDE DEF left
  <2>7. QED
    BY <1>1, <1>2, <2>5, <2>6 DEF CalmWindow
<1>4. QED
  BY <1>2, <1>3, OneWindow

(* While an assignment runs no load closes a dialog.                       *)
LEMMA AssignsKeep ==
  ASSUME AskInv, NEW w \in Windows, AssignNext(w) \/ AssignDone(w)
  PROVE  AskInv'
<1>1. /\ assign[w] # NoAssign /\ UNCHANGED <<scene, dialogs, asking>>
      /\ \E task : assign' = [assign EXCEPT ![w] = task]
      /\ UNCHANGED loads \/ \E r : Send(w, r, "assign")
  BY DEF AssignNext, AssignDone, NoAssign, dlgvars
<1>2. Only(w) /\ (loads'[w] = loads[w] \/ loads'[w] = Append(loads[w], Load("assign")))
  BY <1>1, Sent DEF Only, AskInv
<1>3. ASSUME Mannerly PROVE CalmWindow(w)'
  <2>1. CalmStack(dialogs[w], asking[w]) /\ CalmLoads(loads[w], assign[w], dialogs[w])
    BY <1>3 DEF AskInv, CalmWindow
  <2> DEFINE d == Load("assign")
             q == loads[w]
             more == Append(q, d)
  <2>2. "then" \in DOMAIN d /\ d.then # "close"
    BY LoadFacts
  <2>3. Stack(q) /\ Len(q) \in Nat /\ ~ Closes(q)
    BY <1>1, <2>1, StackFacts DEF CalmLoads
  <2> HIDE DEF d, q
  <2>4. /\ Stack(more) /\ Len(more) = Len(q) + 1 /\ more[Len(q) + 1] = d
        /\ \A i \in 1 .. Len(q) : more[i] = q[i]
    BY <2>3, PushedStack
  <2> HIDE DEF more
  <2>5. \A i \in 1 .. Len(q) : "then" \in DOMAIN q[i] /\ q[i].then # "close"
    BY <2>1, <2>3 DEF CalmLoads, Closes, q
  <2>6. \A i \in 1 .. Len(more) : "then" \in DOMAIN more[i] /\ more[i].then # "close"
    <3>1. \A i \in 1 .. Len(more) : i = Len(q) + 1 \/ i \in 1 .. Len(q)
      BY <2>3, <2>4
    <3>2. QED
      BY <2>2, <2>4, <2>5, <3>1
  <2>7. CalmLoads(q, assign'[w], dialogs[w]) /\ CalmLoads(more, assign'[w], dialogs[w])
    BY <2>3, <2>4, <2>5, <2>6 DEF CalmLoads, Closes
  <2>8. CalmLoads(loads'[w], assign'[w], dialogs'[w])
    BY <1>1, <1>2, <2>7 DEF q, more, d
  <2>9. QED
    BY <1>1, <2>1, <2>8 DEF CalmWindow
<1>4. QED
  BY <1>2, <1>3, OneWindow

LEMMA SnippetKeeps ==
  ASSUME AskInv, NEW w \in Windows, SaveSnippet(w)
  PROVE  AskInv'
<1>1. /\ Top(w).kind = "snippet"
      /\ scene.calm => Settled(w)
      /\ dialogs' = [dialogs EXCEPT ![w] = Popped(dialogs[w])] /\ UNCHANGED <<scene, assign, loads, asking>>
  BY DEF SaveSnippet, At, Free
<1>2. Mannerly => CalmStack(Popped(dialogs[w]), asking'[w])
  BY <1>1, PoppedCalm
<1>3. QED
  BY <1>1, <1>2, StackKeeps

LEMMA Undisturbed ==
  ASSUME AskInv, UNCHANGED <<scene, dialogs, asking, loads, assign>>
  PROVE  AskInv'
<1>1. QED
  BY DEF AskInv, ByWindow, Mannerly, Acts, CalmWindow

LEMMA AskStep == AskInv /\ [Next]_vars => AskInv'
<1> SUFFICES ASSUME AskInv, [Next]_vars PROVE AskInv'
  OBVIOUS
<1>1. CASE FilesChange
  <2>1. UNCHANGED <<scene, dialogs, asking, loads, assign>>
    BY <1>1 DEF FilesChange, dlgvars
  <2>2. QED
    BY <2>1, Undisturbed
<1>2. ASSUME NEW w \in Windows,
             \/ ReadTable(w) \/ Loaded(w)
             \/ MoveToGroup(w) \/ CreateGroup(w) \/ RenameGroup(w) \/ AskDelete(w) \/ ConfirmDelete(w)
             \/ NewSession(w) \/ EditSession(w) \/ EditField(w) \/ ImportIntoForm(w) \/ SaveSession(w)
             \/ RememberCredentials(w)
             \/ OpenVault(w) \/ FillVault(w) \/ AskDeleteKey(w) \/ OpenPicker(w) \/ Toggle(w) \/ Apply(w)
             \/ AssignNext(w) \/ AssignDone(w)
             \/ Preview(w) \/ LocateKey(w) \/ CommitImport(w) \/ ExportBackup(w)
             \/ OpenSnippet(w) \/ ScopeToggle(w) \/ SaveSnippet(w) \/ SnippetList(w) \/ Tunnels(w)
             \/ PaneAsks(w) \/ PaneAnswered(w) \/ Cancel(w) \/ PressEscape(w)
      PROVE  AskInv'
  <2>1. CASE ReadTable(w) \/ Loaded(w) \/ AssignNext(w) \/ AssignDone(w)
    BY <2>1, ReadKeeps, LoadedKeeps, AssignsKeep
  <2>2. CASE MoveToGroup(w) \/ CreateGroup(w) \/ RenameGroup(w) \/ RememberCredentials(w)
    BY <2>2, TreeRequestsKeep
  <2>3. CASE \/ AskDelete(w) \/ NewSession(w) \/ EditSession(w) \/ OpenVault(w) \/ AskDeleteKey(w)
             \/ Preview(w) \/ OpenSnippet(w)
    BY <2>3, OpensKeep
  <2>4. CASE \/ EditField(w) \/ ImportIntoForm(w) \/ FillVault(w) \/ OpenPicker(w) \/ Toggle(w) \/ Apply(w)
             \/ LocateKey(w) \/ ScopeToggle(w)
    BY <2>4, ChangesKeep
  <2>5. CASE SaveSession(w) \/ CommitImport(w) \/ SaveSnippet(w)
    BY <2>5, SavesKeep, SnippetKeeps
  <2>6. CASE ConfirmDelete(w) \/ Cancel(w) \/ PressEscape(w)
    BY <2>6, DeleteKeeps, CancelKeeps, EscapeKeeps
  <2>7. CASE PaneAsks(w) \/ PaneAnswered(w)
    BY <2>7, AsksKeep, AnswersKeep
  <2>8. CASE ExportBackup(w) \/ SnippetList(w) \/ Tunnels(w)
    <3>1. UNCHANGED <<scene, dialogs, asking, loads, assign>>
      BY <2>8 DEF ExportBackup, SnippetList, Tunnels, dlgvars
    <3>2. QED
      BY <3>1, Undisturbed
  <2>9. QED
    BY <1>2, <2>1, <2>2, <2>3, <2>4, <2>5, <2>6, <2>7, <2>8
<1>3. CASE UNCHANGED vars
  BY <1>3, Undisturbed DEF vars, libvars, dlgvars
<1>4. QED
  BY <1>1, <1>2, <1>3 DEF Next

LEMMA AskStarts == Init => AskInv
<1> SUFFICES ASSUME Init PROVE AskInv
  OBVIOUS
<1>1. /\ dialogs = [w \in Windows |-> <<>>] /\ asking = [w \in Windows |-> FALSE]
      /\ loads = [w \in Windows |-> <<>>] /\ assign = [w \in Windows |-> NoAssign]
  BY DEF Init, DialogInit
<1>2. ByWindow
  BY <1>1 DEF ByWindow
<1>3. \A w \in Windows : CalmWindow(w)
  BY <1>1, NoneOpen, NothingUnderWay DEF CalmWindow
<1>4. QED
  BY <1>2, <1>3 DEF AskInv

LEMMA AskAnswers == AskInv => UnlockAnswers
<1> SUFFICES ASSUME AskInv, Mannerly, NEW w \in Windows
    PROVE  LET unlocks == {i \in DOMAIN dialogs[w] : dialogs[w][i].kind = "unlock"} IN
           IF asking[w] THEN \E i \in unlocks : unlocks = {i} /\ dialogs[w][i] = Unlock
           ELSE unlocks = {}
  BY DEF UnlockAnswers, Mannerly
<1> DEFINE s == dialogs[w]
           unlocks == {i \in DOMAIN s : s[i].kind = "unlock"}
<1>1. CalmStack(s, asking[w]) /\ asking[w] \in BOOLEAN
  BY DEF AskInv, CalmWindow, ByWindow
<1>2. DOMAIN s = 1 .. Len(s) /\ Len(s) \in Nat /\ (s # <<>> => Len(s) \in 1 .. Len(s))
  BY <1>1, StackFacts DEF CalmStack
<1>3. \A i \in unlocks : i = Len(s) /\ s # <<>>
  BY <1>1, <1>2, EmptyStack DEF CalmStack
<1>4. CASE asking[w]
  <2>1. s # <<>> /\ s[Len(s)] = Unlock
    BY <1>1, <1>4 DEF CalmStack
  <2>2. Len(s) \in unlocks
    BY <1>2, <2>1 DEF Unlock
  <2>3. unlocks = {Len(s)}
    BY <1>3, <2>2
  <2>4. QED
    BY <1>4, <2>1, <2>2, <2>3
<1>5. CASE ~ asking[w]
  <2>1. unlocks = {}
    BY <1>1, <1>3, <1>5 DEF CalmStack
  <2>2. QED
    BY <1>5, <2>1
<1>6. QED
  BY <1>4, <1>5

(* A pane that asked for the vault can always be answered, and no dialog   *)
(* is left that answers nobody, whatever a calm user who opens no dialog by*)
(* the keyboard over another does in the library meanwhile                 *)
(* (vaultGuard.pending, UnlockVaultDialog, Modal's Escape).                *)
THEOREM UnlockAlwaysAnswers == Spec => []UnlockAnswers
<1>1. Init => AskInv
  BY AskStarts
<1>2. AskInv /\ [Next]_vars => AskInv'
  BY AskStep
<1>3. AskInv => UnlockAnswers
  BY AskAnswers
<1>4. QED
  BY <1>1, <1>2, <1>3, PTL DEF Spec

-----------------------------------------------------------------------------
(* What the windows hold.                                                  *)

(* And none it brings is in it twice, unless a document of the user's is   *)
(* such.                                                                   *)
Brought(inputs) == ForeignOnly => Loose(inputs) /\ (OneOfEach => Apart(inputs))
ImportFits(d) ==
  /\ {"inputs", "located", "sent"} \subseteq DOMAIN d /\ d.inputs \in Seq(InputRows)
  /\ Brought(d.inputs)

DialogFits(d) ==
  /\ "kind" \in DOMAIN d
  /\ d.kind = "session" => SessionFits(d)
  /\ d.kind = "vault" => VaultFits(d)
  /\ d.kind = "snippet" => SnippetFits(d)
  /\ d.kind = "import" => ImportFits(d)
  /\ d.kind = "confirm" => d = Confirm(d.what, d.id)

GoodStack(s) == Stack(s) /\ \A i \in 1 .. Len(s) : DialogFits(s[i])

(* An assignment knows the names of the sessions it has still to change.   *)
TaskFits(a) ==
  /\ {"key", "todo", "picked", "names"} \subseteq DOMAIN a /\ a.key \in Nat /\ Stack(a.todo)
  /\ \A i \in 1 .. Len(a.todo) : a.todo[i] \in DOMAIN a.names /\ a.names[a.todo[i]] \in Names

(* The invariant: the tables are sound, and whatever a window, a dialog, a *)
(* load or a backup holds may be sent to them at any later time.           *)
Once == ~ Acts("byhand")
TablesGood == GoodTables(db, Once)
DiskGood == FilesTyped(files) /\ saved \in Seq(SessionRows) /\ (Acts("backup") \/ saved = NoBackup)
ViewsGood == DOMAIN view = Windows /\ \A w \in Windows : CopyFits(view[w])
LoadsGood == DOMAIN loads = Windows /\ \A w \in Windows : GoodLoads(loads[w])
TasksGood == DOMAIN assign = Windows /\ \A w \in Windows : TaskFits(assign[w])
StacksGood == DOMAIN dialogs = Windows /\ \A w \in Windows : GoodStack(dialogs[w])

LInv == scene \in Scenes /\ TablesGood /\ DiskGood /\ ViewsGood /\ LoadsGood /\ TasksGood /\ StacksGood

LEMMA OnceKept == scene' = scene => Once' = Once
<1>1. QED
  BY DEF Once, Acts

LEMMA SceneKept ==
  ASSUME scene' = scene
  PROVE  /\ Alone' = Alone /\ ForeignOnly' = ForeignOnly /\ OneOfEach' = OneOfEach
         /\ \A w \in Windows : Here(w)' = Here(w)
         /\ \A a : Acts(a)' = Acts(a)
<1>1. QED
  BY DEF Alone, ForeignOnly, OneOfEach, Acts, Here

LEMMA NewLoadFits == \A then : LoadFits(Load(then))
<1> SUFFICES ASSUME NEW then PROVE LoadFits(Load(then))
  OBVIOUS
<1>1. /\ {"read", "sessions", "groups", "then"} \subseteq DOMAIN Load(then)
      /\ Load(then).read = 0 /\ Load(then).sessions = <<>> /\ Load(then).groups = <<>>
  BY DEF Load
<1>2. QED
  BY <1>1, NothingFits DEF LoadFits, CopyFits

(* A stack whose members all fit, after a step on it.                      *)
LEMMA NoDialogs == GoodStack(<<>>) /\ GoodLoads(<<>>)
<1>1. \A i \in 1 .. 0 : FALSE
  OBVIOUS
<1>2. QED
  BY <1>1, EmptyStack DEF GoodStack, GoodLoads

LEMMA DialogPushed ==
  ASSUME NEW s, GoodStack(s), NEW d, DialogFits(d)
  PROVE  GoodStack(Append(s, d))
<1> DEFINE t == Append(s, d)
<1>1. /\ Stack(t) /\ Len(t) = Len(s) + 1 /\ Len(s) \in Nat
      /\ \A i \in 1 .. Len(s) : t[i] = s[i]
      /\ t[Len(s) + 1] = d
  BY PushedStack, StackFacts DEF GoodStack
<1> HIDE DEF t
<1>2. \A i \in 1 .. Len(t) : i \in 1 .. Len(s) \/ i = Len(s) + 1
  BY <1>1
<1>3. GoodStack(t)
  BY <1>1, <1>2 DEF GoodStack
<1>4. QED
  BY <1>3 DEF t

LEMMA LoadPushed ==
  ASSUME NEW q, GoodLoads(q), NEW then
  PROVE  GoodLoads(Append(q, Load(then)))
<1> DEFINE l == Load(then)
           t == Append(q, l)
<1>0. LoadFits(l)
  BY NewLoadFits
<1> HIDE DEF l
<1>1. /\ Stack(t) /\ Len(t) = Len(q) + 1 /\ Len(q) \in Nat
      /\ \A i \in 1 .. Len(q) : t[i] = q[i]
      /\ t[Len(q) + 1] = l
  BY PushedStack, StackFacts DEF GoodLoads
<1> HIDE DEF t
<1>2. \A i \in 1 .. Len(t) : i \in 1 .. Len(q) \/ i = Len(q) + 1
  BY <1>1
<1>3. GoodLoads(t)
  BY <1>0, <1>1, <1>2 DEF GoodLoads
<1>4. QED
  BY <1>3 DEF t, l

LEMMA DialogPopped ==
  ASSUME NEW s, GoodStack(s)
  PROVE  GoodStack(Popped(s)) /\ (s # <<>> => GoodStack(Front(s)))
<1>1. ASSUME s # <<>> PROVE GoodStack(Front(s))
  <2> DEFINE t == Front(s)
  <2>1. Stack(t) /\ Len(t) = Len(s) - 1 /\ Len(s) \in Nat /\ \A i \in 1 .. (Len(s) - 1) : t[i] = s[i]
    BY <1>1, PoppedStack, StackFacts DEF GoodStack
  <2> HIDE DEF t
  <2>2. \A i \in 1 .. Len(t) : i \in 1 .. (Len(s) - 1) /\ i \in 1 .. Len(s)
    BY <2>1
  <2>3. GoodStack(t)
    BY <2>1, <2>2 DEF GoodStack
  <2>4. QED
    BY <2>3 DEF t
<1>2. QED
  BY <1>1 DEF Popped

LEMMA DialogChanged ==
  ASSUME NEW s, GoodStack(s), NEW k \in 1 .. Len(s), NEW d, DialogFits(d)
  PROVE  GoodStack([s EXCEPT ![k] = d])
<1> DEFINE t == [s EXCEPT ![k] = d]
<1>0. Stack(s)
  BY DEF GoodStack
<1>1. Stack(t) /\ Len(t) = Len(s) /\ \A i \in 1 .. Len(s) : t[i] = IF i = k THEN d ELSE s[i]
  BY <1>0, ChangedStack
<1> HIDE DEF t
<1>2. GoodStack(t)
  BY <1>1 DEF GoodStack
<1>3. QED
  BY <1>2 DEF t

(* A step of one window.                                                   *)
LEMMA StackSet ==
  ASSUME StacksGood, scene' = scene, NEW w \in Windows, NEW s, GoodStack(s), dialogs' = [dialogs EXCEPT ![w] = s]
  PROVE  StacksGood'
<1>0. ForeignOnly' = ForeignOnly /\ OneOfEach' = OneOfEach
  BY SceneKept
<1>1. DOMAIN dialogs' = Windows /\ \A v \in Windows : dialogs'[v] = IF v = w THEN s ELSE dialogs[v]
  BY DEF StacksGood
<1>2. QED
  BY <1>0, <1>1 DEF StacksGood, GoodStack, DialogFits, ImportFits, Brought

LEMMA LoadsSet ==
  ASSUME LoadsGood, NEW w \in Windows, NEW q, GoodLoads(q), loads' = [loads EXCEPT ![w] = q]
  PROVE  LoadsGood'
<1>1. DOMAIN loads' = Windows /\ \A v \in Windows : loads'[v] = IF v = w THEN q ELSE loads[v]
  BY DEF LoadsGood
<1>2. QED
  BY <1>1 DEF LoadsGood

LEMMA Opened ==
  ASSUME StacksGood, scene' = scene, NEW w \in Windows, NEW d, DialogFits(d), OpenDialog(w, d)
  PROVE  StacksGood'
<1> DEFINE s == Append(dialogs[w], d)
<1>1. dialogs' = [dialogs EXCEPT ![w] = s]
  BY DEF OpenDialog
<1>2. GoodStack(s)
  BY DialogPushed DEF StacksGood
<1> HIDE DEF s
<1>3. QED
  BY <1>1, <1>2, StackSet

(* The dialog on top is one of the stack.                                  *)
LEMMA TopFits ==
  ASSUME StacksGood, NEW w \in Windows, Top(w).kind # "none"
  PROVE  /\ dialogs[w] # <<>> /\ Len(dialogs[w]) \in 1 .. Len(dialogs[w])
         /\ DialogFits(Top(w))
<1>1. dialogs[w] # <<>>
  BY DEF Top, NoDialog
<1>2. Stack(dialogs[w]) /\ \A i \in 1 .. Len(dialogs[w]) : DialogFits(dialogs[w][i])
  BY DEF StacksGood, GoodStack
<1>3. Len(dialogs[w]) \in 1 .. Len(dialogs[w]) /\ Top(w) = dialogs[w][Len(dialogs[w])]
  BY <1>1, <1>2, StackFacts DEF Top
<1>4. QED
  BY <1>1, <1>2, <1>3

LEMMA TopSet ==
  ASSUME StacksGood, scene' = scene, NEW w \in Windows, Top(w).kind # "none", NEW d, DialogFits(d), ChangeTop(w, d)
  PROVE  StacksGood'
<1> DEFINE s == [dialogs[w] EXCEPT ![Len(dialogs[w])] = d]
<1>1. dialogs' = [dialogs EXCEPT ![w] = s]
  BY DEF ChangeTop
<1>2. GoodStack(s)
  BY TopFits, DialogChanged DEF StacksGood
<1> HIDE DEF s
<1>3. QED
  BY <1>1, <1>2, StackSet

LEMMA PoppedOff ==
  ASSUME StacksGood, scene' = scene, NEW w \in Windows, dialogs' = [dialogs EXCEPT ![w] = Popped(dialogs[w])]
  PROVE  StacksGood'
<1> DEFINE s == Popped(dialogs[w])
<1>1. GoodStack(s)
  BY DialogPopped DEF StacksGood
<1> HIDE DEF s
<1>2. dialogs' = [dialogs EXCEPT ![w] = s]
  BY DEF s
<1>3. QED
  BY <1>1, <1>2, StackSet

(* A request whose answer is sound.                                        *)
LEMMA Answered ==
  ASSUME LInv, scene' = scene, NEW w \in Windows, NEW r, NEW then, Send(w, r, then), GoodTables(r.db, Once)
  PROVE  TablesGood' /\ LoadsGood'
<1>1. db' = r.db /\ Once' = Once
  BY OnceKept DEF Send
<1>2. TablesGood'
  BY <1>1 DEF TablesGood
<1> DEFINE q == Append(loads[w], Load(then))
<1>3. loads' = loads \/ loads' = [loads EXCEPT ![w] = q]
  BY DEF Send
<1>4. GoodLoads(q)
  BY LoadPushed DEF LInv, LoadsGood
<1> HIDE DEF q
<1>5. LoadsGood'
  <2>1. CASE loads' = loads
    BY <2>1 DEF LInv, LoadsGood
  <2>2. CASE loads' = [loads EXCEPT ![w] = q]
    BY <1>4, <2>2, LoadsSet DEF LInv
  <2>3. QED
    BY <1>3, <2>1, <2>2
<1>6. QED
  BY <1>2, <1>5

LEMMA Tabled ==
  ASSUME LInv, scene' = scene, GoodTables(db', Once)
  PROVE  TablesGood'
<1>1. QED
  BY OnceKept DEF TablesGood

-----------------------------------------------------------------------------
(* The dialogs as they are opened and changed.                             *)

LEMMA PlainDialogs == DialogFits(Unlock) /\ \A what, id : DialogFits(Confirm(what, id))
<1>1. DialogFits(Unlock)
  BY DEF DialogFits, Unlock
<1>2. ASSUME NEW what, NEW id PROVE DialogFits(Confirm(what, id))
  BY DEF DialogFits, Confirm
<1>3. QED
  BY <1>1, <1>2

LEMMA SessionDialogFits ==
  ASSUME TablesGood, NEW how, NEW id \in Nat, NEW form \in SessionRows,
         how = "edit" => id # None /\ form.jump # id
  PROVE  DialogFits(SessionDialog(how, id, form))
<1> DEFINE d == SessionDialog(how, id, form)
<1>1. DOMAIN db.keys \subseteq Nat
  BY TablesFit DEF TablesGood
<1>2. /\ "kind" \in DOMAIN d /\ d.kind = "session" /\ {"mode", "id", "form", "keys", "sent"} \subseteq DOMAIN d
      /\ d.mode = how /\ d.id = id /\ d.form = form /\ d.keys = DOMAIN db.keys
  BY DEF SessionDialog
<1> HIDE DEF d
<1>3. SessionFits(d)
  BY <1>1, <1>2 DEF SessionFits
<1>4. DialogFits(d)
  BY <1>2, <1>3 DEF DialogFits
<1>5. QED
  BY <1>4 DEF d

LEMMA ImportDialogFits ==
  ASSUME NEW inputs \in Seq(InputRows), Brought(inputs)
  PROVE  DialogFits(ImportDialog(inputs))
<1> DEFINE d == ImportDialog(inputs)
<1>1. /\ "kind" \in DOMAIN d /\ d.kind = "import" /\ {"inputs", "located", "sent"} \subseteq DOMAIN d
      /\ d.inputs = inputs
  BY DEF ImportDialog
<1> HIDE DEF d
<1>2. ImportFits(d)
  BY <1>1 DEF ImportFits
<1>3. DialogFits(d)
  BY <1>1, <1>2 DEF DialogFits
<1>4. QED
  BY <1>3 DEF d

LEMMA VaultDialogFits ==
  ASSUME NEW ks, ks \subseteq Nat
  PROVE  DialogFits([kind |-> "vault", keys |-> ks, picker |-> NoPicker])
<1> DEFINE d == [kind |-> "vault", keys |-> ks, picker |-> NoPicker]
<1>1. "key" \in DOMAIN NoPicker /\ "picked" \in DOMAIN NoPicker /\ NoPicker.key \in Nat
  BY DEF NoPicker, None
<1>2. /\ "kind" \in DOMAIN d /\ d.kind = "vault" /\ {"keys", "picker"} \subseteq DOMAIN d
      /\ d.keys = ks /\ d.picker = NoPicker
  OBVIOUS
<1> HIDE DEF d
<1>3. VaultFits(d)
  BY <1>1, <1>2 DEF VaultFits
<1>4. DialogFits(d)
  BY <1>2, <1>3 DEF DialogFits
<1>5. QED
  BY <1>4 DEF d

(* What nobody sends may hold anything.                                    *)
LEMMA MarkSet ==
  ASSUME NEW t, DialogFits(t), NEW field \in {"sent", "located"}, NEW e,
         t.kind \in {"session", "import"}
  PROVE  DialogFits(FieldSet(t, field, e))
<1> DEFINE d == FieldSet(t, field, e)
<1>1. DOMAIN d = DOMAIN t /\ \A f \in DOMAIN t \ {field} : d[f] = t[f]
  BY FieldFacts
<1> HIDE DEF d
<1>2. d.kind = t.kind /\ "kind" \in DOMAIN d
  BY <1>1 DEF DialogFits
<1>3. CASE t.kind = "session"
  <2>1. SessionFits(t)
    BY <1>3 DEF DialogFits
  <2>2. /\ {"mode", "id", "form", "keys", "sent"} \subseteq DOMAIN d
        /\ d.mode = t.mode /\ d.id = t.id /\ d.form = t.form /\ d.keys = t.keys
    BY <1>1, <2>1 DEF SessionFits
  <2>3. SessionFits(d)
    BY <2>1, <2>2 DEF SessionFits
  <2>4. DialogFits(d)
    BY <1>2, <1>3, <2>3 DEF DialogFits
  <2>5. QED
    BY <2>4 DEF d
<1>4. CASE t.kind = "import"
  <2>1. ImportFits(t)
    BY <1>4 DEF DialogFits
  <2>2. {"inputs", "located", "sent"} \subseteq DOMAIN d /\ d.inputs = t.inputs
    BY <1>1, <2>1 DEF ImportFits
  <2>3. ImportFits(d)
    BY <2>1, <2>2 DEF ImportFits
  <2>4. DialogFits(d)
    BY <1>2, <1>4, <2>3 DEF DialogFits
  <2>5. QED
    BY <2>4 DEF d
<1>5. QED
  BY <1>3, <1>4

LEMMA FormSet ==
  ASSUME NEW t, DialogFits(t), t.kind = "session", NEW form \in SessionRows,
         t.mode = "edit" => form.jump # t.id
  PROVE  DialogFits(FieldSet(t, "form", form))
<1> DEFINE d == FieldSet(t, "form", form)
<1>1. SessionFits(t) /\ "kind" \in DOMAIN t
  BY DEF DialogFits
<1>2. /\ DOMAIN d = DOMAIN t /\ ("form" \in DOMAIN t => d.form = form)
      /\ \A f \in DOMAIN t \ {"form"} : d[f] = t[f]
  BY FieldFacts
<1> HIDE DEF d
<1>3. /\ {"kind", "mode", "id", "form", "keys", "sent"} \subseteq DOMAIN d
      /\ d.kind = t.kind /\ d.mode = t.mode /\ d.id = t.id /\ d.form = form /\ d.keys = t.keys
  BY <1>1, <1>2 DEF SessionFits
<1>4. SessionFits(d)
  BY <1>1, <1>3 DEF SessionFits
<1>5. DialogFits(d)
  BY <1>3, <1>4 DEF DialogFits
<1>6. QED
  BY <1>5 DEF d

LEMMA KeysSet ==
  ASSUME NEW t, DialogFits(t), t.kind \in {"session", "vault"}, NEW ks, ks \subseteq Nat
  PROVE  DialogFits(FieldSet(t, "keys", ks))
<1> DEFINE d == FieldSet(t, "keys", ks)
<1>1. /\ DOMAIN d = DOMAIN t /\ ("keys" \in DOMAIN t => d.keys = ks)
      /\ \A f \in DOMAIN t \ {"keys"} : d[f] = t[f]
  BY FieldFacts
<1> HIDE DEF d
<1>2. d.kind = t.kind /\ "kind" \in DOMAIN d
  BY <1>1 DEF DialogFits
<1>3. CASE t.kind = "session"
  <2>1. SessionFits(t)
    BY <1>3 DEF DialogFits
  <2>2. /\ {"mode", "id", "form", "keys", "sent"} \subseteq DOMAIN d
        /\ d.mode = t.mode /\ d.id = t.id /\ d.form = t.form /\ d.keys = ks
    BY <1>1, <2>1 DEF SessionFits
  <2>3. SessionFits(d)
    BY <2>1, <2>2 DEF SessionFits
  <2>4. DialogFits(d)
    BY <1>2, <1>3, <2>3 DEF DialogFits
  <2>5. QED
    BY <2>4 DEF d
<1>4. CASE t.kind = "vault"
  <2>1. VaultFits(t)
    BY <1>4 DEF DialogFits
  <2>2. {"keys", "picker"} \subseteq DOMAIN d /\ d.picker = t.picker /\ d.keys = ks
    BY <1>1, <2>1 DEF VaultFits
  <2>3. VaultFits(d)
    BY <2>1, <2>2 DEF VaultFits
  <2>4. DialogFits(d)
    BY <1>2, <1>4, <2>3 DEF DialogFits
  <2>5. QED
    BY <2>4 DEF d
<1>5. QED
  BY <1>3, <1>4

LEMMA PickerSet ==
  ASSUME NEW t, DialogFits(t), t.kind = "vault", NEW p, {"key", "picked"} \subseteq DOMAIN p, p.key \in Nat
  PROVE  DialogFits(FieldSet(t, "picker", p))
<1> DEFINE d == FieldSet(t, "picker", p)
<1>1. VaultFits(t) /\ "kind" \in DOMAIN t
  BY DEF DialogFits
<1>2. /\ DOMAIN d = DOMAIN t /\ ("picker" \in DOMAIN t => d.picker = p)
      /\ \A f \in DOMAIN t \ {"picker"} : d[f] = t[f]
  BY FieldFacts
<1> HIDE DEF d
<1>3. {"kind", "keys", "picker"} \subseteq DOMAIN d /\ d.kind = t.kind /\ d.keys = t.keys /\ d.picker = p
  BY <1>1, <1>2 DEF VaultFits
<1>4. VaultFits(d)
  BY <1>1, <1>3 DEF VaultFits
<1>5. DialogFits(d)
  BY <1>3, <1>4 DEF DialogFits
<1>6. QED
  BY <1>5 DEF d

LEMMA ScopeSet ==
  ASSUME NEW t, DialogFits(t), t.kind = "snippet", NEW scope \in BOOLEAN
  PROVE  DialogFits(FieldSet(t, "global", scope))
<1> DEFINE d == FieldSet(t, "global", scope)
<1>1. SnippetFits(t) /\ "kind" \in DOMAIN t
  BY DEF DialogFits
<1>2. /\ DOMAIN d = DOMAIN t /\ ("global" \in DOMAIN t => d.global = scope)
      /\ \A f \in DOMAIN t \ {"global"} : d[f] = t[f]
  BY FieldFacts
<1> HIDE DEF d
<1>3. /\ {"kind", "id", "global", "owner"} \subseteq DOMAIN d
      /\ d.kind = t.kind /\ d.id = t.id /\ d.owner = t.owner
  BY <1>1, <1>2 DEF SnippetFits
<1>4. d.global \in BOOLEAN
  BY <1>1, <1>2 DEF SnippetFits
<1>5. SnippetFits(d)
  BY <1>1, <1>3, <1>4 DEF SnippetFits
<1>6. DialogFits(d)
  BY <1>3, <1>5 DEF DialogFits
<1>7. QED
  BY <1>6 DEF d

-----------------------------------------------------------------------------
(* The columns a window sends.                                             *)

LEMMA SceneFacts ==
  ASSUME scene \in Scenes
  PROVE  /\ scene.names \subseteq Names /\ scene.protocols \subseteq Protocols
         /\ scene.fresh \subseteq Fingerprints /\ scene.docs \subseteq Documents
         /\ DOMAIN scene.files \subseteq Paths /\ \A p \in DOMAIN scene.files : scene.files[p] \in KeyFiles
<1>1. QED
  BY ScenesAssumption

LEMMA ProtocolPatch ==
  ASSUME NEW form \in SessionRows, NEW p \in Protocols
  PROVE  PatchTyped(SetProtocol(form, p)) /\ "jump" \notin DOMAIN SetProtocol(form, p)
<1> DEFINE auth == IF p = "ssh" THEN "password" ELSE "none"
           port == CASE p = "ssh" -> 22 [] p = "telnet" -> 23 [] p = "rdp" -> 3389 [] p = "vnc" -> 5900
                     [] OTHER -> form.port
<1>1. auth \in AuthTypes
  BY AuthNames
<1>2. port \in Ports
  <2>1. form.port \in Ports
    BY DEF SessionRows
  <2>2. QED
    BY <2>1, Numbers
<1> HIDE DEF auth, port
<1>3. PatchTyped([protocol |-> p, auth |-> auth, port |-> port])
      /\ "jump" \notin DOMAIN [protocol |-> p, auth |-> auth, port |-> port]
  BY <1>1, <1>2 DEF PatchTyped, Columns
<1>4. QED
  BY <1>3 DEF SetProtocol, auth, port

-----------------------------------------------------------------------------
(* The gestures, one after the other.                                      *)

LEMMA Kept ==
  ASSUME LInv, scene' = scene,
         UNCHANGED db \/ TablesGood', UNCHANGED <<files, saved>> \/ DiskGood', UNCHANGED view \/ ViewsGood',
         UNCHANGED loads \/ LoadsGood', UNCHANGED assign \/ TasksGood', UNCHANGED dialogs \/ StacksGood'
  PROVE  LInv'
<1>1. TablesGood'
  BY OnceKept DEF LInv, TablesGood
<1>2. DiskGood'
  BY SceneKept DEF LInv, DiskGood
<1>3. ViewsGood'
  BY DEF LInv, ViewsGood
<1>4. LoadsGood'
  BY DEF LInv, LoadsGood
<1>5. TasksGood'
  BY DEF LInv, TasksGood
<1>6. StacksGood'
  BY SceneKept DEF LInv, StacksGood, GoodStack, DialogFits, ImportFits, Brought
<1>7. QED
  BY <1>1, <1>2, <1>3, <1>4, <1>5, <1>6 DEF LInv

LEMMA ViewFacts ==
  ASSUME LInv, NEW w \in Windows
  PROVE  /\ \A s \in DOMAIN view[w].sessions :
              /\ s \in Nat \ {0} /\ view[w].sessions[s] \in SessionRows /\ view[w].sessions[s].jump # s
              /\ view[w].sessions[s].name \in Names /\ view[w].sessions[s].protocol \in Protocols
         /\ DOMAIN view[w].groups \subseteq Nat
<1>1. RowsFit(view[w].sessions) /\ IdsFit(view[w].groups)
  BY DEF LInv, ViewsGood, CopyFits
<1>2. \A row \in SessionRows : row.name \in Names /\ row.protocol \in Protocols
  BY DEF SessionRows
<1>3. QED
  BY <1>1, <1>2 DEF RowsFit, IdsFit

(* A dialog opens.                                                         *)
LEMMA NewSessionFits ==
  ASSUME LInv, NEW w \in Windows, NewSession(w)
  PROVE  LInv'
<1>0. scene' = scene
  BY DEF NewSession, libvars
<1>1. PICK g \in DOMAIN view[w].groups \cup {None} :
         OpenDialog(w, SessionDialog("new", None, [Blank EXCEPT !.group = g]))
  BY DEF NewSession
<1>2. g \in Nat
  BY ViewFacts, NoneIsId
<1> DEFINE b == Blank
           form == [b EXCEPT !.group = g]
           how == "new"
<1>3. b \in SessionRows
  BY BlankColumns
<1>a. how # "edit"
  OBVIOUS
<1> HIDE DEF b, how
<1>4. form \in SessionRows
  BY <1>2, <1>3 DEF SessionRows
<1> HIDE DEF form
<1> DEFINE d == SessionDialog(how, None, form)
<1>5. DialogFits(d)
  BY <1>4, <1>a, NoneIsId, SessionDialogFits DEF LInv
<1>6. OpenDialog(w, d)
  BY <1>1 DEF d, form, b, how
<1> HIDE DEF d
<1>7. StacksGood'
  BY <1>0, <1>5, <1>6, Opened DEF LInv
<1>8. scene' = scene /\ UNCHANGED <<db, files, saved, view, loads, assign>>
  BY DEF NewSession, libvars
<1>9. QED
  BY <1>7, <1>8, Kept

LEMMA EditSessionFits ==
  ASSUME LInv, NEW w \in Windows, EditSession(w)
  PROVE  LInv'
<1>0. scene' = scene
  BY DEF EditSession, libvars
<1>1. PICK s \in DOMAIN view[w].sessions, how \in {"edit", "copy"} :
         OpenDialog(w, SessionDialog(how, s, [view[w].sessions[s] EXCEPT !.password = FALSE]))
  BY DEF EditSession
<1> DEFINE row == view[w].sessions[s]
           form == [row EXCEPT !.password = FALSE]
<1>2. s \in Nat /\ s # None /\ row \in SessionRows /\ row.jump # s
  BY ViewFacts, NoneIsId
<1> HIDE DEF row
<1>3. form \in SessionRows /\ form.jump # s
  BY <1>2, PasswordCleared
<1> HIDE DEF form
<1> DEFINE d == SessionDialog(how, s, form)
<1>4. DialogFits(d)
  BY <1>2, <1>3, SessionDialogFits DEF LInv
<1>5. OpenDialog(w, d)
  BY <1>1 DEF d, form, row
<1> HIDE DEF d
<1>6. StacksGood'
  BY <1>0, <1>4, <1>5, Opened DEF LInv
<1>7. scene' = scene /\ UNCHANGED <<db, files, saved, view, loads, assign>>
  BY DEF EditSession, libvars
<1>8. QED
  BY <1>6, <1>7, Kept

LEMMA SnippetDialogFits ==
  ASSUME LInv, NEW w \in Windows, OpenSnippet(w)
  PROVE  LInv'
<1>0. scene' = scene
  BY DEF OpenSnippet, libvars
<1>1. PICK id \in DOMAIN db.snippets \cup {None}, active \in DOMAIN view[w].sessions \cup {None} :
         LET was == IF id = None THEN [global |-> TRUE, session |-> None] ELSE db.snippets[id]
         IN OpenDialog(w, [kind |-> "snippet", id |-> id, global |-> was.global,
                           owner |-> IF was.session # None THEN was.session ELSE active])
  BY DEF OpenSnippet
<1> DEFINE was == IF id = None THEN [global |-> TRUE, session |-> None] ELSE db.snippets[id]
           scope == was.global
           owner == IF was.session # None THEN was.session ELSE active
           d == [kind |-> "snippet", id |-> id, global |-> scope, owner |-> owner]
<1>2. OpenDialog(w, d)
  BY <1>1
<1>3. was.global \in BOOLEAN /\ was.session \in Nat
  <2>1. CASE id = None
    BY <2>1, NoneIsId
  <2>2. CASE id # None
    <3>1. db.snippets[id] \in SnippetRows
      BY <2>2, TablesFit DEF LInv, TablesGood
    <3>2. QED
      BY <2>2, <3>1 DEF SnippetRows
  <2>3. QED
    BY <2>1, <2>2
<1>4. active \in Nat
  BY ViewFacts, NoneIsId
<1> HIDE DEF was
<1>5. owner \in Nat /\ scope \in BOOLEAN
  BY <1>3, <1>4
<1> HIDE DEF owner, scope
<1>6. SnippetFits(d) /\ "kind" \in DOMAIN d /\ d.kind = "snippet"
  BY <1>5 DEF SnippetFits
<1> HIDE DEF d
<1>7. DialogFits(d)
  BY <1>6 DEF DialogFits
<1>8. StacksGood'
  BY <1>0, <1>2, <1>7, Opened DEF LInv
<1>9. scene' = scene /\ UNCHANGED <<db, files, saved, view, loads, assign>>
  BY DEF OpenSnippet, libvars
<1>10. QED
  BY <1>8, <1>9, Kept

LEMMA PreviewFits ==
  ASSUME LInv, NEW w \in Windows, Preview(w)
  PROVE  LInv'
<1>0. scene' = scene
  BY DEF Preview, libvars
<1>1. PICK inputs \in Seq(InputRows) : Brought(inputs) /\ OpenDialog(w, ImportDialog(inputs))
  <2>1. ASSUME NEW doc \in scene.docs, OpenDialog(w, ImportDialog(ParseSessions(doc.source, doc.body)))
        PROVE  \E inputs \in Seq(InputRows) : Brought(inputs) /\ OpenDialog(w, ImportDialog(inputs))
    <3> DEFINE inputs == ParseSessions(doc.source, doc.body)
    <3>1. doc \in Documents
      BY SceneFacts DEF LInv
    <3>2. inputs \in Seq(InputRows) /\ (doc.source # "ternix" => inputs \in Seq(LooseRows))
      BY <3>1, ParsedTyped
    <3>3. OneOfEach => Apart(inputs)
      BY DEF OneOfEach
    <3> HIDE DEF inputs
    <3>4. OpenDialog(w, ImportDialog(inputs))
      BY <2>1 DEF inputs
    <3>5. Brought(inputs)
      BY <3>2, <3>3, LooseInputs DEF ForeignOnly, Brought
    <3>6. QED
      BY <3>2, <3>4, <3>5
  <2>2. ASSUME saved # NoBackup, OpenDialog(w, ImportDialog(ParseSessions("ternix", saved)))
        PROVE  \E inputs \in Seq(InputRows) : Brought(inputs) /\ OpenDialog(w, ImportDialog(inputs))
    <3> DEFINE inputs == ParseSessions("ternix", saved)
    <3>1. FromTernix(saved) \in Seq(InputRows)
      BY TernixTyped DEF LInv, DiskGood
    <3>2. inputs \in Seq(InputRows)
      BY <3>1 DEF ParseSessions
    <3> HIDE DEF inputs
    <3>3. OpenDialog(w, ImportDialog(inputs))
      BY <2>2 DEF inputs
    <3>4. ~ ForeignOnly
      BY <2>2 DEF ForeignOnly, LInv, DiskGood
    <3>5. QED
      BY <3>2, <3>3, <3>4 DEF Brought
  <2>3. QED
    BY <2>1, <2>2 DEF Preview
<1> DEFINE d == ImportDialog(inputs)
<1>2. DialogFits(d) /\ OpenDialog(w, d)
  BY <1>1, ImportDialogFits
<1> HIDE DEF d
<1>3. StacksGood'
  BY <1>0, <1>2, Opened DEF LInv
<1>4. scene' = scene /\ UNCHANGED <<db, files, saved, view, loads, assign>>
  BY DEF Preview, libvars
<1>5. QED
  BY <1>3, <1>4, Kept

LEMMA OtherDialogsFit ==
  ASSUME LInv, NEW w \in Windows, AskDelete(w) \/ AskDeleteKey(w) \/ OpenVault(w) \/ PaneAsks(w)
  PROVE  LInv'
<1>0. scene' = scene
  BY DEF AskDelete, AskDeleteKey, OpenVault, PaneAsks, libvars
<1>1. scene' = scene /\ UNCHANGED <<db, files, saved, view, loads, assign>>
  BY DEF AskDelete, AskDeleteKey, OpenVault, PaneAsks, libvars
<1>2. PICK d : DialogFits(d) /\ OpenDialog(w, d)
  <2>1. CASE AskDelete(w) \/ AskDeleteKey(w)
    <3>1. PICK what, id : OpenDialog(w, Confirm(what, id))
      BY <2>1 DEF AskDelete, AskDeleteKey
    <3>2. QED
      BY <3>1, PlainDialogs
  <2>2. CASE OpenVault(w)
    <3> DEFINE ks == DOMAIN db.keys
               d == [kind |-> "vault", keys |-> ks, picker |-> NoPicker]
    <3>1. ks \subseteq Nat
      BY TablesFit DEF LInv, TablesGood
    <3>2. OpenDialog(w, d)
      BY <2>2 DEF OpenVault
    <3> HIDE DEF ks
    <3>3. DialogFits(d)
      BY <3>1, VaultDialogFits
    <3> HIDE DEF d
    <3>4. QED
      BY <3>2, <3>3
  <2>3. CASE PaneAsks(w)
    BY <2>3, PlainDialogs DEF PaneAsks, AskVault
  <2>4. QED
    BY <2>1, <2>2, <2>3
<1>3. StacksGood'
  BY <1>0, <1>2, Opened DEF LInv
<1>4. QED
  BY <1>1, <1>3, Kept

(* The dialog on top changes.                                              *)
LEMMA OfferTyped ==
  ASSUME LInv, NEW w \in Windows, NEW d, SessionFits(d), NEW patch \in Offers(w, d)
  PROVE  PatchTyped(patch) /\ (d.mode = "edit" /\ "jump" \in DOMAIN patch => patch.jump # d.id)
<1>1. d.form \in SessionRows /\ d.keys \subseteq Nat /\ (d.mode = "edit" => d.id # None)
  BY DEF SessionFits
<1>2. scene.names \subseteq Names /\ scene.protocols \subseteq Protocols
  BY SceneFacts DEF LInv
<1>3. CASE \E n \in scene.names : patch = [name |-> n]
  BY <1>2, <1>3, NamePatch
<1>4. CASE \E g \in DOMAIN view[w].groups \cup {None} : patch = [group |-> g]
  <2>1. DOMAIN view[w].groups \cup {None} \subseteq Nat
    BY ViewFacts, NoneIsId
  <2>2. QED
    BY <1>4, <2>1, GroupPatch
<1>5. CASE \E p \in scene.protocols : patch = SetProtocol(d.form, p)
  BY <1>1, <1>2, <1>5, ProtocolPatch
<1>6. CASE \E s \in {x \in DOMAIN view[w].sessions \ {d.id} : view[w].sessions[x].protocol = "ssh"} \cup {None} :
              patch = [jump |-> s]
  <2>1. PICK s \in (DOMAIN view[w].sessions \ {d.id}) \cup {None} : patch = [jump |-> s]
    BY <1>6
  <2>2. s \in Nat /\ (d.mode = "edit" => s # d.id)
    BY <1>1, ViewFacts, NoneIsId
  <2>3. PatchTyped(patch) /\ patch.jump = s
    BY <2>1, <2>2, JumpPatch
  <2>4. QED
    BY <2>2, <2>3
<1>7. CASE \E k \in d.keys : patch = [auth |-> "key", key |-> k]
  <2> DEFINE auth == "key"
  <2>1. auth \in AuthTypes
    BY AuthNames
  <2> HIDE DEF auth
  <2>2. PICK k \in Nat : patch = [auth |-> auth, key |-> k]
    BY <1>1, <1>7 DEF auth
  <2>3. QED
    BY <2>1, <2>2, KeyPatch
<1>8. CASE patch = [password |-> TRUE]
  BY <1>8, PasswordPatch
<1>9. QED
  <2> DEFINE A == { [name |-> n] : n \in scene.names }
             B == { [group |-> g] : g \in DOMAIN view[w].groups \cup {None} }
             C == { SetProtocol(d.form, p) : p \in scene.protocols }
             J == {x \in DOMAIN view[w].sessions \ {d.id} : view[w].sessions[x].protocol = "ssh"} \cup {None}
             D == { [jump |-> s] : s \in J }
             E == { [auth |-> "key", key |-> k] : k \in d.keys }
             F == IF d.form.auth = "password" THEN {[password |-> TRUE]} ELSE {}
             G == IF d.form.protocol # "ssh" THEN {} ELSE D \cup E \cup F
  <2>1. Offers(w, d) = A \cup B \cup C \cup G
    BY DEF Offers
  <2>2. patch \in A => \E n \in scene.names : patch = [name |-> n]
    OBVIOUS
  <2>3. patch \in B => \E g \in DOMAIN view[w].groups \cup {None} : patch = [group |-> g]
    OBVIOUS
  <2>4. patch \in C => \E p \in scene.protocols : patch = SetProtocol(d.form, p)
    OBVIOUS
  <2>5. patch \in D => \E s \in J : patch = [jump |-> s]
    OBVIOUS
  <2>6. patch \in E => \E k \in d.keys : patch = [auth |-> "key", key |-> k]
    OBVIOUS
  <2>7. patch \in F => patch = [password |-> TRUE]
    OBVIOUS
  <2>8. patch \in G => patch \in D \cup E \cup F
    OBVIOUS
  <2> HIDE DEF A, B, C, D, E, F, G
  <2>9. QED
    BY <1>3, <1>4, <1>5, <1>6, <1>7, <1>8, <2>1, <2>2, <2>3, <2>4, <2>5, <2>6, <2>7, <2>8 DEF J

LEMMA EditFieldFits ==
  ASSUME LInv, NEW w \in Windows, EditField(w)
  PROVE  LInv'
<1>0. scene' = scene
  BY DEF EditField, libvars
<1> DEFINE t == Top(w)
<1>1. PICK patch \in Offers(w, t) : ChangeTop(w, FieldSet(t, "form", Patched(patch, t.form)))
  BY DEF EditField, FieldSet
<1>2. t.kind = "session" /\ DialogFits(t)
  BY TopFits DEF EditField, At, LInv
<1> HIDE DEF t
<1>3. SessionFits(t)
  BY <1>2 DEF DialogFits
<1>4. PatchTyped(patch) /\ (t.mode = "edit" /\ "jump" \in DOMAIN patch => patch.jump # t.id)
  BY <1>1, <1>3, OfferTyped
<1> DEFINE form == Patched(patch, t.form)
<1>5. form \in SessionRows /\ \A c \in Columns : form[c] = IF c \in DOMAIN patch THEN patch[c] ELSE t.form[c]
  BY <1>3, <1>4, PatchedRow DEF SessionFits
<1> HIDE DEF form
<1>6. t.mode = "edit" => form.jump # t.id
  <2>1. "jump" \in Columns
    BY DEF Columns
  <2>2. form.jump = IF "jump" \in DOMAIN patch THEN patch.jump ELSE t.form.jump
    BY <1>5, <2>1
  <2>3. QED
    BY <1>3, <1>4, <2>2 DEF SessionFits
<1> DEFINE d == FieldSet(t, "form", form)
<1>7. DialogFits(d)
  BY <1>2, <1>5, <1>6, FormSet
<1>8. ChangeTop(w, d)
  BY <1>1 DEF form
<1> HIDE DEF d
<1>9. StacksGood'
  BY <1>0, <1>2, <1>7, <1>8, TopSet DEF LInv, t
<1>10. scene' = scene /\ UNCHANGED <<db, files, saved, view, loads, assign>>
  BY DEF EditField, libvars
<1>11. QED
  BY <1>9, <1>10, Kept

LEMMA LocateFits ==
  ASSUME LInv, NEW w \in Windows, LocateKey(w)
  PROVE  LInv'
<1>0. scene' = scene
  BY DEF LocateKey, libvars
<1>1. PICK e : ChangeTop(w, FieldSet(Top(w), "located", e))
  <2>1. PICK p, q : ChangeTop(w, [Top(w) EXCEPT !.located[p] = q])
    BY DEF LocateKey
  <2>2. ChangeTop(w, FieldSet(Top(w), "located", [Top(w).located EXCEPT ![p] = q]))
    BY <2>1 DEF FieldSet
  <2>3. QED
    BY <2>2
<1>2. Top(w).kind = "import" /\ DialogFits(Top(w))
  BY TopFits DEF LocateKey, At, LInv
<1> DEFINE d == FieldSet(Top(w), "located", e)
<1>3. DialogFits(d)
  BY <1>2, MarkSet
<1> HIDE DEF d
<1>4. StacksGood'
  BY <1>0, <1>1, <1>2, <1>3, TopSet DEF LInv, d
<1>5. scene' = scene /\ UNCHANGED <<db, files, saved, view, loads, assign>>
  BY DEF LocateKey, libvars
<1>6. QED
  BY <1>4, <1>5, Kept

LEMMA ScopeFits ==
  ASSUME LInv, NEW w \in Windows, ScopeToggle(w)
  PROVE  LInv'
<1>0. scene' = scene
  BY DEF ScopeToggle, libvars
<1> DEFINE scope == ~ Top(w).global
           d == FieldSet(Top(w), "global", scope)
<1>1. ChangeTop(w, d)
  BY DEF ScopeToggle, FieldSet
<1>2. Top(w).kind = "snippet" /\ DialogFits(Top(w))
  BY TopFits DEF ScopeToggle, At, LInv
<1>3. scope \in BOOLEAN
  OBVIOUS
<1> HIDE DEF scope
<1>4. DialogFits(d)
  BY <1>2, <1>3, ScopeSet
<1> HIDE DEF d
<1>5. StacksGood'
  BY <1>0, <1>1, <1>2, <1>4, TopSet DEF LInv
<1>6. scene' = scene /\ UNCHANGED <<db, files, saved, view, loads, assign>>
  BY DEF ScopeToggle, libvars
<1>7. QED
  BY <1>5, <1>6, Kept

(* The picker of the vault dialog.                                         *)
LEMMA PickerChanged ==
  ASSUME LInv, scene' = scene, NEW w \in Windows, Top(w).kind = "vault", NEW p,
         {"key", "picked"} \subseteq DOMAIN p, p.key \in Nat, ChangeTop(w, FieldSet(Top(w), "picker", p))
  PROVE  StacksGood'
<1> DEFINE d == FieldSet(Top(w), "picker", p)
<1>1. DialogFits(Top(w))
  BY TopFits DEF LInv
<1>2. DialogFits(d)
  BY <1>1, PickerSet
<1> HIDE DEF d
<1>3. QED
  BY <1>2, TopSet DEF LInv, d

LEMMA NoPickerFacts == {"key", "picked"} \subseteq DOMAIN NoPicker /\ NoPicker.key \in Nat
<1>1. QED
  BY NoneIsId DEF NoPicker

LEMMA VaultTop ==
  ASSUME LInv, NEW w \in Windows, Top(w).kind = "vault"
  PROVE  VaultFits(Top(w))
<1>1. QED
  BY TopFits DEF LInv, DialogFits

LEMMA PickerFits ==
  ASSUME LInv, NEW w \in Windows, OpenPicker(w) \/ Toggle(w)
  PROVE  LInv'
<1>0. scene' = scene
  BY DEF OpenPicker, Toggle, libvars
<1>1. Top(w).kind = "vault" /\ scene' = scene /\ UNCHANGED <<db, files, saved, view, loads, assign>>
  BY DEF OpenPicker, Toggle, AtVault, At, libvars
<1>2. VaultFits(Top(w))
  BY <1>1, VaultTop
<1>3. PICK p : /\ {"key", "picked"} \subseteq DOMAIN p /\ p.key \in Nat
               /\ ChangeTop(w, FieldSet(Top(w), "picker", p))
  <2>1. CASE OpenPicker(w)
    <3>1. PICK k \in Top(w).keys : ChangeTop(w, [Top(w) EXCEPT !.picker = [key |-> k, picked |-> Users(w, k)]])
      BY <2>1 DEF OpenPicker
    <3> DEFINE p == [key |-> k, picked |-> Users(w, k)]
    <3>2. {"key", "picked"} \subseteq DOMAIN p /\ p.key \in Nat
      BY <1>2, <3>1 DEF VaultFits
    <3>3. ChangeTop(w, FieldSet(Top(w), "picker", p))
      BY <3>1 DEF FieldSet
    <3> HIDE DEF p
    <3>4. QED
      BY <3>2, <3>3
  <2>2. CASE Toggle(w)
    <3>1. PICK s : ChangeTop(w, [Top(w) EXCEPT !.picker.picked = IF s \in @ THEN @ \ {s} ELSE @ \cup {s}])
      BY <2>2 DEF Toggle
    <3> DEFINE was == Top(w).picker
               p == [was EXCEPT !.picked = IF s \in @ THEN @ \ {s} ELSE @ \cup {s}]
    <3>2. ChangeTop(w, FieldSet(Top(w), "picker", p))
      BY <3>1 DEF FieldSet
    <3>3. {"key", "picked"} \subseteq DOMAIN was /\ was.key \in Nat
      BY <1>2 DEF VaultFits
    <3> HIDE DEF was
    <3>4. {"key", "picked"} \subseteq DOMAIN p /\ p.key = was.key
      BY <3>3
    <3> HIDE DEF p
    <3>5. QED
      BY <3>2, <3>3, <3>4
  <2>3. QED
    BY <2>1, <2>2
<1>4. StacksGood'
  BY <1>0, <1>1, <1>3, PickerChanged
<1>5. QED
  BY <1>1, <1>4, Kept

(* The sessions that an assignment changes, in some order.                 *)
Changing(w) == {s \in SshSessions(w) : (s \in Top(w).picker.picked) # (s \in Users(w, Top(w).picker.key))}
Task(w, todo) ==
  [key |-> Top(w).picker.key, todo |-> todo, picked |-> Top(w).picker.picked,
   names |-> [s \in Changing(w) |-> view[w].sessions[s].name]]

LEMMA TaskBegins ==
  ASSUME LInv, NEW w \in Windows, Apply(w)
  PROVE  \E todo : /\ assign' = [assign EXCEPT ![w] = Task(w, todo)] /\ assign'[w] = Task(w, todo)
                   /\ todo \in Seq(Changing(w)) /\ Stack(todo)
                   /\ \A s \in Changing(w) : \E i \in 1 .. Len(todo) : todo[i] = s
<1>1. PICK todo \in SetToSeqs(Changing(w)) : assign' = [assign EXCEPT ![w] = Task(w, todo)]
  BY DEF Apply, Changing, Task
<1>2. IsFiniteSet(Changing(w))
  <2>1. IsFiniteSet(DOMAIN view[w].sessions)
    BY DEF LInv, ViewsGood, CopyFits, RowsFit
  <2>2. Changing(w) \subseteq DOMAIN view[w].sessions
    BY DEF Changing, SshSessions
  <2>3. QED
    BY <2>1, <2>2, FS_Subset
<1>3. assign'[w] = Task(w, todo)
  BY <1>1 DEF LInv, TasksGood
<1> DEFINE S == Changing(w)
           a == Task(w, todo)
<1> HIDE DEF S, a
<1>4. IsFiniteSet(S) /\ todo \in SetToSeqs(S)
  BY <1>1, <1>2 DEF S
<1>5. todo \in Seq(S) /\ Stack(todo) /\ \A s \in S : \E i \in 1 .. Len(todo) : todo[i] = s
  BY <1>4, OrderedSet
<1>6. assign' = [assign EXCEPT ![w] = a] /\ assign'[w] = a
  BY <1>1, <1>3 DEF a
<1>7. QED
  BY <1>5, <1>6 DEF S, a

LEMMA NoTask == TaskFits(NoAssign) /\ NoAssign.todo = <<>>
<1>1. /\ {"key", "todo", "picked", "names"} \subseteq DOMAIN NoAssign
      /\ NoAssign.key \in Nat /\ NoAssign.todo = <<>>
  BY NoneIsId DEF NoAssign
<1>2. \A i \in 1 .. 0 : FALSE
  OBVIOUS
<1>3. QED
  BY <1>1, <1>2, EmptyStack DEF TaskFits

LEMMA TaskSet ==
  ASSUME TasksGood, NEW w \in Windows, NEW a, TaskFits(a), assign' = [assign EXCEPT ![w] = a]
  PROVE  TasksGood'
<1>1. DOMAIN assign' = Windows /\ \A v \in Windows : assign'[v] = IF v = w THEN a ELSE assign[v]
  BY DEF TasksGood
<1>2. QED
  BY <1>1 DEF TasksGood

(* What is left of it after its first session.                             *)
Rest(a) == [a EXCEPT !.todo = Tail(@)]

LEMMA RestFits ==
  ASSUME NEW a, TaskFits(a), a.todo # <<>>
  PROVE  /\ TaskFits(Rest(a)) /\ Rest(a).todo = Tail(a.todo)
         /\ Rest(a).key = a.key /\ Rest(a).picked = a.picked /\ Rest(a).names = a.names
         /\ Head(a.todo) = a.todo[1] /\ 1 \in 1 .. Len(a.todo)
         /\ \A i \in 1 .. Len(Rest(a).todo) : i + 1 \in 1 .. Len(a.todo) /\ Rest(a).todo[i] = a.todo[i + 1]
<1> DEFINE b == Rest(a)
           q == a.todo
<1>1. DOMAIN b = DOMAIN a /\ b.key = a.key /\ b.picked = a.picked /\ b.names = a.names /\ b.todo = Tail(q)
  BY DEF TaskFits, Rest
<1>2. /\ Stack(Tail(q)) /\ Len(Tail(q)) = Len(q) - 1 /\ Head(q) = q[1] /\ 1 \in 1 .. Len(q)
      /\ \A i \in 1 .. (Len(q) - 1) : Tail(q)[i] = q[i + 1] /\ i + 1 \in 1 .. Len(q)
  BY TailStack DEF TaskFits
<1> HIDE DEF b
<1>3. \A i \in 1 .. Len(b.todo) : i + 1 \in 1 .. Len(q) /\ b.todo[i] = q[i + 1]
  BY <1>1, <1>2
<1>4. TaskFits(b)
  BY <1>1, <1>2, <1>3 DEF TaskFits
<1>5. QED
  BY <1>1, <1>2, <1>3, <1>4 DEF b

LEMMA ApplyFits ==
  ASSUME LInv, NEW w \in Windows, Apply(w)
  PROVE  LInv'
<1>0. scene' = scene
  BY DEF Apply
<1>1. Top(w).kind = "vault" /\ scene' = scene /\ UNCHANGED <<db, files, saved, view, loads>>
  BY DEF Apply, At
<1>2. ChangeTop(w, FieldSet(Top(w), "picker", NoPicker))
  BY DEF Apply, FieldSet
<1>3. StacksGood'
  BY <1>0, <1>1, <1>2, NoPickerFacts, PickerChanged
<1>4. Top(w).picker.key \in Nat
  BY <1>1, VaultTop DEF VaultFits
<1>5. PICK todo : assign' = [assign EXCEPT ![w] = Task(w, todo)] /\ todo \in Seq(Changing(w)) /\ Stack(todo)
  BY TaskBegins
<1>6. TasksGood'
  <2> DEFINE a == Task(w, todo)
  <2>1. /\ {"key", "todo", "picked", "names"} \subseteq DOMAIN a /\ a.key \in Nat /\ a.todo = todo
        /\ DOMAIN a.names = Changing(w)
        /\ \A s \in Changing(w) : a.names[s] = view[w].sessions[s].name
    BY <1>4 DEF Task
  <2>2. \A s \in Changing(w) : view[w].sessions[s].name \in Names
    BY ViewFacts DEF Changing, SshSessions
  <2>3. \A i \in 1 .. Len(todo) : todo[i] \in Changing(w)
    BY <1>5
  <2> HIDE DEF a
  <2>4. TaskFits(a)
    BY <1>5, <2>1, <2>2, <2>3 DEF TaskFits
  <2>5. QED
    BY <1>5, <2>4, TaskSet DEF LInv, a
<1>7. QED
  BY <1>1, <1>3, <1>6, Kept

LEMMA CancelFits ==
  ASSUME LInv, NEW w \in Windows, Cancel(w)
  PROVE  LInv'
<1>0. scene' = scene
  BY DEF Cancel, libvars
<1>1. scene' = scene /\ UNCHANGED <<db, files, saved, view, loads, assign>>
  BY DEF Cancel, libvars
<1>2. CASE Top(w).kind = "vault" /\ Top(w).picker # NoPicker
  <2>1. ChangeTop(w, FieldSet(Top(w), "picker", NoPicker))
    BY <1>2 DEF Cancel, FieldSet
  <2>2. StacksGood'
    BY <1>0, <1>2, <2>1, NoPickerFacts, PickerChanged
  <2>3. QED
    BY <1>1, <2>2, Kept
<1>3. CASE ~ (Top(w).kind = "vault" /\ Top(w).picker # NoPicker)
  <2>1. dialogs' = [dialogs EXCEPT ![w] = Popped(dialogs[w])]
    BY <1>3 DEF Cancel, CloseTop
  <2>2. StacksGood'
    BY <1>0, <2>1, PoppedOff DEF LInv
  <2>3. QED
    BY <1>1, <2>2, Kept
<1>4. QED
  BY <1>2, <1>3

LEMMA PaneAnsweredFits ==
  ASSUME LInv, NEW w \in Windows, PaneAnswered(w)
  PROVE  LInv'
<1>0. scene' = scene
  BY DEF PaneAnswered, libvars
<1>1. scene' = scene /\ UNCHANGED <<db, files, saved, view, loads, assign>>
  BY DEF PaneAnswered, libvars
<1>2. dialogs' = [dialogs EXCEPT ![w] = Popped(dialogs[w])]
  BY DEF PaneAnswered, AnswerUnlock
<1>3. StacksGood'
  BY <1>0, <1>2, PoppedOff DEF LInv
<1>4. QED
  BY <1>1, <1>3, Kept

(* Escape answers the unlock dialogs and closes the top.                   *)
LEMMA EscapeFits ==
  ASSUME LInv, NEW w \in Windows, PressEscape(w)
  PROVE  LInv'
<1>0. scene' = scene
  BY DEF PressEscape, libvars
<1> DEFINE s == dialogs[w]
           answered == [i \in DOMAIN s |->
                          IF s[i].kind = "unlock" THEN [s[i] EXCEPT !.answered = TRUE] ELSE s[i]]
           dead == Top(w).kind = "unlock" /\ Top(w).answered
           left == IF dead THEN answered ELSE Front(answered)
<1>1. s # <<>> /\ dialogs' = [dialogs EXCEPT ![w] = left]
  BY DEF PressEscape, Escape
<1>2. scene' = scene /\ UNCHANGED <<db, files, saved, view, loads, assign>>
  BY DEF PressEscape, libvars
<1>3. GoodStack(s)
  BY DEF LInv, StacksGood
<1>4. Stack(s) /\ DOMAIN s = 1 .. Len(s) /\ Len(s) \in 1 .. Len(s) /\ \A i \in 1 .. Len(s) : DialogFits(s[i])
  BY <1>1, <1>3, StackFacts DEF GoodStack
<1>5. GoodStack(answered)
  <2>1. PICK S : s \in Seq(S)
    BY <1>4 DEF Stack
  <2> DEFINE T == S \cup {[d EXCEPT !.answered = TRUE] : d \in S}
  <2>2. \A i \in 1 .. Len(s) : s[i] \in S
    BY <2>1
  <2>3. \A i \in 1 .. Len(s) : answered[i] \in T
    BY <1>4, <2>2
  <2>4. answered = [i \in 1 .. Len(s) |-> answered[i]]
    BY <1>4
  <2>5. ASSUME NEW i \in 1 .. Len(s) PROVE DialogFits(answered[i])
    <3> DEFINE t == s[i]
    <3>1. DialogFits(t) /\ answered[i] = IF t.kind = "unlock" THEN [t EXCEPT !.answered = TRUE] ELSE t
      BY <1>4
    <3> HIDE DEF s, answered, t
    <3>2. CASE t.kind = "unlock"
      <4> DEFINE d == [t EXCEPT !.answered = TRUE]
      <4>1. DOMAIN d = DOMAIN t /\ \A f \in DOMAIN t \ {"answered"} : d[f] = t[f]
        OBVIOUS
      <4>2. answered[i] = d
        BY <3>1, <3>2
      <4> HIDE DEF d
      <4>3. "kind" \in DOMAIN d /\ d.kind = "unlock"
        BY <3>1, <3>2, <4>1 DEF DialogFits
      <4>4. QED
        BY <4>2, <4>3 DEF DialogFits
    <3>3. CASE t.kind # "unlock"
      BY <3>1, <3>3
    <3>4. QED
      BY <3>2, <3>3
  <2> HIDE DEF answered, T, s
  <2>6. answered \in Seq(T) /\ Len(answered) = Len(s)
    BY <1>4, <2>3, <2>4
  <2>7. Stack(answered)
    BY <2>6 DEF Stack
  <2>8. QED
    BY <2>5, <2>6, <2>7 DEF GoodStack
<1>6. answered # <<>>
  BY <1>4
<1> HIDE DEF answered, dead
<1>7. GoodStack(left)
  BY <1>5, <1>6, DialogPopped
<1> HIDE DEF left
<1>8. StacksGood'
  BY <1>0, <1>1, <1>7, StackSet DEF LInv
<1>9. QED
  BY <1>2, <1>8, Kept

(* A request goes out.                                                     *)
LEMMA PlainRequest ==
  ASSUME LInv, NEW w \in Windows, NEW r, NEW then, Send(w, r, then), GoodTables(r.db, Once),
         UNCHANGED <<scene, files, saved, view, assign, dlgvars>>
  PROVE  LInv'
<1>1. scene' = scene /\ UNCHANGED <<files, saved, view, assign, dialogs>>
  BY DEF dlgvars
<1>2. TablesGood' /\ LoadsGood'
  BY <1>1, Answered
<1>3. QED
  BY <1>1, <1>2, Kept

LEMMA MoveFits ==
  ASSUME LInv, NEW w \in Windows, MoveToGroup(w)
  PROVE  LInv'
<1>1. PICK s \in DOMAIN view[w].sessions, g \in DOMAIN view[w].groups \cup {None} :
         Send(w, SessionsUpdate(db, s, [name |-> view[w].sessions[s].name,
                                        protocol |-> view[w].sessions[s].protocol, group |-> g]), "nothing")
  BY DEF MoveToGroup
<1> DEFINE n == view[w].sessions[s].name
           p == view[w].sessions[s].protocol
           patch == [name |-> n, protocol |-> p, group |-> g]
           r == SessionsUpdate(db, s, patch)
           then == "nothing"
<1>2. n \in Names /\ p \in Protocols /\ g \in Nat
  BY ViewFacts, NoneIsId
<1> HIDE DEF n, p
<1>3. PatchTyped(patch) /\ "jump" \notin DOMAIN patch
  BY <1>2 DEF PatchTyped, Columns
<1> HIDE DEF patch
<1>4. GoodTables(r.db, Once)
  BY <1>3, SessionsUpdateGood DEF LInv, TablesGood
<1> HIDE DEF r, then
<1>5. Send(w, r, then)
  BY <1>1 DEF r, then, patch, n, p
<1>6. UNCHANGED <<scene, files, saved, view, assign, dlgvars>>
  BY DEF MoveToGroup
<1>7. QED
  BY <1>4, <1>5, <1>6, PlainRequest

LEMMA GroupFits ==
  ASSUME LInv, NEW w \in Windows, CreateGroup(w) \/ RenameGroup(w)
  PROVE  LInv'
<1>1. scene.names \subseteq Names /\ DOMAIN view[w].groups \cup {None} \subseteq Nat
  BY SceneFacts, ViewFacts, NoneIsId DEF LInv
<1> DEFINE then == "nothing"
<1>2. CASE CreateGroup(w)
  <2>1. PICK name \in scene.names, parent \in DOMAIN view[w].groups \cup {None} :
           Send(w, GroupsCreate(db, name, parent), then)
    BY <1>2 DEF CreateGroup
  <2> DEFINE r == GroupsCreate(db, name, parent)
  <2>2. GoodTables(r.db, Once)
    BY <1>1, GroupsCreateGood DEF LInv, TablesGood
  <2> HIDE DEF r, then
  <2>3. UNCHANGED <<scene, files, saved, view, assign, dlgvars>>
    BY <1>2 DEF CreateGroup
  <2>4. Send(w, r, then)
    BY <2>1 DEF r
  <2>5. QED
    BY <2>2, <2>3, <2>4, PlainRequest
<1>3. CASE RenameGroup(w)
  <2>1. PICK g \in DOMAIN view[w].groups, name \in scene.names : Send(w, GroupsRename(db, g, name), then)
    BY <1>3 DEF RenameGroup
  <2> DEFINE r == GroupsRename(db, g, name)
  <2>2. GoodTables(r.db, Once)
    BY <1>1, GroupsRenameGood DEF LInv, TablesGood
  <2> HIDE DEF r, then
  <2>3. UNCHANGED <<scene, files, saved, view, assign, dlgvars>>
    BY <1>3 DEF RenameGroup
  <2>4. Send(w, r, then)
    BY <2>1 DEF r
  <2>5. QED
    BY <2>2, <2>3, <2>4, PlainRequest
<1>4. QED
  BY <1>2, <1>3

LEMMA RememberFits ==
  ASSUME LInv, NEW w \in Windows, RememberCredentials(w)
  PROVE  LInv'
<1>1. PICK s \in DOMAIN view[w].sessions,
           patch \in {[auth |-> "password", password |-> TRUE]} \cup {[auth |-> "key", key |-> k] : k \in DOMAIN db.keys} :
         Send(w, SessionsUpdate(db, s, Patched(patch, [name |-> view[w].sessions[s].name, protocol |-> "ssh"])), "nothing")
  BY DEF RememberCredentials
<1>2. PatchTyped(patch) /\ "jump" \notin DOMAIN patch
  <2>1. CASE patch = [auth |-> "password", password |-> TRUE]
    <3> DEFINE auth == "password"
    <3>1. auth \in AuthTypes
      BY AuthNames
    <3> HIDE DEF auth
    <3>2. patch = [auth |-> auth, password |-> TRUE]
      BY <2>1 DEF auth
    <3>3. QED
      BY <3>1, <3>2, LoginPatch
  <2>2. CASE \E k \in DOMAIN db.keys : patch = [auth |-> "key", key |-> k]
    <3> DEFINE auth == "key"
    <3>1. auth \in AuthTypes
      BY AuthNames
    <3>2. DOMAIN db.keys \subseteq Nat
      BY TablesFit DEF LInv, TablesGood
    <3> HIDE DEF auth
    <3>3. PICK k \in Nat : patch = [auth |-> auth, key |-> k]
      BY <2>2, <3>2 DEF auth
    <3>4. QED
      BY <3>1, <3>3, KeyPatch
  <2>3. QED
    BY <1>1, <2>1, <2>2
<1> DEFINE n == view[w].sessions[s].name
           p == "ssh"
           all == Patched(patch, [name |-> n, protocol |-> p])
           r == SessionsUpdate(db, s, all)
           then == "nothing"
<1>3. n \in Names /\ p \in Protocols
  BY ViewFacts, ProtocolNames
<1> HIDE DEF n, p
<1>4. PatchTyped(all) /\ "jump" \notin DOMAIN all
  BY <1>2, <1>3, NamedPatch
<1> HIDE DEF all
<1>5. GoodTables(r.db, Once)
  BY <1>4, SessionsUpdateGood DEF LInv, TablesGood
<1> HIDE DEF r, then
<1>6. Send(w, r, then)
  BY <1>1 DEF r, then, all, n, p
<1>7. UNCHANGED <<scene, files, saved, view, assign, dlgvars>>
  BY DEF RememberCredentials
<1>8. QED
  BY <1>5, <1>6, <1>7, PlainRequest

LEMMA AssignNextFits ==
  ASSUME LInv, NEW w \in Windows, AssignNext(w)
  PROVE  LInv'
<1> DEFINE s == Head(assign[w].todo)
           use == s \in assign[w].picked
           n == assign[w].names[s]
           p == "ssh"
           k == IF use THEN assign[w].key ELSE None
           auth == IF use THEN "key" ELSE "password"
           patch == [name |-> n, protocol |-> p, key |-> k, auth |-> auth]
           r == SessionsUpdate(db, s, patch)
           then == "assign"
<1>1. /\ Send(w, r, then) /\ assign[w].todo # <<>>
      /\ assign' = [assign EXCEPT ![w] = Rest(assign[w])] \/ assign' = [assign EXCEPT ![w] = NoAssign]
  BY DEF AssignNext, Rest
<1>2. scene' = scene /\ UNCHANGED <<files, saved, view, dialogs>>
  BY DEF AssignNext, dlgvars
<1>3. TaskFits(assign[w])
  BY DEF LInv, TasksGood
<1>4. k \in Nat /\ auth \in AuthTypes /\ p \in Protocols
  BY <1>3, NoneIsId, AuthNames, ProtocolNames DEF TaskFits
<1>5. n \in Names
  BY <1>1, <1>3, RestFits DEF TaskFits
<1> HIDE DEF use, k, auth, s, n, p
<1>6. PatchTyped(patch) /\ "jump" \notin DOMAIN patch
  BY <1>4, <1>5 DEF PatchTyped, Columns
<1> HIDE DEF patch
<1>7. GoodTables(r.db, Once)
  BY <1>6, SessionsUpdateGood DEF LInv, TablesGood
<1> HIDE DEF r, then
<1>8. TablesGood' /\ LoadsGood'
  BY <1>1, <1>2, <1>7, Answered
<1>9. TasksGood'
  BY <1>1, <1>3, NoTask, RestFits, TaskSet DEF LInv
<1>10. QED
  BY <1>2, <1>8, <1>9, Kept

LEMMA AssignDoneFits ==
  ASSUME LInv, NEW w \in Windows, AssignDone(w)
  PROVE  LInv'
<1>1. assign' = [assign EXCEPT ![w] = NoAssign]
  BY DEF AssignDone
<1>2. TasksGood'
  BY <1>1, NoTask, TaskSet DEF LInv
<1>3. scene' = scene /\ UNCHANGED <<db, files, saved, view, loads, dialogs>>
  BY DEF AssignDone, dlgvars
<1>4. QED
  BY <1>2, <1>3, Kept

(* A request, and a mark on the dialog that sent it.                       *)
LEMMA MarkedRequest ==
  ASSUME LInv, NEW w \in Windows, Top(w).kind \in {"session", "import"}, NEW r, NEW then, Send(w, r, then),
         GoodTables(r.db, Once), NEW e, ChangeTop(w, FieldSet(Top(w), "sent", e)),
         UNCHANGED <<scene, files, saved, view, assign>>
  PROVE  LInv'
<1> DEFINE d == FieldSet(Top(w), "sent", e)
<1>1. TablesGood' /\ LoadsGood'
  BY Answered
<1>2. DialogFits(Top(w))
  BY TopFits DEF LInv
<1>3. DialogFits(d)
  BY <1>2, MarkSet
<1> HIDE DEF d
<1>4. StacksGood'
  BY <1>3, TopSet DEF LInv, d
<1>5. QED
  BY <1>1, <1>4, Kept

LEMMA SaveSessionFits ==
  ASSUME LInv, NEW w \in Windows, SaveSession(w)
  PROVE  LInv'
<1> DEFINE d == Top(w)
           r == IF d.mode = "edit" THEN SessionsUpdate(db, d.id, d.form) ELSE SessionsCreate(db, d.form)
           then == "close"
           sent == d.sent
<1>1. /\ d.kind = "session" /\ Send(w, r, then)
      /\ ChangeTop(w, [d EXCEPT !.sent = TRUE])
      /\ UNCHANGED <<scene, files, saved, view, assign>>
  BY DEF SaveSession, At
<1>2. SessionFits(d)
  BY <1>1, TopFits DEF LInv, DialogFits
<1> HIDE DEF d, then
<1>3. GoodTables(r.db, Once)
  <2> DEFINE form == d.form
  <2>1. form \in SessionRows /\ (d.mode = "edit" => form.jump # d.id)
    BY <1>2 DEF SessionFits
  <2>2. GoodTables(db, Once)
    BY DEF LInv, TablesGood
  <2> HIDE DEF form
  <2>3. CASE d.mode = "edit"
    <3>1. PatchTyped(form)
      BY <2>1, RowColumns
    <3>2. GoodTables(SessionsUpdate(db, d.id, form).db, Once)
      BY <2>1, <2>2, <2>3, <3>1, SessionsUpdateGood
    <3>3. QED
      BY <2>3, <3>2 DEF form
  <2>4. CASE d.mode # "edit"
    <3>1. GoodTables(SessionsCreate(db, form).db, Once)
      BY <2>1, <2>2, SessionsCreateGood
    <3>2. QED
      BY <2>4, <3>1 DEF form
  <2>5. QED
    BY <2>3, <2>4
<1> HIDE DEF r
<1>4. PICK e : ChangeTop(w, FieldSet(Top(w), "sent", e))
  BY <1>1 DEF FieldSet, d
<1>5. QED
  BY <1>1, <1>3, <1>4, MarkedRequest DEF d

LEMMA CommitFits ==
  ASSUME LInv, NEW w \in Windows, CommitImport(w)
  PROVE  LInv'
<1> DEFINE d == Top(w)
           r == Commit(db, files, d.inputs, d.located)
           then == "close"
<1>1. /\ d.kind = "import" /\ Send(w, r, then)
      /\ ChangeTop(w, [d EXCEPT !.sent = r.ok])
      /\ UNCHANGED <<scene, files, saved, view, assign>>
  BY DEF CommitImport, At
<1>2. ImportFits(d)
  BY <1>1, TopFits DEF LInv, DialogFits
<1> HIDE DEF d, then
<1>3. GoodTables(r.db, Once)
  <2> DEFINE inputs == d.inputs
             located == d.located
  <2>1. inputs \in Seq(InputRows) /\ GoodTables(db, Once) /\ FilesTyped(files)
    BY <1>2 DEF ImportFits, LInv, TablesGood, DiskGood
  <2> HIDE DEF inputs, located
  <2>2. GoodTables(Commit(db, files, inputs, located).db, Once)
    BY <2>1, CommitGood
  <2>3. QED
    BY <2>2 DEF inputs, located
<1> HIDE DEF r
<1>4. PICK e : ChangeTop(w, FieldSet(Top(w), "sent", e))
  BY <1>1 DEF FieldSet, d
<1>5. QED
  BY <1>1, <1>3, <1>4, MarkedRequest DEF d

LEMMA SaveSnippetFits ==
  ASSUME LInv, NEW w \in Windows, SaveSnippet(w)
  PROVE  LInv'
<1> DEFINE d == Top(w)
           scope == d.global
           owner == IF scope THEN None ELSE d.owner
           r == IF d.id # None THEN SnippetsUpdate(db, d.id, scope, owner) ELSE SnippetsCreate(db, scope, owner)
<1>1. /\ d.kind = "snippet" /\ db' = r.db
      /\ dialogs' = [dialogs EXCEPT ![w] = Popped(dialogs[w])]
      /\ scene' = scene /\ UNCHANGED <<files, saved, view, loads, assign>>
  BY DEF SaveSnippet, At
<1>2. SnippetFits(d)
  BY <1>1, TopFits DEF LInv, DialogFits
<1>3. scope \in BOOLEAN /\ owner \in Nat
  BY <1>2, NoneIsId DEF SnippetFits
<1> HIDE DEF owner, scope
<1>4. GoodTables(SnippetsUpdate(db, d.id, scope, owner).db, Once) /\ GoodTables(SnippetsCreate(db, scope, owner).db, Once)
  BY <1>3, SnippetsUpdateGood, SnippetsCreateGood DEF LInv, TablesGood
<1>5. GoodTables(db', Once)
  BY <1>1, <1>4
<1>6. TablesGood'
  BY <1>1, <1>5, Tabled
<1>7. StacksGood'
  BY <1>1, PoppedOff DEF LInv
<1>8. QED
  BY <1>1, <1>6, <1>7, Kept

LEMMA ListsFit ==
  ASSUME LInv, NEW w \in Windows, SnippetList(w) \/ Tunnels(w)
  PROVE  LInv'
<1>1. scene' = scene /\ UNCHANGED <<files, saved, view, loads, assign, dialogs>>
  BY DEF SnippetList, Tunnels, dlgvars
<1>2. GoodTables(db, Once)
  BY DEF LInv, TablesGood
<1>3. GoodTables(db', Once)
  <2>1. CASE SnippetList(w)
    <3>1. (\E id \in DOMAIN db.snippets : db' = SnippetsDelete(db, id).db) \/ db' = SnippetsImport(db, 1).db
      BY <2>1 DEF SnippetList
    <3>2. QED
      BY <1>2, <3>1, SnippetsDeleteGood, SnippetsImportGood
  <2>2. CASE Tunnels(w)
    <3>1. \/ \E s \in DOMAIN view[w].sessions, auto \in BOOLEAN : db' = TunnelsCreate(db, s, auto).db
          \/ \E t \in DOMAIN db.tunnels : db' = TunnelsSetAuto(db, t, ~db.tunnels[t].auto).db
          \/ \E t \in DOMAIN db.tunnels : db' = TunnelsDelete(db, t).db
      BY <2>2 DEF Tunnels
    <3>2. CASE \E s \in DOMAIN view[w].sessions, auto \in BOOLEAN : db' = TunnelsCreate(db, s, auto).db
      BY <1>2, <3>2, TunnelsCreateGood
    <3>3. CASE \E t \in DOMAIN db.tunnels : db' = TunnelsSetAuto(db, t, ~db.tunnels[t].auto).db
      <4>1. PICK t \in DOMAIN db.tunnels : db' = TunnelsSetAuto(db, t, ~db.tunnels[t].auto).db
        BY <3>3
      <4> DEFINE auto == ~db.tunnels[t].auto
      <4>2. auto \in BOOLEAN
        OBVIOUS
      <4> HIDE DEF auto
      <4>3. db' = TunnelsSetAuto(db, t, auto).db
        BY <4>1 DEF auto
      <4>4. QED
        BY <1>2, <4>2, <4>3, TunnelsSetAutoGood
    <3>4. CASE \E t \in DOMAIN db.tunnels : db' = TunnelsDelete(db, t).db
      BY <1>2, <3>4, TunnelsDeleteGood
    <3>5. QED
      BY <3>1, <3>2, <3>3, <3>4
  <2>3. QED
    BY <2>1, <2>2
<1>4. TablesGood'
  BY <1>1, <1>3, Tabled
<1>5. QED
  BY <1>1, <1>4, Kept

(* Keys by hand, which may come twice.                                     *)
LEMMA HandMade ==
  ASSUME Acts("byhand"), NEW d
  PROVE  GoodTables(d, Once) <=> GoodTables(d, FALSE)
<1>1. Once = FALSE
  BY DEF Once
<1>2. QED
  BY <1>1 DEF GoodTables

LEMMA FileFacts ==
  ASSUME LInv, NEW p \in DOMAIN files
  PROVE  files[p] \in KeyFiles /\ BaseOf[p] \in Names
<1>1. QED
  BY PathsAssumption DEF LInv, DiskGood, FilesTyped

LEMMA ImportIntoFormFits ==
  ASSUME LInv, NEW w \in Windows, ImportIntoForm(w)
  PROVE  LInv'
<1> DEFINE t == Top(w)
<1>1. PICK p \in DOMAIN files :
         LET r == KeysImport(db, files[p], BaseOf[p], FALSE)
         IN  /\ db' = r.db
             /\ ChangeTop(w, [t EXCEPT !.form.key = r.id, !.keys = DOMAIN r.db.keys])
  BY DEF ImportIntoForm
<1>2. /\ t.kind = "session" /\ Acts("byhand") /\ scene' = scene
      /\ UNCHANGED <<files, saved, view, loads, assign>>
  BY DEF ImportIntoForm, At
<1>3. DialogFits(t) /\ SessionFits(t)
  BY <1>2, TopFits DEF LInv, DialogFits
<1> HIDE DEF t
<1> DEFINE r == KeysImport(db, files[p], BaseOf[p], FALSE)
           ks == DOMAIN r.db.keys
           was == t.form
           form == [was EXCEPT !.key = r.id]
           half == FieldSet(t, "form", form)
           d == FieldSet(half, "keys", ks)
<1>4. GoodTables(r.db, FALSE) /\ r.id \in Nat
  <2>1. GoodTables(db, FALSE)
    BY <1>2, HandMade DEF LInv, TablesGood
  <2>2. files[p] \in KeyFiles /\ BaseOf[p] \in Names /\ NoText \in Fingerprints
    BY FileFacts, ColumnsAssumption
  <2> DEFINE body == files[p]
             name == BaseOf[p]
  <2> HIDE DEF body, name
  <2>3. body \in KeyFiles /\ name \in Names
    BY <2>2 DEF body, name
  <2>4. GoodTables(KeysImport(db, body, name, FALSE).db, FALSE) /\ KeysImport(db, body, name, FALSE).id \in Nat
    BY <2>1, <2>2, <2>3, ByHandGood
  <2>5. QED
    BY <2>4 DEF body, name
<1>5. db' = r.db /\ ChangeTop(w, [t EXCEPT !.form.key = r.id, !.keys = ks])
  BY <1>1
<1> HIDE DEF r
<1>6. ks \subseteq Nat
  BY <1>4, TablesFit
<1> HIDE DEF ks
<1>7. was \in SessionRows /\ (t.mode = "edit" => was.jump # t.id) /\ "form" \in DOMAIN t /\ "keys" \in DOMAIN t
  BY <1>3 DEF SessionFits
<1>8. ChangeTop(w, d)
  <2>1. d = [t EXCEPT !.form = form, !.keys = ks]
    BY DEF FieldSet
  <2>2. QED
    BY <1>5, <2>1
<1> HIDE DEF was
<1>9. form \in SessionRows /\ form.jump = was.jump
  BY <1>4, <1>7 DEF SessionRows
<1> HIDE DEF form
<1>10. DialogFits(half)
  BY <1>2, <1>3, <1>7, <1>9, FormSet
<1>11. half.kind = "session"
  BY <1>2, <1>3, FieldFacts DEF DialogFits
<1> HIDE DEF half
<1>12. DialogFits(d)
  BY <1>6, <1>10, <1>11, KeysSet
<1> HIDE DEF d
<1>13. StacksGood'
  BY <1>2, <1>8, <1>12, TopSet DEF LInv, t
<1>14. TablesGood'
  <2>1. GoodTables(db', Once)
    BY <1>2, <1>4, <1>5, HandMade
  <2>2. QED
    BY <1>2, <2>1, Tabled
<1>15. QED
  BY <1>2, <1>13, <1>14, Kept

LEMMA FillVaultFits ==
  ASSUME LInv, NEW w \in Windows, FillVault(w)
  PROVE  LInv'
<1>1. /\ Top(w).kind = "vault" /\ scene' = scene /\ UNCHANGED <<files, saved, view, loads, assign>>
      /\ ChangeTop(w, FieldSet(Top(w), "keys", DOMAIN db'.keys))
  BY DEF FillVault, AtVault, At, FieldSet
<1>2. GoodTables(db, Once)
  BY DEF LInv, TablesGood
<1>3. GoodTables(db', Once)
  <2>1. CASE Acts("byhand") /\ \E fp \in scene.fresh, name \in scene.names : db' = KeysGenerate(db, name, fp).db
    <3>1. PICK fp \in scene.fresh, name \in scene.names : db' = KeysGenerate(db, name, fp).db
      BY <2>1
    <3>2. fp \in Fingerprints /\ name \in Names
      BY SceneFacts DEF LInv
    <3>3. GoodTables(KeysGenerate(db, name, fp).db, FALSE)
      <4>1. GoodTables(db, FALSE)
        BY <1>2, <2>1, HandMade
      <4>2. GoodTables(KeysInsert(db, name, fp).db, FALSE)
        BY <3>2, <4>1, KeysInsertGood
      <4>3. QED
        BY <4>2 DEF KeysGenerate
    <3>4. QED
      BY <2>1, <3>1, <3>3, HandMade
  <2>2. CASE Acts("byhand") /\ \E p \in DOMAIN files, pass \in BOOLEAN : db' = KeysImport(db, files[p], BaseOf[p], pass).db
    <3>1. PICK p \in DOMAIN files, pass \in BOOLEAN : db' = KeysImport(db, files[p], BaseOf[p], pass).db
      BY <2>2
    <3> DEFINE body == files[p]
               name == BaseOf[p]
    <3>2. body \in KeyFiles /\ name \in Names /\ NoText \in Fingerprints
      BY FileFacts, ColumnsAssumption
    <3>3. GoodTables(db, FALSE)
      BY <1>2, <2>2, HandMade
    <3> HIDE DEF body, name
    <3>4. GoodTables(KeysImport(db, body, name, pass).db, FALSE)
      BY <3>2, <3>3, ByHandGood
    <3>5. QED
      BY <2>2, <3>1, <3>4, HandMade DEF body, name
  <2>3. CASE db' = ImportFromDir(db, files).db
    <3>1. FilesTyped(files)
      BY DEF LInv, DiskGood
    <3>2. QED
      BY <1>2, <2>3, <3>1, ScanGood
  <2>4. QED
    BY <2>1, <2>2, <2>3 DEF FillVault
<1>4. TablesGood'
  BY <1>1, <1>3, Tabled
<1> DEFINE ks == DOMAIN db'.keys
           d == FieldSet(Top(w), "keys", ks)
<1>5. ks \subseteq Nat
  BY <1>3, TablesFit
<1>6. DialogFits(Top(w))
  BY <1>1, TopFits DEF LInv
<1>a. ChangeTop(w, d)
  BY <1>1
<1> HIDE DEF ks
<1>7. DialogFits(d)
  BY <1>1, <1>5, <1>6, KeysSet
<1> HIDE DEF d
<1>8. StacksGood'
  BY <1>1, <1>a, <1>7, TopSet DEF LInv
<1>9. QED
  BY <1>1, <1>4, <1>8, Kept

(* What a confirmation deletes.                                            *)
LEMMA DeleteFits ==
  ASSUME LInv, scene' = scene, NEW w \in Windows, NEW d, Delete(w, d)
  PROVE  GoodTables(db', Once) /\ LoadsGood'
<1>1. GoodTables(db, Once)
  BY DEF LInv, TablesGood
<1> DEFINE then == "nothing"
<1>2. CASE Send(w, SessionsDelete(db, d.id), then)
  <2> DEFINE r == SessionsDelete(db, d.id)
  <2>1. GoodTables(r.db, Once)
    BY <1>1, SessionsDeleteGood
  <2>2. Send(w, r, then)
    BY <1>2
  <2> HIDE DEF r, then
  <2>3. LoadsGood' /\ db' = r.db
    BY <2>1, <2>2, Answered DEF Send
  <2>4. QED
    BY <2>1, <2>3
<1>3. CASE Send(w, GroupsDelete(db, d.id), then)
  <2> DEFINE r == GroupsDelete(db, d.id)
  <2>1. GoodTables(r.db, Once)
    BY <1>1, GroupsDeleteGood
  <2>2. Send(w, r, then)
    BY <1>3
  <2> HIDE DEF r, then
  <2>3. LoadsGood' /\ db' = r.db
    BY <2>1, <2>2, Answered DEF Send
  <2>4. QED
    BY <2>1, <2>3
<1>4. CASE db' = KeysDelete(db, d.id).db /\ UNCHANGED loads
  <2>1. GoodTables(db', Once)
    BY <1>1, <1>4, KeysDeleteGood
  <2>2. LoadsGood'
    BY <1>4 DEF LInv, LoadsGood
  <2>3. QED
    BY <2>1, <2>2
<1>5. QED
  BY <1>2, <1>3, <1>4 DEF Delete

LEMMA ConfirmFits ==
  ASSUME LInv, NEW w \in Windows, ConfirmDelete(w)
  PROVE  LInv'
<1> DEFINE ks == DOMAIN db'.keys
           rest == Popped(dialogs[w])
           keyless == [rest EXCEPT ![Len(rest)].keys = ks]
<1>1. PICK i \in DOMAIN dialogs[w] :
         /\ Delete(w, dialogs[w][i])
         /\ \/ dialogs' = [dialogs EXCEPT ![w] = rest]
            \/ rest # <<>> /\ Last(rest).kind = "vault" /\ dialogs' = [dialogs EXCEPT ![w] = keyless]
  BY DEF ConfirmDelete
<1>2. scene' = scene /\ UNCHANGED <<files, saved, view, assign>>
  BY DEF ConfirmDelete
<1>3. GoodTables(db', Once) /\ LoadsGood'
  BY <1>1, <1>2, DeleteFits
<1>4. TablesGood'
  BY <1>2, <1>3, Tabled
<1>5. ks \subseteq Nat
  BY <1>3, TablesFit
<1>6. GoodStack(rest)
  BY DialogPopped DEF LInv, StacksGood
<1> HIDE DEF rest, ks
<1>7. ASSUME rest # <<>>, Last(rest).kind = "vault" PROVE GoodStack(keyless)
  <2> DEFINE n == Len(rest)
             t == rest[n]
             d == FieldSet(t, "keys", ks)
  <2>1. n \in 1 .. Len(rest) /\ Last(rest) = t /\ DialogFits(t)
    BY <1>6, <1>7, StackFacts DEF GoodStack
  <2>2. keyless = [rest EXCEPT ![n] = d]
    BY DEF FieldSet
  <2>3. t.kind = "vault"
    BY <1>7, <2>1
  <2> HIDE DEF t
  <2>4. DialogFits(d)
    BY <1>5, <2>1, <2>3, KeysSet
  <2> HIDE DEF d, n
  <2>5. GoodStack([rest EXCEPT ![n] = d])
    BY <1>6, <2>1, <2>4, DialogChanged
  <2>6. QED
    BY <2>2, <2>5
<1> HIDE DEF keyless
<1>8. StacksGood'
  BY <1>1, <1>2, <1>6, <1>7, StackSet DEF LInv
<1>9. QED
  BY <1>2, <1>3, <1>4, <1>8, Kept

(* The tables are read again, and shown.                                   *)
LEMMA ReadFits ==
  ASSUME LInv, NEW w \in Windows, ReadTable(w)
  PROVE  LInv'
<1> DEFINE q == loads[w]
<1>1. PICK i \in DOMAIN q :
         loads' = [loads EXCEPT ![w][i] = IF q[i].read = 0 THEN [q[i] EXCEPT !.read = 1, !.sessions = db.sessions]
                                          ELSE [q[i] EXCEPT !.read = 2, !.groups = db.groups]]
  BY DEF ReadTable
<1> DEFINE l == q[i]
           rows == db.sessions
           grps == db.groups
           d == IF l.read = 0 THEN [l EXCEPT !.read = 1, !.sessions = rows]
                ELSE [l EXCEPT !.read = 2, !.groups = grps]
           r == [q EXCEPT ![i] = d]
<1>2. scene' = scene /\ UNCHANGED <<db, files, saved, view, assign, dialogs>>
  BY DEF ReadTable, dlgvars
<1>3. loads' = [loads EXCEPT ![w] = r]
  BY <1>1
<1>4. Stack(q) /\ DOMAIN q = 1 .. Len(q) /\ GoodLoads(q)
  BY StackFacts DEF LInv, LoadsGood, GoodLoads
<1>5. RowsFit(rows) /\ IdsFit(grps)
  BY TablesFit DEF LInv, TablesGood
<1> HIDE DEF rows, grps
<1>6. LoadFits(l)
  BY <1>4 DEF GoodLoads
<1> HIDE DEF l
<1>7. LoadFits(d)
  <2>1. {"read", "sessions", "groups", "then"} \subseteq DOMAIN l /\ RowsFit(l.sessions) /\ IdsFit(l.groups)
    BY <1>6 DEF LoadFits, CopyFits
  <2>2. CASE l.read = 0
    <3> DEFINE e == [l EXCEPT !.read = 1, !.sessions = rows]
    <3>1. DOMAIN e = DOMAIN l /\ e.read = 1 /\ e.sessions = rows /\ e.groups = l.groups
      BY <2>1
    <3>2. d = e
      BY <2>2
    <3> HIDE DEF e, d
    <3>3. QED
      BY <1>5, <2>1, <3>1, <3>2 DEF LoadFits, CopyFits
  <2>3. CASE l.read # 0
    <3> DEFINE e == [l EXCEPT !.read = 2, !.groups = grps]
    <3>1. DOMAIN e = DOMAIN l /\ e.read = 2 /\ e.groups = grps /\ e.sessions = l.sessions
      BY <2>1
    <3>2. d = e
      BY <2>3
    <3> HIDE DEF e, d
    <3>3. QED
      BY <1>5, <2>1, <3>1, <3>2 DEF LoadFits, CopyFits
  <2>4. QED
    BY <2>2, <2>3
<1> HIDE DEF d
<1>8. Stack(r) /\ Len(r) = Len(q) /\ \A j \in 1 .. Len(q) : r[j] = IF j = i THEN d ELSE q[j]
  BY <1>4, ChangedStack
<1> HIDE DEF r, q
<1>9. GoodLoads(r)
  BY <1>4, <1>7, <1>8 DEF GoodLoads
<1>10. LoadsGood'
  BY <1>3, <1>9, LoadsSet DEF LInv
<1>11. QED
  BY <1>2, <1>10, Kept

LEMMA LoadedFits ==
  ASSUME LInv, NEW w \in Windows, Loaded(w)
  PROVE  LInv'
<1> DEFINE q == loads[w]
           l == Head(q)
<1>1. /\ q # <<>> /\ loads' = [loads EXCEPT ![w] = Tail(q)]
      /\ view' = [view EXCEPT ![w] = [sessions |-> l.sessions, groups |-> l.groups]]
      /\ scene' = scene /\ UNCHANGED <<db, files, saved, assign>>
      /\ dialogs' = [dialogs EXCEPT ![w] = Popped(dialogs[w])] \/ UNCHANGED dialogs
  BY DEF Loaded
<1>2. Stack(q) /\ GoodLoads(q)
  BY DEF LInv, LoadsGood, GoodLoads
<1> HIDE DEF q
<1> DEFINE rest == Tail(q)
<1>3. /\ Stack(rest) /\ Len(rest) = Len(q) - 1 /\ l = q[1] /\ 1 \in 1 .. Len(q)
      /\ \A i \in 1 .. (Len(q) - 1) : rest[i] = q[i + 1] /\ i + 1 \in 1 .. Len(q)
  BY <1>1, <1>2, TailStack
<1> HIDE DEF rest, l
<1>4. GoodLoads(rest) /\ CopyFits(l)
  BY <1>2, <1>3 DEF GoodLoads, LoadFits
<1>5. LoadsGood'
  BY <1>1, <1>4, LoadsSet DEF LInv, rest
<1> DEFINE c == [sessions |-> l.sessions, groups |-> l.groups]
<1>6. CopyFits(c)
  BY <1>4 DEF CopyFits
<1>7. ViewsGood'
  <2>1. view' = [view EXCEPT ![w] = c]
    BY <1>1
  <2> HIDE DEF c
  <2>2. QED
    BY <1>6, <2>1 DEF LInv, ViewsGood
<1>8. UNCHANGED dialogs \/ StacksGood'
  BY <1>1, PoppedOff DEF LInv
<1>9. QED
  BY <1>1, <1>5, <1>7, <1>8, Kept

(* Files come and go.                                                      *)
LEMMA FilesFit ==
  ASSUME LInv, FilesChange
  PROVE  LInv'
<1>1. PICK p \in DOMAIN scene.files :
         files' = IF p \in DOMAIN files THEN Without(files, {p}) ELSE Patched(files, Single(p, scene.files[p]))
  BY DEF FilesChange
<1>2. scene' = scene /\ UNCHANGED <<db, saved, view, loads, assign, dialogs>>
  BY DEF FilesChange, dlgvars
<1>3. FilesTyped(files) /\ p \in Paths /\ scene.files[p] \in KeyFiles
  BY SceneFacts DEF LInv, DiskGood
<1>4. FilesTyped(files')
  <2>1. CASE p \in DOMAIN files
    <3>1. DOMAIN files' = DOMAIN files \ {p} /\ \A x \in DOMAIN files' : files'[x] = files[x]
      BY <1>1, <2>1 DEF Without
    <3>2. IsFiniteSet(DOMAIN files \ {p})
      BY <1>3, FS_RemoveElement DEF FilesTyped
    <3>3. QED
      BY <1>3, <3>1, <3>2 DEF FilesTyped
  <2>2. CASE p \notin DOMAIN files
    <3> DEFINE f == scene.files[p]
    <3>1. /\ DOMAIN files' = DOMAIN files \cup {p} /\ files'[p] = f
          /\ \A x \in DOMAIN files : files'[x] = files[x]
      BY <1>1, <2>2 DEF Patched, Single
    <3> HIDE DEF f
    <3>2. IsFiniteSet(DOMAIN files \cup {p})
      BY <1>3, FS_AddElement DEF FilesTyped
    <3>3. QED
      BY <1>3, <3>1, <3>2 DEF FilesTyped, f
  <2>3. QED
    BY <2>1, <2>2
<1>5. DiskGood'
  BY <1>2, <1>4, SceneKept DEF LInv, DiskGood
<1>6. QED
  BY <1>2, <1>5, Kept

LEMMA ExportFits ==
  ASSUME LInv, NEW w \in Windows, ExportBackup(w)
  PROVE  LInv'
<1>1. /\ scene' = scene /\ UNCHANGED <<db, files, view, loads, assign, dialogs>>
      /\ saved' = Export("ternix", db)
  BY DEF ExportBackup, dlgvars
<1>2. saved' \in Seq(SessionRows)
  BY <1>1, BackupTyped DEF LInv, TablesGood, GoodTables
<1>3. Acts("backup")'
  BY <1>1, SceneKept DEF ExportBackup
<1>4. DiskGood'
  BY <1>1, <1>2, <1>3 DEF LInv, DiskGood
<1>5. QED
  BY <1>1, <1>4, Kept

LEMMA LibraryStep == LInv /\ [Next]_vars => LInv'
<1> SUFFICES ASSUME LInv, [Next]_vars PROVE LInv'
  OBVIOUS
<1>1. CASE FilesChange
  BY <1>1, FilesFit
<1>2. ASSUME NEW w \in Windows,
             \/ ReadTable(w) \/ Loaded(w)
             \/ MoveToGroup(w) \/ CreateGroup(w) \/ RenameGroup(w) \/ AskDelete(w) \/ ConfirmDelete(w)
             \/ NewSession(w) \/ EditSession(w) \/ EditField(w) \/ ImportIntoForm(w) \/ SaveSession(w)
             \/ RememberCredentials(w)
             \/ OpenVault(w) \/ FillVault(w) \/ AskDeleteKey(w) \/ OpenPicker(w) \/ Toggle(w) \/ Apply(w)
             \/ AssignNext(w) \/ AssignDone(w)
             \/ Preview(w) \/ LocateKey(w) \/ CommitImport(w) \/ ExportBackup(w)
             \/ OpenSnippet(w) \/ ScopeToggle(w) \/ SaveSnippet(w) \/ SnippetList(w) \/ Tunnels(w)
             \/ PaneAsks(w) \/ PaneAnswered(w) \/ Cancel(w) \/ PressEscape(w)
      PROVE  LInv'
  <2>1. CASE ReadTable(w) \/ Loaded(w) \/ AssignNext(w) \/ AssignDone(w)
    BY <2>1, ReadFits, LoadedFits, AssignNextFits, AssignDoneFits
  <2>2. CASE MoveToGroup(w) \/ CreateGroup(w) \/ RenameGroup(w) \/ RememberCredentials(w)
    BY <2>2, MoveFits, GroupFits, RememberFits
  <2>3. CASE NewSession(w) \/ EditSession(w) \/ OpenSnippet(w) \/ Preview(w)
    BY <2>3, NewSessionFits, EditSessionFits, SnippetDialogFits, PreviewFits
  <2>4. CASE AskDelete(w) \/ AskDeleteKey(w) \/ OpenVault(w) \/ PaneAsks(w)
    BY <2>4, OtherDialogsFit
  <2>5. CASE EditField(w) \/ LocateKey(w) \/ ScopeToggle(w) \/ OpenPicker(w) \/ Toggle(w) \/ Apply(w)
    BY <2>5, EditFieldFits, LocateFits, ScopeFits, PickerFits, ApplyFits
  <2>6. CASE ImportIntoForm(w) \/ FillVault(w) \/ ConfirmDelete(w)
    BY <2>6, ImportIntoFormFits, FillVaultFits, ConfirmFits
  <2>7. CASE SaveSession(w) \/ CommitImport(w) \/ SaveSnippet(w)
    BY <2>7, SaveSessionFits, CommitFits, SaveSnippetFits
  <2>8. CASE SnippetList(w) \/ Tunnels(w) \/ ExportBackup(w)
    BY <2>8, ListsFit, ExportFits
  <2>9. CASE PaneAnswered(w) \/ Cancel(w) \/ PressEscape(w)
    BY <2>9, PaneAnsweredFits, CancelFits, EscapeFits
  <2>10. QED
    BY <1>2, <2>1, <2>2, <2>3, <2>4, <2>5, <2>6, <2>7, <2>8, <2>9
<1>3. CASE UNCHANGED vars
  <2>1. scene' = scene /\ UNCHANGED <<db, files, saved, view, loads, assign, dialogs>>
    BY <1>3 DEF vars, libvars, dlgvars
  <2>2. QED
    BY <2>1, Kept
<1>4. QED
  BY <1>1, <1>2, <1>3 DEF Next

LEMMA LibraryStarts == Init => LInv
<1> SUFFICES ASSUME Init PROVE LInv
  OBVIOUS
<1>1. /\ scene \in Scenes /\ db = scene.db /\ files = scene.files /\ saved = NoBackup
      /\ view = [w \in Windows |-> [sessions |-> scene.db.sessions, groups |-> scene.db.groups]]
      /\ loads = [w \in Windows |-> <<>>] /\ assign = [w \in Windows |-> NoAssign]
      /\ dialogs = [w \in Windows |-> <<>>]
  BY DEF Init, DialogInit
<1>2. TablesGood
  BY <1>1, ScenesAssumption DEF TablesGood, GoodTables, Once, Acts
<1>3. DiskGood
  <2>1. FilesTyped(files)
    BY <1>1, ScenesAssumption DEF FilesTyped
  <2>2. saved \in Seq(SessionRows)
    BY <1>1, NothingIn DEF NoBackup
  <2>3. QED
    BY <1>1, <2>1, <2>2 DEF DiskGood
<1>4. ViewsGood
  <2>1. RowsFit(db.sessions) /\ IdsFit(db.groups)
    BY <1>2, TablesFit DEF TablesGood
  <2>2. QED
    BY <1>1, <2>1 DEF ViewsGood, CopyFits
<1>5. LoadsGood /\ StacksGood
  BY <1>1, NoDialogs DEF LoadsGood, StacksGood
<1>6. TasksGood
  BY <1>1, NoTask DEF TasksGood
<1>7. QED
  BY <1>1, <1>2, <1>3, <1>4, <1>5, <1>6 DEF LInv

LEMMA LibraryIsSound == LInv => TablesAreSound
<1> SUFFICES ASSUME LInv PROVE TablesAreSound
  OBVIOUS
<1>1. TablesTyped(db) /\ RowsResolve(db) /\ (Acts("byhand") \/ KeysApart(db))
  BY DEF LInv, TablesGood, GoodTables, Once
<1>2. ASSUME NEW w \in Windows, NEW i \in DOMAIN loads[w] PROVE loads[w][i].read \in 0 .. 2
  <2>1. Stack(loads[w]) /\ \A k \in 1 .. Len(loads[w]) : LoadFits(loads[w][k])
    BY DEF LInv, LoadsGood, GoodLoads
  <2>2. i \in 1 .. Len(loads[w])
    BY <2>1, StackFacts
  <2>3. QED
    BY <2>1, <2>2 DEF LoadFits
<1>3. scene \in Scenes /\ DOMAIN files \subseteq Paths /\ \A p \in DOMAIN files : files[p] \in KeyFiles
  BY DEF LInv, DiskGood, FilesTyped
<1>4. TypeOK
  BY <1>1, <1>2, <1>3 DEF TypeOK
<1>5. QED
  BY <1>1, <1>4 DEF TablesAreSound, KeysOnce

(* Whatever is edited, imported, scanned and deleted, in which order and   *)
(* from which window, for any scene: every reference of the tables leads to*)
(* a row, the groups form a tree, no session jumps through itself, a       *)
(* snippet is global or owned, and where no key is put in by hand no key is*)
(* in twice (schema.ts: the cascades; groupsRepo.delete, keysRepo.delete,  *)
(* scopeSnippet, KeyService.ensureKeyFromFile, commitImport).              *)
THEOREM TablesAlwaysSound == Spec => []TablesAreSound
<1>1. Init => LInv
  BY LibraryStarts
<1>2. LInv /\ [Next]_vars => LInv'
  BY LibraryStep
<1>3. LInv => TablesAreSound
  BY LibraryIsSound
<1>4. QED
  BY <1>1, <1>2, <1>3, PTL DEF Spec
-----------------------------------------------------------------------------
(* The steps by what they do to the tables and to the copies of them.      *)

Quiet == UNCHANGED <<scene, db, view, loads, assign>>

(* A request that is refused leaves the tables alone.                      *)
Asks(w) ==
  /\ Free(w) /\ UNCHANGED <<scene, view, assign>>
  /\ \E r, then : Send(w, r, then) /\ Grows(db, r.db) /\ (ForeignOnly => r.ok \/ r.db = db)

Fills(w) ==
  /\ Free(w) /\ UNCHANGED <<scene, view, loads, assign>>
  /\ Grows(db, db') /\ SameList(db, db')

LEMMA AskedPlain ==
  ASSUME NEW w \in Windows, Free(w), NEW r, NEW then, Send(w, r, then), AllOrNothing(db, r),
         UNCHANGED <<scene, view, assign>>
  PROVE  Asks(w)
<1>1. QED
  BY DEF Asks, AllOrNothing

LEMMA TablesNow == LInv => TablesTyped(db) /\ GoodTables(db, Once) /\ RowsResolve(db)
<1>1. QED
  BY DEF LInv, TablesGood, GoodTables

LEMMA MoveAsks ==
  ASSUME LInv, NEW w \in Windows, MoveToGroup(w)
  PROVE  Asks(w)
<1>1. PICK s \in DOMAIN view[w].sessions, g \in DOMAIN view[w].groups \cup {None} :
         Send(w, SessionsUpdate(db, s, [name |-> view[w].sessions[s].name,
                                        protocol |-> view[w].sessions[s].protocol, group |-> g]), "nothing")
  BY DEF MoveToGroup
<1> DEFINE patch == [name |-> view[w].sessions[s].name, protocol |-> view[w].sessions[s].protocol, group |-> g]
           r == SessionsUpdate(db, s, patch)
           then == "nothing"
<1>2. Send(w, r, then)
  BY <1>1
<1> HIDE DEF patch, then
<1>3. AllOrNothing(db, r)
  BY TablesNow, SessionsUpdateGrows
<1> HIDE DEF r
<1>4. Free(w) /\ UNCHANGED <<scene, view, assign>>
  BY DEF MoveToGroup, AtTree
<1>5. QED
  BY <1>2, <1>3, <1>4, AskedPlain

LEMMA GroupAsks ==
  ASSUME LInv, NEW w \in Windows, CreateGroup(w) \/ RenameGroup(w)
  PROVE  Asks(w)
<1> DEFINE then == "nothing"
<1>1. Free(w) /\ UNCHANGED <<scene, view, assign>>
  BY DEF CreateGroup, RenameGroup, AtTree
<1>2. \/ \E name, parent : Send(w, GroupsCreate(db, name, parent), then)
      \/ \E g, name : Send(w, GroupsRename(db, g, name), then)
  BY DEF CreateGroup, RenameGroup
<1> HIDE DEF then
<1>3. CASE \E name, parent : Send(w, GroupsCreate(db, name, parent), then)
  <2>1. PICK name, parent : Send(w, GroupsCreate(db, name, parent), then)
    BY <1>3
  <2>2. AllOrNothing(db, GroupsCreate(db, name, parent))
    BY TablesNow, GroupsCreateGrows
  <2>3. QED
    BY <1>1, <2>1, <2>2, AskedPlain
<1>4. CASE \E g, name : Send(w, GroupsRename(db, g, name), then)
  <2>1. PICK g, name : Send(w, GroupsRename(db, g, name), then)
    BY <1>4
  <2>2. AllOrNothing(db, GroupsRename(db, g, name))
    BY TablesNow, GroupsRenameGrows
  <2>3. QED
    BY <1>1, <2>1, <2>2, AskedPlain
<1>5. QED
  BY <1>2, <1>3, <1>4

LEMMA RememberAsks ==
  ASSUME LInv, NEW w \in Windows, RememberCredentials(w)
  PROVE  Asks(w)
<1> DEFINE then == "nothing"
<1>1. Free(w) /\ UNCHANGED <<scene, view, assign>>
  BY DEF RememberCredentials
<1>2. PICK s, patch : Send(w, SessionsUpdate(db, s, patch), then)
  BY DEF RememberCredentials
<1> HIDE DEF then
<1>3. AllOrNothing(db, SessionsUpdate(db, s, patch))
  BY TablesNow, SessionsUpdateGrows
<1>4. QED
  BY <1>1, <1>2, <1>3, AskedPlain

LEMMA SaveAsks ==
  ASSUME LInv, NEW w \in Windows, SaveSession(w)
  PROVE  Asks(w)
<1> DEFINE d == Top(w)
           id == d.id
           form == d.form
           then == "close"
<1>1. Free(w) /\ UNCHANGED <<scene, view, assign>>
  BY DEF SaveSession, At
<1>2. Send(w, IF d.mode = "edit" THEN SessionsUpdate(db, id, form) ELSE SessionsCreate(db, form), then)
  BY DEF SaveSession
<1>3. Send(w, SessionsUpdate(db, id, form), then) \/ Send(w, SessionsCreate(db, form), then)
  BY <1>2
<1> HIDE DEF then, id, form
<1>4. AllOrNothing(db, SessionsUpdate(db, id, form)) /\ AllOrNothing(db, SessionsCreate(db, form))
  BY TablesNow, SessionsUpdateGrows, SessionsCreateGrows
<1>5. QED
  BY <1>1, <1>3, <1>4, AskedPlain

LEMMA CommitAsks ==
  ASSUME LInv, NEW w \in Windows, CommitImport(w)
  PROVE  Asks(w)
<1> DEFINE d == Top(w)
           inputs == d.inputs
           located == d.located
           then == "close"
           r == Commit(db, files, inputs, located)
<1>1. d.kind = "import" /\ Send(w, r, then) /\ Free(w) /\ UNCHANGED <<scene, view, assign>>
  BY DEF CommitImport, At
<1>2. ImportFits(d)
  BY <1>1, TopFits DEF LInv, DialogFits
<1>3. inputs \in Seq(InputRows) /\ FilesTyped(files) /\ (ForeignOnly => Loose(inputs))
  BY <1>2 DEF ImportFits, Brought, LInv, DiskGood
<1> HIDE DEF inputs, located, then
<1>4. Grows(db, r.db) /\ (Loose(inputs) => r.ok = TRUE)
  BY <1>3, TablesNow, CommitGrows
<1> HIDE DEF r
<1>5. QED
  BY <1>1, <1>3, <1>4 DEF Asks

(* The requests that no list of sessions shows.                            *)
LEMMA FormFills ==
  ASSUME LInv, NEW w \in Windows, ImportIntoForm(w)
  PROVE  Fills(w)
<1>1. Free(w) /\ UNCHANGED <<scene, view, loads, assign>>
  BY DEF ImportIntoForm, At
<1>2. PICK p \in DOMAIN files : db' = KeysImport(db, files[p], BaseOf[p], FALSE).db
  BY DEF ImportIntoForm
<1> DEFINE body == files[p]
           name == BaseOf[p]
           pass == FALSE
<1>3. db' = KeysImport(db, body, name, pass).db
  BY <1>2
<1> HIDE DEF body, name, pass
<1>4. KeyAnswer(db, KeysImport(db, body, name, pass))
  BY TablesNow, ByHandGrows
<1>5. QED
  BY <1>1, <1>3, <1>4 DEF KeyAnswer, Fills

LEMMA VaultFills ==
  ASSUME LInv, NEW w \in Windows, FillVault(w)
  PROVE  Fills(w)
<1>1. Free(w) /\ UNCHANGED <<scene, view, loads, assign>>
  BY DEF FillVault, AtVault, At
<1>2. Grows(db, db') /\ SameList(db, db')
  <2>1. CASE \E fp \in scene.fresh, name \in scene.names : db' = KeysGenerate(db, name, fp).db
    <3>1. PICK fp, name : db' = KeysGenerate(db, name, fp).db
      BY <2>1
    <3>2. KeyAnswer(db, KeysGenerate(db, name, fp))
      BY TablesNow, ByHandGrows
    <3>3. QED
      BY <3>1, <3>2 DEF KeyAnswer
  <2>2. CASE \E p \in DOMAIN files, pass \in BOOLEAN : db' = KeysImport(db, files[p], BaseOf[p], pass).db
    <3>1. PICK p, pass : db' = KeysImport(db, files[p], BaseOf[p], pass).db
      BY <2>2
    <3> DEFINE body == files[p]
               name == BaseOf[p]
    <3>2. db' = KeysImport(db, body, name, pass).db
      BY <3>1
    <3> HIDE DEF body, name
    <3>3. KeyAnswer(db, KeysImport(db, body, name, pass))
      BY TablesNow, ByHandGrows
    <3>4. QED
      BY <3>2, <3>3 DEF KeyAnswer
  <2>3. CASE db' = ImportFromDir(db, files).db
    <3>1. FilesTyped(files)
      BY DEF LInv, DiskGood
    <3>2. QED
      BY <2>3, <3>1, TablesNow, ScanGrows
  <2>4. QED
    BY <2>1, <2>2, <2>3 DEF FillVault
<1>3. QED
  BY <1>1, <1>2 DEF Fills

LEMMA SnippetFills ==
  ASSUME LInv, NEW w \in Windows, SaveSnippet(w)
  PROVE  Fills(w)
<1> DEFINE d == Top(w)
           scope == d.global
           owner == IF scope THEN None ELSE d.owner
           id == d.id
<1>1. Free(w) /\ UNCHANGED <<scene, view, loads, assign>>
  BY DEF SaveSnippet, At
<1>2. db' = SnippetsUpdate(db, id, scope, owner).db \/ db' = SnippetsCreate(db, scope, owner).db
  BY DEF SaveSnippet
<1> HIDE DEF scope, owner, id
<1>3. /\ Grows(db, SnippetsUpdate(db, id, scope, owner).db) /\ SameList(db, SnippetsUpdate(db, id, scope, owner).db)
      /\ Grows(db, SnippetsCreate(db, scope, owner).db) /\ SameList(db, SnippetsCreate(db, scope, owner).db)
  BY TablesNow, SnippetsGrow
<1>4. QED
  BY <1>1, <1>2, <1>3 DEF Fills

LEMMA ListsFill ==
  ASSUME LInv, NEW w \in Windows, SnippetList(w) \/ Tunnels(w)
  PROVE  Fills(w)
<1>1. Free(w) /\ UNCHANGED <<scene, view, loads, assign>>
  BY DEF SnippetList, Tunnels, AtTree
<1>2. Grows(db, db') /\ SameList(db, db')
  <2>1. CASE SnippetList(w)
    <3>1. (\E id \in DOMAIN db.snippets : db' = SnippetsDelete(db, id).db) \/ db' = SnippetsImport(db, 1).db
      BY <2>1 DEF SnippetList
    <3>2. QED
      BY <3>1, TablesNow, SnippetsGrow, SnippetsImportGrows
  <2>2. CASE Tunnels(w)
    <3>1. \/ \E s, auto : db' = TunnelsCreate(db, s, auto).db
          \/ \E t \in DOMAIN db.tunnels : db' = TunnelsSetAuto(db, t, ~db.tunnels[t].auto).db
          \/ \E t : db' = TunnelsDelete(db, t).db
      BY <2>2 DEF Tunnels
    <3>2. CASE \E s, auto : db' = TunnelsCreate(db, s, auto).db
      BY <3>2, TablesNow, TunnelsGrow
    <3>3. CASE \E t \in DOMAIN db.tunnels : db' = TunnelsSetAuto(db, t, ~db.tunnels[t].auto).db
      <4>1. PICK t : db' = TunnelsSetAuto(db, t, ~db.tunnels[t].auto).db
        BY <3>3
      <4> DEFINE auto == ~db.tunnels[t].auto
      <4>2. db' = TunnelsSetAuto(db, t, auto).db
        BY <4>1
      <4> HIDE DEF auto
      <4>3. QED
        BY <4>2, TablesNow, TunnelsGrow
    <3>4. CASE \E t : db' = TunnelsDelete(db, t).db
      BY <3>4, TablesNow, TunnelsGrow
    <3>5. QED
      BY <3>1, <3>2, <3>3, <3>4
  <2>3. QED
    BY <2>1, <2>2
<1>3. QED
  BY <1>1, <1>2 DEF Fills

LEMMA StepKinds ==
  ASSUME LInv, [Next]_vars
  PROVE  \/ Quiet
         \/ \E w \in Windows : \/ Asks(w) \/ Fills(w) \/ ConfirmDelete(w) \/ ReadTable(w) \/ Loaded(w)
                               \/ Apply(w) \/ AssignNext(w) \/ AssignDone(w)
<1>1. CASE FilesChange
  BY <1>1 DEF FilesChange, Quiet
<1>2. CASE UNCHANGED vars
  BY <1>2 DEF vars, libvars, Quiet
<1>3. ASSUME NEW w \in Windows,
             \/ ReadTable(w) \/ Loaded(w)
             \/ MoveToGroup(w) \/ CreateGroup(w) \/ RenameGroup(w) \/ AskDelete(w) \/ ConfirmDelete(w)
             \/ NewSession(w) \/ EditSession(w) \/ EditField(w) \/ ImportIntoForm(w) \/ SaveSession(w)
             \/ RememberCredentials(w)
             \/ OpenVault(w) \/ FillVault(w) \/ AskDeleteKey(w) \/ OpenPicker(w) \/ Toggle(w) \/ Apply(w)
             \/ AssignNext(w) \/ AssignDone(w)
             \/ Preview(w) \/ LocateKey(w) \/ CommitImport(w) \/ ExportBackup(w)
             \/ OpenSnippet(w) \/ ScopeToggle(w) \/ SaveSnippet(w) \/ SnippetList(w) \/ Tunnels(w)
             \/ PaneAsks(w) \/ PaneAnswered(w) \/ Cancel(w) \/ PressEscape(w)
      PROVE  \/ Quiet \/ Asks(w) \/ Fills(w) \/ ConfirmDelete(w) \/ ReadTable(w) \/ Loaded(w)
             \/ Apply(w) \/ AssignNext(w) \/ AssignDone(w)
  <2>1. CASE MoveToGroup(w) \/ CreateGroup(w) \/ RenameGroup(w) \/ RememberCredentials(w) \/ SaveSession(w) \/ CommitImport(w)
    BY <2>1, MoveAsks, GroupAsks, RememberAsks, SaveAsks, CommitAsks
  <2>2. CASE ImportIntoForm(w) \/ FillVault(w) \/ SaveSnippet(w) \/ SnippetList(w) \/ Tunnels(w)
    BY <2>2, FormFills, VaultFills, SnippetFills, ListsFill
  <2>3. CASE AskDelete(w) \/ NewSession(w) \/ EditSession(w) \/ EditField(w) \/ OpenVault(w) \/ AskDeleteKey(w)
    BY <2>3 DEF AskDelete, NewSession, EditSession, EditField, OpenVault, AskDeleteKey, libvars, Quiet
  <2>4. CASE OpenPicker(w) \/ Toggle(w) \/ Preview(w) \/ LocateKey(w) \/ ExportBackup(w) \/ OpenSnippet(w) \/ ScopeToggle(w)
    BY <2>4 DEF OpenPicker, Toggle, Preview, LocateKey, ExportBackup, OpenSnippet, ScopeToggle, libvars, Quiet
  <2>5. CASE PaneAsks(w) \/ PaneAnswered(w) \/ Cancel(w) \/ PressEscape(w)
    BY <2>5 DEF PaneAsks, PaneAnswered, Cancel, PressEscape, libvars, Quiet
  <2>6. QED
    BY <1>3, <2>1, <2>2, <2>3, <2>4, <2>5
<1>4. QED
  BY <1>1, <1>2, <1>3 DEF Next

-----------------------------------------------------------------------------
(* What is deleted was confirmed.                                          *)

(* The dialog that was confirmed goes, and says what goes with it.         *)
LEMMA Confirmed ==
  ASSUME LInv, NEW w \in Windows, ConfirmDelete(w)
  PROVE  /\ Free(w) /\ UNCHANGED <<scene, view, assign>>
         /\ \E what, id : Asked(what, id) /\ Delete(w, Confirm(what, id)) /\ Confirm(what, id).what = what
                                          /\ Confirm(what, id).id = id
<1> DEFINE s == dialogs[w]
           ks == DOMAIN db'.keys
           rest == Popped(s)
           keyless == [rest EXCEPT ![Len(rest)].keys = ks]
<1>1. PICK i \in DOMAIN s :
         /\ s[i].kind = "confirm" /\ (scene.calm => i = Len(s))
         /\ Delete(w, s[i])
         /\ dialogs' = [dialogs EXCEPT ![w] = rest] \/ dialogs' = [dialogs EXCEPT ![w] = keyless]
  BY DEF ConfirmDelete
<1>2. Stack(s) /\ \A j \in 1 .. Len(s) : DialogFits(s[j])
  BY DEF LInv, StacksGood, GoodStack
<1>3. Len(s) \in Nat /\ DOMAIN s = 1 .. Len(s) /\ s # <<>>
  BY <1>1, <1>2, StackFacts
<1>4. s[i] = Confirm(s[i].what, s[i].id)
  BY <1>1, <1>2, <1>3 DEF DialogFits
<1> DEFINE what == s[i].what
           id == s[i].id
<1>5. Stack(rest) /\ Len(rest) = Len(s) - 1
  BY <1>2, <1>3, PoppedStack DEF Popped
<1>6. dialogs'[w] = rest \/ dialogs'[w] = keyless
  BY <1>1 DEF LInv, StacksGood
<1>7. Len(rest) \in Nat /\ DOMAIN rest = 1 .. Len(rest)
  BY <1>5, StackFacts
<1> HIDE DEF rest
<1>8. Len(keyless) = Len(rest)
  <2>1. DOMAIN keyless = 1 .. Len(rest)
    BY <1>7
  <2>2. keyless = [j \in 1 .. Len(rest) |-> keyless[j]]
    BY <2>1
  <2>3. QED
    BY <1>7, <2>1, <2>2
<1> HIDE DEF keyless
<1>9. Len(dialogs'[w]) < Len(s)
  BY <1>3, <1>5, <1>6, <1>8
<1>10. Asked(what, id)
  BY <1>1, <1>4, <1>9 DEF Asked
<1>11. Delete(w, Confirm(what, id))
  BY <1>1, <1>4
<1>12. Confirm(what, id).what = what /\ Confirm(what, id).id = id
  BY DEF Confirm
<1>13. Free(w) /\ UNCHANGED <<scene, view, assign>>
  BY DEF ConfirmDelete
<1> HIDE DEF what, id
<1>14. QED
  BY <1>10, <1>11, <1>12, <1>13

(* The three kinds of a deletion.                                          *)
LEMMA DeleteKinds ==
  ASSUME NEW w \in Windows, NEW what, NEW id, Delete(w, Confirm(what, id)),
         Confirm(what, id).what = what, Confirm(what, id).id = id
  PROVE  \/ what = "session" /\ \E then : Send(w, SessionsDelete(db, id), then)
         \/ what = "group" /\ \E then : Send(w, GroupsDelete(db, id), then)
         \/ what = "key" /\ db' = KeysDelete(db, id).db /\ UNCHANGED loads
<1>1. QED
  BY DEF Delete

Taken ==
  /\ \A s \in DOMAIN db.sessions \ DOMAIN db'.sessions : Asked("session", s)
  /\ \A g \in DOMAIN db.groups \ DOMAIN db'.groups :
        \E top \in DOMAIN db.groups : g \in Under(db, top) /\ Asked("group", top)
  /\ \A k \in DOMAIN db.keys \ DOMAIN db'.keys : Asked("key", k)

LEMMA NothingTaken ==
  ASSUME Grows(db, db')
  PROVE  Taken
<1>1. /\ DOMAIN db["sessions"] \subseteq DOMAIN db'["sessions"]
      /\ DOMAIN db["groups"] \subseteq DOMAIN db'["groups"]
      /\ DOMAIN db["keys"] \subseteq DOMAIN db'["keys"]
  BY DEF Grows, UserTables
<1>2. QED
  BY <1>1 DEF Taken

LEMMA ConfirmedTaken ==
  ASSUME LInv, NEW w \in Windows, ConfirmDelete(w)
  PROVE  Taken
<1>1. PICK what, id : /\ Asked(what, id) /\ Delete(w, Confirm(what, id))
                      /\ Confirm(what, id).what = what /\ Confirm(what, id).id = id
  BY Confirmed
<1>2. TablesTyped(db) /\ RowsResolve(db)
  BY TablesNow
<1>3. CASE what = "session" /\ \E then : Send(w, SessionsDelete(db, id), then)
  <2> DEFINE e == SessionsDelete(db, id).db
  <2>1. db' = e
    BY <1>3 DEF Send
  <2>2. DOMAIN db.sessions \ DOMAIN e.sessions \subseteq {id} /\ e.groups = db.groups /\ e.keys = db.keys
    BY <1>2, SessionsDeleteTakes
  <2> HIDE DEF e
  <2>3. QED
    BY <1>1, <1>3, <2>1, <2>2 DEF Taken
<1>4. CASE what = "group" /\ \E then : Send(w, GroupsDelete(db, id), then)
  <2> DEFINE e == GroupsDelete(db, id).db
  <2>1. db' = e
    BY <1>4 DEF Send
  <2>2. /\ DOMAIN e.sessions = DOMAIN db.sessions /\ e.keys = db.keys
        /\ DOMAIN db.groups \ DOMAIN e.groups \subseteq Under(db, id)
    BY <1>2, GroupsDeleteTakes
  <2>3. Under(db, id) # {} => id \in DOMAIN db.groups
    BY <1>2, UnderNamed
  <2> HIDE DEF e
  <2>4. QED
    BY <1>1, <1>4, <2>1, <2>2, <2>3 DEF Taken
<1>5. CASE what = "key" /\ db' = KeysDelete(db, id).db /\ UNCHANGED loads
  <2> DEFINE e == KeysDelete(db, id).db
  <2>1. db' = e
    BY <1>5
  <2>2. DOMAIN e.sessions = DOMAIN db.sessions /\ DOMAIN e.keys = DOMAIN db.keys \ {id} /\ e.groups = db.groups
    BY <1>2, KeysDeleteTakes
  <2> HIDE DEF e
  <2>3. QED
    BY <1>1, <1>5, <2>1, <2>2 DEF Taken
<1>6. QED
  BY <1>1, <1>3, <1>4, <1>5, DeleteKinds

LEMMA AssignGrows ==
  ASSUME LInv, NEW w \in Windows, AssignNext(w)
  PROVE  Grows(db, db')
<1>1. PICK s, patch, then : Send(w, SessionsUpdate(db, s, patch), then)
  BY DEF AssignNext
<1>2. AllOrNothing(db, SessionsUpdate(db, s, patch))
  BY TablesNow, SessionsUpdateGrows
<1>3. QED
  BY <1>1, <1>2 DEF Send, AllOrNothing

LEMMA StepTakes ==
  ASSUME LInv, [Next]_vars
  PROVE  Taken
<1>1. ASSUME db' = db PROVE Taken
  BY <1>1, TablesNow, NothingGrows, NothingTaken
<1>2. CASE Quiet
  BY <1>1, <1>2 DEF Quiet
<1>3. ASSUME NEW w \in Windows, Asks(w) \/ Fills(w) PROVE Taken
  <2>1. Grows(db, db')
    BY <1>3 DEF Asks, Fills, Send
  <2>2. QED
    BY <2>1, NothingTaken
<1>4. ASSUME NEW w \in Windows, ReadTable(w) \/ Loaded(w) \/ Apply(w) \/ AssignDone(w) PROVE Taken
  <2>1. db' = db
    BY <1>4 DEF ReadTable, Loaded, Apply, AssignDone
  <2>2. QED
    BY <1>1, <2>1
<1>5. ASSUME NEW w \in Windows, AssignNext(w) PROVE Taken
  BY <1>5, AssignGrows, NothingTaken
<1>6. ASSUME NEW w \in Windows, ConfirmDelete(w) PROVE Taken
  BY <1>6, ConfirmedTaken
<1>7. QED
  BY <1>2, <1>3, <1>4, <1>5, <1>6, StepKinds

(* A session, a group or a key goes only because its own deletion was      *)
(* confirmed, or, for a group, that of a group it lies under: no import,   *)
(* scan, edit or cascade takes one, and a group that another window has    *)
(* deleted already takes none with it (SessionTree, KeyVaultDialog,        *)
(* schema.ts).                                                             *)
THEOREM OnlyConfirmedDeletes == Spec => DeletesAsConfirmed
<1>1. Init => LInv
  BY LibraryStarts
<1>2. LInv /\ [Next]_vars => LInv'
  BY LibraryStep
<1>3. LInv /\ [Next]_vars => [Taken]_vars
  BY StepTakes
<1>4. QED
  BY <1>1, <1>2, <1>3, PTL DEF Spec, DeletesAsConfirmed, Taken

-----------------------------------------------------------------------------
(* The list of a window and the tables.                                    *)

(* Nobody is at a window that is not there; and between the two answers of *)
(* a load nothing is written where there is no other window.               *)
Deserted == \A w \in Windows : ~ Here(w) => loads[w] = <<>> /\ assign[w] = NoAssign
TreeFits(w) == Hangs(view[w]) /\ \A i \in 1 .. Len(loads[w]) : LoadHangs(loads[w][i], db)
TreesFit == Alone => \A w \in Windows : TreeFits(w)

(* A calm user's only window has at most one load under way, the load of   *)
(* the assignment if one is under way; and it has it, or shows the tables. *)
Synced(w) ==
  /\ Len(loads[w]) <= 1
  /\ \A i \in 1 .. Len(loads[w]) : LoadFresh(loads[w][i], db) /\ (assign[w] # NoAssign => loads[w][i].then = "assign")
  /\ \A s \in DOMAIN view[w].sessions : view[w].sessions[s].key < db.next["keys"]
  /\ loads[w] = <<>> => ShownIn(view[w].sessions, DOMAIN db.keys) = db.sessions /\ view[w].groups = db.groups

Calmly == scene.calm /\ Alone /\ ForeignOnly
InSync == Calmly => \A w \in Windows : Here(w) => Synced(w)

WInv == LInv /\ IsTable(db["sessions"]) /\ Deserted /\ TreesFit /\ InSync

LEMMA SameShown == \A rows : Shown(rows) = ShownIn(rows, DOMAIN db.keys)
<1>1. QED
  BY DEF Shown, ShownIn, RowWith

-----------------------------------------------------------------------------
(* The steps that write or may write.                                      *)
Requested(w) ==
  /\ Here(w) /\ Handled(w) /\ UNCHANGED <<scene, view>>
  /\ loads' = loads \/ \E then : loads' = [loads EXCEPT ![w] = Append(loads[w], Load(then))]
  /\ \A v \in Windows \ {w} : assign'[v] = assign[v]

LEMMA SentOn ==
  ASSUME NEW w \in Windows, NEW r, NEW then, Send(w, r, then)
  PROVE  loads' = loads \/ \E k : loads' = [loads EXCEPT ![w] = Append(loads[w], Load(k))]
<1>1. QED
  BY DEF Send

LEMMA AssignPresent ==
  ASSUME Deserted, NEW w \in Windows, assign[w].todo # <<>>
  PROVE  Here(w) /\ assign[w] # NoAssign
<1>1. QED
  BY DEF Deserted, NoAssign

LEMMA RequestKinds ==
  ASSUME WInv, NEW w \in Windows, Asks(w) \/ Fills(w) \/ ConfirmDelete(w) \/ AssignNext(w)
  PROVE  Requested(w)
<1>1. CASE Asks(w)
  BY <1>1, SentOn DEF Asks, Free, Requested
<1>2. CASE Fills(w)
  BY <1>2 DEF Fills, Free, Requested
<1>3. CASE ConfirmDelete(w)
  <2>1. PICK what, id : /\ Delete(w, Confirm(what, id))
                        /\ Confirm(what, id).what = what /\ Confirm(what, id).id = id
    BY <1>3, Confirmed DEF WInv
  <2>2. loads' = loads \/ \E k : loads' = [loads EXCEPT ![w] = Append(loads[w], Load(k))]
    <3>1. CASE \E then : Send(w, SessionsDelete(db, id), then)
      BY <3>1, SentOn
    <3>2. CASE \E then : Send(w, GroupsDelete(db, id), then)
      BY <3>2, SentOn
    <3>3. CASE UNCHANGED loads
      BY <3>3
    <3>4. QED
      BY <2>1, <3>1, <3>2, <3>3, DeleteKinds
  <2>3. Free(w) /\ UNCHANGED <<scene, view, assign>>
    BY <1>3, Confirmed DEF WInv
  <2>4. QED
    BY <2>2, <2>3 DEF Free, Requested
<1>4. CASE AssignNext(w)
  <2>1. \E r, then : Send(w, r, then)
    BY <1>4 DEF AssignNext
  <2>2. Here(w) /\ Handled(w) /\ UNCHANGED <<scene, view>>
    BY <1>4, AssignPresent DEF AssignNext, WInv
  <2>3. \A v \in Windows \ {w} : assign'[v] = assign[v]
    <3>1. PICK e : assign' = [assign EXCEPT ![w] = e]
      BY <1>4 DEF AssignNext
    <3>2. QED
      BY <3>1 DEF WInv, LInv, TasksGood
  <2>4. QED
    BY <2>1, <2>2, <2>3, SentOn DEF Requested
<1>5. QED
  BY <1>1, <1>2, <1>3, <1>4

(* The loads of the windows after a request.                               *)
LEMMA RequestedLoads ==
  ASSUME LInv, NEW w \in Windows, Requested(w)
  PROVE  /\ \A v \in Windows \ {w} : loads'[v] = loads[v]
         /\ \A i \in 1 .. Len(loads'[w]) :
               \/ i \in 1 .. Len(loads[w]) /\ loads'[w][i] = loads[w][i] /\ loads[w][i].read = 2
               \/ loads'[w][i].read = 0
<1> DEFINE q == loads[w]
<1>1. Stack(q) /\ Len(q) \in Nat /\ DOMAIN q = 1 .. Len(q)
  BY StackFacts DEF LInv, LoadsGood, GoodLoads
<1>2. \A i \in 1 .. Len(q) : q[i].read = 2
  BY <1>1 DEF Requested, Handled
<1>3. DOMAIN loads = Windows
  BY DEF LInv, LoadsGood
<1>4. CASE loads' = loads
  BY <1>2, <1>4
<1>5. CASE \E then : loads' = [loads EXCEPT ![w] = Append(q, Load(then))]
  <2>1. PICK then : loads' = [loads EXCEPT ![w] = Append(q, Load(then))]
    BY <1>5
  <2> DEFINE l == Load(then)
             r == Append(q, l)
  <2>2. l.read = 0
    BY DEF Load
  <2> HIDE DEF l
  <2>3. Len(r) = Len(q) + 1 /\ (\A i \in 1 .. Len(q) : r[i] = q[i]) /\ r[Len(q) + 1] = l
    BY <1>1, PushedStack
  <2>4. loads'[w] = r /\ \A v \in Windows \ {w} : loads'[v] = loads[v]
    BY <1>3, <2>1 DEF l
  <2> HIDE DEF r
  <2>5. \A i \in 1 .. Len(r) : i \in 1 .. Len(q) \/ i = Len(q) + 1
    BY <1>1, <2>3
  <2> HIDE DEF q
  <2>6. \A i \in 1 .. Len(r) : (i \in 1 .. Len(q) /\ r[i] = q[i] /\ q[i].read = 2) \/ r[i].read = 0
    BY <1>2, <2>2, <2>3, <2>5
  <2>7. QED
    BY <2>4, <2>6 DEF q
<1>6. QED
  BY <1>4, <1>5 DEF Requested

(* Only at a window that is there something happens.                       *)
LEMMA ActorHere ==
  ASSUME Deserted, NEW w \in Windows, ReadTable(w) \/ Loaded(w) \/ Apply(w) \/ AssignDone(w)
  PROVE  Here(w)
<1>1. CASE ReadTable(w)
  <2>1. PICK i \in DOMAIN loads[w] : TRUE
    BY <1>1 DEF ReadTable
  <2>2. DOMAIN <<>> = {}
    OBVIOUS
  <2>3. loads[w] # <<>>
    BY <2>1, <2>2
  <2>4. QED
    BY <2>3 DEF Deserted
<1>2. CASE Loaded(w)
  BY <1>2 DEF Loaded, Deserted
<1>3. CASE Apply(w)
  BY <1>3 DEF Apply, At, Free
<1>4. CASE AssignDone(w)
  BY <1>4 DEF AssignDone, Deserted
<1>5. QED
  BY <1>1, <1>2, <1>3, <1>4

(* Where there is no window nothing is under way.                          *)
LEMMA DesertedOn ==
  ASSUME WInv, [Next]_vars
  PROVE  Deserted'
<1>0. DOMAIN loads = Windows /\ DOMAIN assign = Windows
  BY DEF WInv, LInv, LoadsGood, TasksGood
<1>a. ASSUME scene' = scene, NEW w \in Windows, Here(w),
             \A v \in Windows \ {w} : loads'[v] = loads[v] /\ assign'[v] = assign[v]
      PROVE  Deserted'
  BY <1>a, SceneKept DEF Deserted, WInv
<1>1. CASE Quiet
  BY <1>1, SceneKept DEF Quiet, Deserted, WInv
<1>2. ASSUME NEW w \in Windows, Asks(w) \/ Fills(w) \/ ConfirmDelete(w) \/ AssignNext(w) PROVE Deserted'
  <2>1. Requested(w)
    BY <1>2, RequestKinds
  <2>2. QED
    BY <1>a, <2>1, RequestedLoads DEF Requested, WInv
<1>3. ASSUME NEW w \in Windows, ReadTable(w) \/ Loaded(w) PROVE Deserted'
  <2>1. PICK q : loads' = [loads EXCEPT ![w] = q]
    BY <1>3 DEF ReadTable, Loaded
  <2>2. UNCHANGED <<scene, assign>>
    BY <1>3 DEF ReadTable, Loaded
  <2>3. Here(w)
    BY <1>3, ActorHere DEF WInv
  <2>4. QED
    BY <1>0, <1>a, <2>1, <2>2, <2>3
<1>4. ASSUME NEW w \in Windows, Apply(w) PROVE Deserted'
  <2>1. Here(w) /\ UNCHANGED <<scene, loads>>
    BY <1>4, ActorHere DEF Apply, WInv
  <2>2. PICK e : assign' = [assign EXCEPT ![w] = e]
    BY <1>4 DEF Apply
  <2>3. QED
    BY <1>0, <1>a, <2>1, <2>2
<1>5. ASSUME NEW w \in Windows, AssignDone(w) PROVE Deserted'
  <2>1. UNCHANGED <<scene, loads>> /\ assign' = [assign EXCEPT ![w] = NoAssign]
    BY <1>5 DEF AssignDone
  <2>2. Here(w)
    BY <1>5, ActorHere DEF WInv
  <2>3. QED
    BY <1>0, <1>a, <2>1, <2>2
<1>6. QED
  BY <1>1, <1>2, <1>3, <1>4, <1>5, StepKinds DEF WInv

(* The only window there is.                                               *)
LEMMA OnlyWindow ==
  ASSUME Alone, NEW v \in Windows, NEW w \in Windows, Here(v), Here(w)
  PROVE  v = w
<1>1. PICK x : scene.windows = {x}
  BY DEF Alone
<1>2. v \in scene.windows /\ w \in scene.windows
  BY DEF Here
<1>3. QED
  BY <1>1, <1>2

LEMMA LoadShapes ==
  ASSUME LInv, NEW w \in Windows
  PROVE  /\ Stack(loads[w]) /\ Len(loads[w]) \in Nat /\ DOMAIN loads[w] = 1 .. Len(loads[w])
         /\ \A i \in 1 .. Len(loads[w]) : LoadFits(loads[w][i]) /\ loads[w][i].read \in 0 .. 2
         /\ loads[w] = <<>> => Len(loads[w]) = 0
<1>1. GoodLoads(loads[w])
  BY DEF LInv, LoadsGood
<1>2. QED
  BY <1>1, StackFacts, EmptyStack DEF GoodLoads, LoadFits

(* One answer of a load: what was there is as it was.                      *)
LEMMA ReadOne ==
  ASSUME LInv, NEW w \in Windows, ReadTable(w)
  PROVE  \E i, d :
           /\ i \in 1 .. Len(loads[w]) /\ Len(loads'[w]) = Len(loads[w])
           /\ \A j \in 1 .. Len(loads[w]) : loads'[w][j] = IF j = i THEN d ELSE loads[w][j]
           /\ d.then = loads[w][i].then
           /\ \/ d.read = 1 /\ d.sessions = db.sessions
              \/ loads[w][i].read = 1 /\ d.read = 2 /\ d.sessions = loads[w][i].sessions /\ d.groups = db.groups
<1> DEFINE q == loads[w]
           rows == db.sessions
           grps == db.groups
<1>1. Stack(q) /\ DOMAIN q = 1 .. Len(q) /\ DOMAIN loads = Windows
  BY LoadShapes DEF LInv, LoadsGood
<1>2. PICK i \in DOMAIN q :
         /\ q[i].read < 2
         /\ loads' = [loads EXCEPT ![w][i] = IF q[i].read = 0 THEN [q[i] EXCEPT !.read = 1, !.sessions = rows]
                                             ELSE [q[i] EXCEPT !.read = 2, !.groups = grps]]
  BY DEF ReadTable
<1> DEFINE l == q[i]
           d == IF l.read = 0 THEN [l EXCEPT !.read = 1, !.sessions = rows]
                ELSE [l EXCEPT !.read = 2, !.groups = grps]
           r == [q EXCEPT ![i] = d]
<1>3. loads'[w] = r
  BY <1>1, <1>2
<1>4. LoadFits(l) /\ l.read < 2
  BY <1>1, <1>2, LoadShapes
<1> HIDE DEF l, rows, grps
<1>5. /\ d.then = l.then
      /\ \/ d.read = 1 /\ d.sessions = rows
         \/ l.read = 1 /\ d.read = 2 /\ d.sessions = l.sessions /\ d.groups = grps
  <2>1. {"read", "sessions", "groups", "then"} \subseteq DOMAIN l /\ l.read \in 0 .. 2
    BY <1>4 DEF LoadFits
  <2>2. CASE l.read = 0
    <3> DEFINE e == [l EXCEPT !.read = 1, !.sessions = rows]
    <3>1. e.read = 1 /\ e.sessions = rows /\ e.then = l.then
      BY <2>1
    <3>2. d = e
      BY <2>2
    <3> HIDE DEF d, e
    <3>3. QED
      BY <3>1, <3>2
  <2>3. CASE l.read # 0
    <3> DEFINE e == [l EXCEPT !.read = 2, !.groups = grps]
    <3>1. e.read = 2 /\ e.groups = grps /\ e.then = l.then /\ e.sessions = l.sessions
      BY <2>1
    <3>2. d = e
      BY <2>3
    <3>3. l.read = 1
      BY <1>4, <2>1, <2>3
    <3> HIDE DEF d, e
    <3>4. QED
      BY <3>1, <3>2, <3>3
  <2>4. QED
    BY <2>2, <2>3
<1> HIDE DEF d
<1>6. Len(r) = Len(q) /\ \A j \in 1 .. Len(q) : r[j] = IF j = i THEN d ELSE q[j]
  BY <1>1, ChangedStack
<1>7. i \in 1 .. Len(q)
  BY <1>1
<1>8. Len(loads'[w]) = Len(q) /\ \A j \in 1 .. Len(q) : loads'[w][j] = IF j = i THEN d ELSE q[j]
  BY <1>3, <1>6
<1> HIDE DEF r, q
<1>9. QED
  BY <1>5, <1>7, <1>8 DEF l, q, rows, grps

(* A load that is taken: the store holds what it brought.                  *)
LEMMA TakenLoad ==
  ASSUME LInv, NEW w \in Windows, Loaded(w)
  PROVE  LET l == loads[w][1]
         IN  /\ l.read = 2 /\ 1 \in 1 .. Len(loads[w])
             /\ view'[w].sessions = l.sessions /\ view'[w].groups = l.groups
             /\ Len(loads'[w]) = Len(loads[w]) - 1
             /\ \A i \in 1 .. (Len(loads[w]) - 1) : loads'[w][i] = loads[w][i + 1] /\ i + 1 \in 1 .. Len(loads[w])
<1> DEFINE q == loads[w]
           l == Head(q)
<1>1. /\ q # <<>> /\ l.read = 2 /\ loads' = [loads EXCEPT ![w] = Tail(q)]
      /\ view' = [view EXCEPT ![w] = [sessions |-> l.sessions, groups |-> l.groups]]
  BY DEF Loaded
<1>2. Stack(q) /\ DOMAIN loads = Windows /\ DOMAIN view = Windows
  BY LoadShapes DEF LInv, LoadsGood, ViewsGood
<1>3. /\ Len(Tail(q)) = Len(q) - 1 /\ l = q[1] /\ 1 \in 1 .. Len(q)
      /\ \A i \in 1 .. (Len(q) - 1) : Tail(q)[i] = q[i + 1] /\ i + 1 \in 1 .. Len(q)
  BY <1>1, <1>2, TailStack
<1>4. loads'[w] = Tail(q) /\ view'[w].sessions = l.sessions /\ view'[w].groups = l.groups
  BY <1>1, <1>2
<1> HIDE DEF l
<1>5. QED
  BY <1>1, <1>3, <1>4

(* The tree is whole.                                                      *)
LEMMA HungTables ==
  ASSUME LInv, NEW l, l.sessions = db.sessions, l.groups = db.groups
  PROVE  Hangs(l)
<1>1. QED
  BY TablesNow DEF RowsResolve, Fits, Hangs

LEMMA TreesOn ==
  ASSUME WInv, LInv', [Next]_vars
  PROVE  TreesFit'
<1> SUFFICES ASSUME Alone', NEW v \in Windows PROVE TreeFits(v)'
  BY DEF TreesFit
<1>a. ASSUME scene' = scene PROVE TreeFits(v) /\ Alone
  BY <1>a, SceneKept DEF TreesFit, WInv
<1>1. CASE Quiet
  BY <1>1, <1>a DEF Quiet, TreeFits
<1>2. ASSUME NEW w \in Windows, Asks(w) \/ Fills(w) \/ ConfirmDelete(w) \/ AssignNext(w) PROVE TreeFits(v)'
  <2>1. Requested(w) /\ LInv
    BY <1>2, RequestKinds DEF WInv
  <2>2. TreeFits(v) /\ Alone /\ Here(w) /\ view'[v] = view[v]
    BY <1>a, <2>1 DEF Requested
  <2>3. CASE v = w
    <3>1. ASSUME NEW i \in 1 .. Len(loads'[w]) PROVE LoadHangs(loads'[w][i], db')
      <4> DEFINE l == loads'[w][i]
      <4>1. CASE i \in 1 .. Len(loads[w]) /\ l = loads[w][i] /\ loads[w][i].read = 2
        BY <2>2, <2>3, <4>1 DEF TreeFits, LoadHangs
      <4>2. CASE l.read = 0
        <5> HIDE DEF l
        <5>1. LoadHangs(l, db')
          BY <4>2 DEF LoadHangs
        <5>2. QED
          BY <5>1 DEF l
      <4>3. QED
        BY <2>1, <4>1, <4>2, RequestedLoads
    <3>2. QED
      BY <2>2, <2>3, <3>1 DEF TreeFits
  <2>4. CASE v # w
    <3>1. loads'[v] = loads[v]
      BY <2>1, <2>4, RequestedLoads
    <3>2. loads[v] = <<>>
      <4>1. ~ Here(v)
        BY <2>2, <2>4, OnlyWindow
      <4>2. QED
        BY <4>1 DEF Deserted, WInv
    <3>3. Len(loads'[v]) = 0
      BY <2>1, <3>1, <3>2, LoadShapes
    <3>4. \A i \in 1 .. Len(loads'[v]) : FALSE
      BY <3>3
    <3>5. QED
      BY <2>2, <3>4 DEF TreeFits
  <2>5. QED
    BY <2>3, <2>4
<1>3. ASSUME NEW w \in Windows, ReadTable(w) PROVE TreeFits(v)'
  <2>1. UNCHANGED <<scene, db, view>> /\ LInv
    BY <1>3 DEF ReadTable, WInv
  <2>2. TreeFits(v) /\ TreeFits(w)
    BY <1>a, <2>1, SceneKept DEF WInv, TreesFit
  <2>3. CASE v = w
    <3>1. PICK i, d :
           /\ i \in 1 .. Len(loads[w]) /\ Len(loads'[w]) = Len(loads[w])
           /\ \A j \in 1 .. Len(loads[w]) : loads'[w][j] = IF j = i THEN d ELSE loads[w][j]
           /\ \/ d.read = 1 /\ d.sessions = db.sessions
              \/ loads[w][i].read = 1 /\ d.read = 2 /\ d.sessions = loads[w][i].sessions /\ d.groups = db.groups
      BY <1>3, <2>1, ReadOne
    <3>2. LoadHangs(d, db)
      <4>1. CASE d.read = 1 /\ d.sessions = db.sessions
        BY <4>1 DEF LoadHangs
      <4>2. CASE loads[w][i].read = 1 /\ d.read = 2 /\ d.sessions = loads[w][i].sessions /\ d.groups = db.groups
        <5>1. loads[w][i].sessions = db.sessions
          BY <2>2, <3>1, <4>2 DEF TreeFits, LoadHangs
        <5>2. Hangs(d)
          BY <2>1, <4>2, <5>1, HungTables
        <5>3. QED
          BY <4>2, <5>2 DEF LoadHangs
      <4>3. QED
        BY <3>1, <4>1, <4>2
    <3>3. \A j \in 1 .. Len(loads'[w]) : LoadHangs(loads'[w][j], db)
      BY <2>2, <3>1, <3>2 DEF TreeFits
    <3>4. QED
      BY <2>1, <2>2, <2>3, <3>3 DEF TreeFits
  <2>4. CASE v # w
    <3>1. loads'[v] = loads[v]
      <4>1. PICK q : loads' = [loads EXCEPT ![w] = q]
        BY <1>3 DEF ReadTable
      <4>2. QED
        BY <2>1, <2>4, <4>1 DEF LInv, LoadsGood
    <3>2. QED
      BY <2>1, <2>2, <3>1 DEF TreeFits
  <2>5. QED
    BY <2>3, <2>4
<1>4. ASSUME NEW w \in Windows, Loaded(w) PROVE TreeFits(v)'
  <2>1. UNCHANGED <<scene, db>> /\ LInv
    BY <1>4 DEF Loaded, WInv
  <2>2. TreeFits(v) /\ TreeFits(w)
    BY <1>a, <2>1, SceneKept DEF WInv, TreesFit
  <2>3. CASE v = w
    <3> DEFINE l == loads[w][1]
    <3>1. /\ l.read = 2 /\ 1 \in 1 .. Len(loads[w])
          /\ view'[w].sessions = l.sessions /\ view'[w].groups = l.groups
          /\ Len(loads'[w]) = Len(loads[w]) - 1
          /\ \A i \in 1 .. (Len(loads[w]) - 1) : loads'[w][i] = loads[w][i + 1] /\ i + 1 \in 1 .. Len(loads[w])
      BY <1>4, <2>1, TakenLoad
    <3>2. Hangs(l)
      BY <2>2, <3>1 DEF TreeFits, LoadHangs
    <3> HIDE DEF l
    <3>3. Hangs(view'[w])
      BY <3>1, <3>2 DEF Hangs
    <3>4. \A i \in 1 .. Len(loads'[w]) : LoadHangs(loads'[w][i], db)
      BY <2>2, <3>1 DEF TreeFits
    <3>5. QED
      BY <2>1, <2>3, <3>3, <3>4 DEF TreeFits
  <2>4. CASE v # w
    <3>1. loads'[v] = loads[v] /\ view'[v] = view[v]
      <4>1. PICK q, c : loads' = [loads EXCEPT ![w] = q] /\ view' = [view EXCEPT ![w] = c]
        BY <1>4 DEF Loaded
      <4>2. QED
        BY <2>1, <2>4, <4>1 DEF LInv, LoadsGood, ViewsGood
    <3>2. QED
      BY <2>1, <2>2, <3>1 DEF TreeFits
  <2>5. QED
    BY <2>3, <2>4
<1>5. ASSUME NEW w \in Windows, Apply(w) \/ AssignDone(w) PROVE TreeFits(v)'
  <2>1. UNCHANGED <<scene, db, view, loads>>
    BY <1>5 DEF Apply, AssignDone
  <2>2. QED
    BY <1>a, <2>1 DEF TreeFits
<1>6. QED
  BY <1>1, <1>2, <1>3, <1>4, <1>5, StepKinds DEF WInv

-----------------------------------------------------------------------------
(* A calm user's window shows the tables.                                  *)

LEMMA CalmFree ==
  ASSUME WInv, Calmly, NEW w \in Windows, Free(w)
  PROVE  Synced(w) /\ loads[w] = <<>> /\ assign[w] = NoAssign
<1>1. QED
  BY DEF Free, Settled, Calmly, WInv, InSync

(* A request of a window with nothing under way is followed by its load,   *)
(* or was refused.                                                         *)
LEMMA SentInSync ==
  ASSUME LInv, LInv', NEW w \in Windows, Synced(w), loads[w] = <<>>, NEW r, NEW then, Send(w, r, then),
         r.ok \/ r.db = db, db.next["keys"] <= db'.next["keys"], view' = view,
         assign'[w] # NoAssign => then = "assign"
  PROVE  Synced(w)'
<1>1. db' = r.db /\ db.next["keys"] \in Nat /\ db'.next["keys"] \in Nat
  BY TablesNow, NextKey DEF Send, LInv, TablesGood, GoodTables
<1>2. ASSUME NEW s \in DOMAIN view[w].sessions PROVE view[w].sessions[s].key < db'.next["keys"]
  <2>1. view[w].sessions[s].key \in Nat
    BY ViewFacts, RowWithFacts
  <2>2. view[w].sessions[s].key < db.next["keys"]
    BY DEF Synced
  <2>3. QED
    BY <1>1, <2>1, <2>2
<1>3. CASE r.ok
  <2> DEFINE l == Load(then)
  <2>1. loads' = [loads EXCEPT ![w] = Append(<<>>, l)]
    BY <1>3 DEF Send
  <2>2. l.read = 0 /\ l.then = then
    BY DEF Load
  <2> HIDE DEF l
  <2>3. loads'[w] = Append(<<>>, l)
    BY <2>1 DEF LInv, LoadsGood
  <2>4. Len(Append(<<>>, l)) = 1 /\ Append(<<>>, l)[1] = l
    BY EmptyStack, PushedStack
  <2>5. Len(loads'[w]) = 1 /\ loads'[w][1] = l
    BY <2>3, <2>4
  <2>6. loads'[w] # <<>>
    BY <2>5, EmptyStack
  <2>7. LoadFresh(l, db') /\ (assign'[w] # NoAssign => l.then = "assign")
    BY <2>2 DEF LoadFresh
  <2>8. \A i \in 1 .. Len(loads'[w]) : i = 1
    BY <2>5
  <2>9. QED
    BY <1>2, <2>5, <2>6, <2>7, <2>8 DEF Synced
<1>4. CASE ~ r.ok
  <2>1. loads' = loads /\ db' = db
    BY <1>1, <1>4 DEF Send
  <2>2. Len(loads'[w]) = 0
    BY <2>1, EmptyStack
  <2>3. \A i \in 1 .. Len(loads'[w]) : FALSE
    BY <2>2
  <2>4. QED
    BY <2>1, <2>2, <2>3 DEF Synced
<1>5. QED
  BY <1>3, <1>4

LEMMA AsksInSync ==
  ASSUME WInv, LInv', Calmly, NEW w \in Windows, Asks(w)
  PROVE  Synced(w)'
<1>1. Synced(w) /\ loads[w] = <<>> /\ assign[w] = NoAssign
  BY CalmFree DEF Asks
<1>2. PICK r, then : Send(w, r, then) /\ Grows(db, r.db) /\ (r.ok \/ r.db = db)
  BY DEF Asks, Calmly
<1>3. db.next["keys"] <= db'.next["keys"]
  BY <1>2 DEF Send, Grows
<1>4. view' = view /\ assign'[w] = NoAssign
  BY <1>1 DEF Asks
<1>5. QED
  BY <1>1, <1>2, <1>3, <1>4, SentInSync DEF WInv

LEMMA FillsInSync ==
  ASSUME WInv, LInv', Calmly, NEW w \in Windows, Fills(w)
  PROVE  Synced(w)'
<1>1. Synced(w) /\ loads[w] = <<>>
  BY CalmFree DEF Fills
<1>2. Grows(db, db') /\ SameList(db, db') /\ UNCHANGED <<view, loads>>
  BY DEF Fills
<1> DEFINE rows == view[w].sessions
<1>3. RowsFit(rows) /\ \A s \in DOMAIN rows : rows[s].key < db.next["keys"] /\ rows[s].key \in Nat
  BY <1>1, ViewFacts, RowWithFacts DEF WInv, LInv, ViewsGood, CopyFits, Synced
<1>4. /\ TablesTyped(db) /\ db.next["keys"] \in Nat /\ db'.next["keys"] \in Nat
      /\ db.next["keys"] <= db'.next["keys"]
  BY <1>2, TablesNow, NextKey DEF WInv, Grows, LInv, TablesGood, GoodTables
<1> HIDE DEF rows
<1>5. ShownIn(rows, DOMAIN db'.keys) = ShownIn(rows, DOMAIN db.keys)
  BY <1>2, <1>3, <1>4, ShownGrows
<1>6. \A s \in DOMAIN rows : rows[s].key < db'.next["keys"]
  BY <1>3, <1>4
<1>7. Len(loads'[w]) = 0 /\ loads'[w] = <<>>
  BY <1>1, <1>2, EmptyStack
<1>8. \A i \in 1 .. Len(loads'[w]) : FALSE
  BY <1>7
<1>9. QED
  BY <1>1, <1>2, <1>5, <1>6, <1>7, <1>8 DEF Synced, SameList, rows

LEMMA DeletesInSync ==
  ASSUME WInv, LInv', Calmly, NEW w \in Windows, ConfirmDelete(w)
  PROVE  Synced(w)'
<1>1. PICK what, id : /\ Delete(w, Confirm(what, id))
                      /\ Confirm(what, id).what = what /\ Confirm(what, id).id = id
  BY Confirmed DEF WInv
<1>2. Free(w) /\ UNCHANGED <<scene, view, assign>>
  BY Confirmed DEF WInv
<1>3. Synced(w) /\ loads[w] = <<>> /\ assign'[w] = NoAssign /\ LInv
  BY <1>2, CalmFree DEF WInv
<1>4. TablesTyped(db) /\ db.next["keys"] \in Nat
  BY <1>3, TablesNow, NextKey
<1>5. CASE \E then : Send(w, SessionsDelete(db, id), then)
  <2> DEFINE r == SessionsDelete(db, id)
  <2>1. (r.ok \/ r.db = db) /\ r.db.next = db.next
    BY <1>4, SessionsDeleteTakes
  <2>2. PICK then : Send(w, r, then)
    BY <1>5
  <2> HIDE DEF r
  <2>3. db.next["keys"] <= db'.next["keys"]
    BY <1>4, <2>1, <2>2 DEF Send
  <2>4. QED
    BY <1>2, <1>3, <2>1, <2>2, <2>3, SentInSync
<1>6. CASE \E then : Send(w, GroupsDelete(db, id), then)
  <2> DEFINE r == GroupsDelete(db, id)
  <2>1. r.ok /\ r.db.next = db.next
    BY <1>4, GroupsDeleteTakes
  <2>2. PICK then : Send(w, r, then)
    BY <1>6
  <2> HIDE DEF r
  <2>3. db.next["keys"] <= db'.next["keys"]
    BY <1>4, <2>1, <2>2 DEF Send
  <2>4. QED
    BY <1>2, <1>3, <2>1, <2>2, <2>3, SentInSync
<1>7. CASE db' = KeysDelete(db, id).db /\ UNCHANGED loads
  <2> DEFINE rows == view[w].sessions
             e == KeysDelete(db, id).db
  <2>1. RowsFit(rows)
    BY <1>3 DEF LInv, ViewsGood, CopyFits
  <2>2. ShownIn(rows, DOMAIN db.keys) = db.sessions
    BY <1>3 DEF Synced
  <2>3. e.groups = db.groups /\ e.next = db.next
    BY <1>4, KeysDeleteTakes
  <2> HIDE DEF rows
  <2>4. ShownIn(rows, DOMAIN e.keys) = e.sessions
    BY <1>4, <2>1, <2>2, ShownWithout
  <2>5. db' = e /\ loads' = loads /\ view' = view
    BY <1>2, <1>7
  <2> HIDE DEF e
  <2>6. Len(loads'[w]) = 0
    BY <1>3, <2>5, EmptyStack
  <2>7. \A i \in 1 .. Len(loads'[w]) : FALSE
    BY <2>6
  <2>8. QED
    BY <1>3, <2>3, <2>4, <2>5, <2>6, <2>7 DEF Synced, rows
<1>8. QED
  BY <1>1, <1>5, <1>6, <1>7, DeleteKinds

(* A step that changes neither tables nor lists.                           *)
LEMMA StillInSync ==
  ASSUME NEW w \in Windows, Synced(w), UNCHANGED <<db, view, loads>>,
         assign'[w] # NoAssign => loads[w] = <<>> \/ assign[w] # NoAssign
  PROVE  Synced(w)'
<1>1. ASSUME NEW i \in 1 .. Len(loads[w]), assign'[w] # NoAssign PROVE loads[w][i].then = "assign"
  <2>1. loads[w] # <<>>
    <3>1. SUFFICES ASSUME loads[w] = <<>> PROVE FALSE
      OBVIOUS
    <3>2. Len(loads[w]) = 0
      BY <3>1, EmptyStack
    <3>3. QED
      BY <3>2
  <2>2. assign[w] # NoAssign
    BY <1>1, <2>1
  <2>3. QED
    BY <2>2 DEF Synced
<1>2. QED
  BY <1>1 DEF Synced

LEMMA AssignInSync ==
  ASSUME WInv, LInv', Calmly, NEW w \in Windows, AssignNext(w)
  PROVE  Synced(w)'
<1>1. Here(w) /\ assign[w] # NoAssign
  BY AssignPresent DEF AssignNext, WInv
<1>2. Synced(w) /\ LInv
  BY <1>1 DEF WInv, InSync, Calmly
<1>3. loads[w] = <<>>
  <2>1. SUFFICES ASSUME loads[w] # <<>> PROVE FALSE
    OBVIOUS
  <2>2. 1 \in 1 .. Len(loads[w]) /\ 1 \in DOMAIN loads[w]
    BY <1>2, <2>1, LoadShapes, TailStack
  <2>3. loads[w][1].then = "assign"
    BY <1>1, <1>2, <2>2 DEF Synced
  <2>4. QED
    BY <2>2, <2>3 DEF AssignNext
<1>4. PICK s, patch :
         LET r == SessionsUpdate(db, s, patch)
         IN  Send(w, r, "assign") /\ view' = view
  BY DEF AssignNext
<1> DEFINE r == SessionsUpdate(db, s, patch)
           then == "assign"
<1>5. Send(w, r, then) /\ view' = view /\ then = "assign"
  BY <1>4
<1>6. AllOrNothing(db, r)
  BY <1>2, TablesNow, SessionsUpdateGrows
<1> HIDE DEF r, then
<1>7. (r.ok \/ r.db = db) /\ db.next["keys"] <= db'.next["keys"]
  BY <1>5, <1>6 DEF AllOrNothing, Grows, Send
<1>8. QED
  BY <1>2, <1>3, <1>5, <1>7, SentInSync

(* A load that reads: what it has read before is still what the tables     *)
(* hold.                                                                   *)
LEMMA ReadInSync ==
  ASSUME WInv, LInv', Calmly, NEW w \in Windows, ReadTable(w)
  PROVE  Synced(w)'
<1>1. LInv /\ UNCHANGED <<db, view, assign>>
  BY DEF ReadTable, WInv
<1>2. Synced(w)
  BY ActorHere DEF WInv, InSync
<1>3. PICK i, d :
         /\ i \in 1 .. Len(loads[w]) /\ Len(loads'[w]) = Len(loads[w])
         /\ \A j \in 1 .. Len(loads[w]) : loads'[w][j] = IF j = i THEN d ELSE loads[w][j]
         /\ d.then = loads[w][i].then
         /\ \/ d.read = 1 /\ d.sessions = db.sessions
            \/ loads[w][i].read = 1 /\ d.read = 2 /\ d.sessions = loads[w][i].sessions /\ d.groups = db.groups
  BY <1>1, ReadOne
<1>4. LoadFresh(d, db)
  <2>1. CASE d.read = 1 /\ d.sessions = db.sessions
    BY <2>1 DEF LoadFresh
  <2>2. CASE loads[w][i].read = 1 /\ d.read = 2 /\ d.sessions = loads[w][i].sessions /\ d.groups = db.groups
    <3>1. loads[w][i].sessions = db.sessions
      BY <1>2, <1>3, <2>2 DEF Synced, LoadFresh
    <3>2. QED
      BY <2>2, <3>1 DEF LoadFresh
  <2>3. QED
    BY <1>3, <2>1, <2>2
<1>5. assign[w] # NoAssign => d.then = "assign"
  BY <1>2, <1>3 DEF Synced
<1>6. \A j \in 1 .. Len(loads'[w]) : LoadFresh(loads'[w][j], db) /\ (assign[w] # NoAssign => loads'[w][j].then = "assign")
  BY <1>2, <1>3, <1>4, <1>5 DEF Synced
<1>7. loads'[w] # <<>>
  <2>1. SUFFICES ASSUME loads'[w] = <<>> PROVE FALSE
    OBVIOUS
  <2>2. Len(loads[w]) = 0
    BY <1>3, <2>1, EmptyStack
  <2>3. \A k \in 1 .. Len(loads[w]) : FALSE
    BY <2>2
  <2>4. QED
    BY <1>3, <2>3
<1>8. QED
  BY <1>1, <1>2, <1>3, <1>6, <1>7 DEF Synced

(* The store takes the load: the window shows the tables.                  *)
LEMMA LoadedInSync ==
  ASSUME WInv, LInv', Calmly, NEW w \in Windows, Loaded(w)
  PROVE  Synced(w)'
<1>1. LInv /\ db' = db
  BY DEF Loaded, WInv
<1>2. Synced(w)
  BY ActorHere DEF WInv, InSync
<1> DEFINE l == loads[w][1]
<1>3. /\ l.read = 2 /\ 1 \in 1 .. Len(loads[w])
      /\ view'[w].sessions = l.sessions /\ view'[w].groups = l.groups
      /\ Len(loads'[w]) = Len(loads[w]) - 1
  BY <1>1, TakenLoad
<1>4. view'[w].sessions = db.sessions /\ view'[w].groups = db.groups
  BY <1>2, <1>3 DEF Synced, LoadFresh
<1>5. Len(loads'[w]) = 0
  <2>1. Len(loads[w]) \in Nat
    BY <1>1, LoadShapes
  <2>2. 1 \in 1 .. Len(loads[w]) /\ Len(loads'[w]) = Len(loads[w]) - 1
    BY <1>3
  <2>3. Len(loads[w]) <= 1
    BY <1>2 DEF Synced
  <2>4. \A n \in Nat : n <= 1 /\ 1 \in 1 .. n => n - 1 = 0
    OBVIOUS
  <2>5. QED
    BY <2>1, <2>2, <2>3, <2>4
<1>6. \A i \in 1 .. Len(loads'[w]) : FALSE
  BY <1>5
<1>7. /\ ShownIn(db.sessions, DOMAIN db.keys) = db.sessions
      /\ \A s \in DOMAIN db.sessions : db.sessions[s].key < db.next["keys"]
  BY <1>1, TablesNow, TablesShown DEF WInv
<1>8. QED
  BY <1>1, <1>4, <1>5, <1>6, <1>7 DEF Synced

LEMMA SyncOn ==
  ASSUME WInv, LInv', [Next]_vars
  PROVE  InSync'
<1> SUFFICES ASSUME Calmly', NEW v \in Windows, Here(v)' PROVE Synced(v)'
  BY DEF InSync
<1>a. ASSUME scene' = scene PROVE Calmly /\ Here(v)
  BY <1>a, SceneKept DEF Calmly
<1>b. ASSUME scene' = scene, NEW w \in Windows, Here(w) PROVE v = w
  BY <1>a, <1>b, OnlyWindow DEF Calmly
<1>c. Calmly /\ Here(v) => Synced(v)
  BY DEF WInv, InSync
<1>1. CASE Quiet
  BY <1>1, <1>a, <1>c, StillInSync DEF Quiet
<1>2. ASSUME NEW w \in Windows, Asks(w) \/ Fills(w) \/ ConfirmDelete(w) \/ AssignNext(w) PROVE Synced(v)'
  <2>1. Here(w) /\ scene' = scene
    BY <1>2, RequestKinds DEF Requested
  <2>2. v = w /\ Calmly
    BY <1>a, <1>b, <2>1
  <2>3. Synced(w)'
    BY <1>2, <2>2, AsksInSync, FillsInSync, DeletesInSync, AssignInSync
  <2>4. QED
    BY <2>2, <2>3
<1>3. ASSUME NEW w \in Windows, ReadTable(w) \/ Loaded(w) \/ Apply(w) \/ AssignDone(w) PROVE Synced(v)'
  <2>1. Here(w) /\ scene' = scene
    BY <1>3, ActorHere DEF WInv, ReadTable, Loaded, Apply, AssignDone
  <2>2. v = w /\ Calmly
    BY <1>a, <1>b, <2>1
  <2>3. CASE ReadTable(w) \/ Loaded(w)
    BY <2>2, <2>3, ReadInSync, LoadedInSync
  <2>4. CASE Apply(w)
    <3>1. Free(w) /\ UNCHANGED <<db, view, loads>>
      BY <2>4 DEF Apply, At
    <3>2. Synced(w) /\ loads[w] = <<>>
      BY <2>2, <3>1, CalmFree
    <3>3. QED
      BY <2>2, <3>1, <3>2, StillInSync
  <2>5. CASE AssignDone(w)
    <3>1. UNCHANGED <<db, view, loads>> /\ assign' = [assign EXCEPT ![w] = NoAssign]
      BY <2>5 DEF AssignDone
    <3>2. assign'[w] = NoAssign
      BY <3>1 DEF WInv, LInv, TasksGood
    <3>3. QED
      BY <2>1, <2>2, <1>c, <3>1, <3>2, StillInSync
  <2>6. QED
    BY <1>3, <2>3, <2>4, <2>5
<1>4. QED
  BY <1>1, <1>2, <1>3, StepKinds DEF WInv

LEMMA TableOn ==
  ASSUME WInv, [Next]_vars
  PROVE  IsTable(db'["sessions"])
<1>1. LInv /\ IsTable(db["sessions"])
  BY DEF WInv
<1>2. ASSUME Grows(db, db') PROVE IsTable(db'["sessions"])
  BY <1>1, <1>2 DEF Grows
<1>3. CASE Quiet
  BY <1>1, <1>3 DEF Quiet
<1>4. ASSUME NEW w \in Windows, Asks(w) \/ Fills(w) \/ AssignNext(w) PROVE IsTable(db'["sessions"])
  <2>1. Grows(db, db')
    BY <1>1, <1>4, AssignGrows DEF Asks, Fills, Send
  <2>2. QED
    BY <1>2, <2>1
<1>5. ASSUME NEW w \in Windows, ConfirmDelete(w) PROVE IsTable(db'["sessions"])
  <2>1. PICK what, id : /\ Delete(w, Confirm(what, id))
                        /\ Confirm(what, id).what = what /\ Confirm(what, id).id = id
    BY <1>1, <1>5, Confirmed
  <2>2. db' \in {SessionsDelete(db, id).db, GroupsDelete(db, id).db, KeysDelete(db, id).db}
    BY <2>1, DeleteKinds DEF Send
  <2>3. QED
    BY <1>1, <2>2, TablesNow, DeletedTable
<1>6. ASSUME NEW w \in Windows, ReadTable(w) \/ Loaded(w) \/ Apply(w) \/ AssignDone(w) PROVE IsTable(db'["sessions"])
  <2>1. db' = db
    BY <1>6 DEF ReadTable, Loaded, Apply, AssignDone
  <2>2. QED
    BY <1>1, <2>1
<1>7. QED
  BY <1>1, <1>3, <1>4, <1>5, <1>6, StepKinds

LEMMA ListStep == WInv /\ [Next]_vars => WInv'
<1>1. WInv /\ [Next]_vars => LInv'
  BY LibraryStep DEF WInv
<1>2. QED
  BY <1>1, TableOn, DesertedOn, TreesOn, SyncOn DEF WInv

LEMMA ListStarts == Init => WInv
<1> SUFFICES ASSUME Init PROVE WInv
  OBVIOUS
<1>1. /\ scene \in Scenes /\ db = scene.db
      /\ view = [w \in Windows |-> [sessions |-> scene.db.sessions, groups |-> scene.db.groups]]
      /\ loads = [w \in Windows |-> <<>>] /\ assign = [w \in Windows |-> NoAssign]
  BY DEF Init
<1>2. LInv
  BY LibraryStarts
<1>3. IsTable(db["sessions"])
  <2> DEFINE rows == db.sessions
             S == SessionRows
  <2>1. rows \in [DOMAIN rows -> S]
    BY <1>1, ScenesAssumption
  <2> HIDE DEF rows, S
  <2>2. rows = [i \in DOMAIN rows |-> rows[i]]
    BY <2>1
  <2>3. QED
    BY <2>2 DEF IsTable, rows
<1>4. /\ ShownIn(db.sessions, DOMAIN db.keys) = db.sessions
      /\ \A s \in DOMAIN db.sessions : db.sessions[s].key < db.next["keys"]
      /\ Hangs(db)
  BY <1>2, <1>3, TablesNow, TablesShown
<1>5. ASSUME NEW w \in Windows
      PROVE  /\ view[w].sessions = db.sessions /\ view[w].groups = db.groups
             /\ loads[w] = <<>> /\ assign[w] = NoAssign
             /\ Len(loads[w]) = 0 /\ \A i \in 1 .. Len(loads[w]) : FALSE
  <2>1. view[w].sessions = db.sessions /\ view[w].groups = db.groups /\ loads[w] = <<>> /\ assign[w] = NoAssign
    BY <1>1
  <2>2. Len(loads[w]) = 0
    BY <2>1, EmptyStack
  <2>3. QED
    BY <2>1, <2>2
<1>6. Deserted
  BY <1>5 DEF Deserted
<1>7. ASSUME NEW w \in Windows PROVE TreeFits(w)
  <2>1. Hangs(view[w])
    BY <1>4, <1>5 DEF Hangs
  <2>2. QED
    BY <1>5, <2>1 DEF TreeFits
<1>8. ASSUME NEW w \in Windows PROVE Synced(w)
  BY <1>4, <1>5 DEF Synced
<1>9. QED
  BY <1>2, <1>3, <1>6, <1>7, <1>8 DEF WInv, TreesFit, InSync

LEMMA ListShows == WInv => ListIsWhole
<1> SUFFICES ASSUME WInv PROVE ListIsWhole
  OBVIOUS
<1>1. ASSUME Alone, NEW w \in scene.windows PROVE w \in Windows /\ Here(w)
  BY <1>1 DEF Alone, Here
<1>2. ListIsDatabase
  <2>1. SUFFICES ASSUME Calmly, NEW w \in scene.windows, Settled(w)
                 PROVE  Shown(view[w].sessions) = db.sessions /\ view[w].groups = db.groups
    BY DEF ListIsDatabase, Calmly
  <2>2. w \in Windows /\ Here(w)
    BY <1>1, <2>1 DEF Calmly
  <2>3. Synced(w) /\ loads[w] = <<>>
    BY <2>1, <2>2 DEF WInv, InSync, Settled
  <2> DEFINE rows == view[w].sessions
  <2>4. ShownIn(rows, DOMAIN db.keys) = db.sessions /\ view[w].groups = db.groups
    BY <2>3 DEF Synced
  <2> HIDE DEF rows
  <2>5. Shown(rows) = db.sessions
    BY <2>4, SameShown
  <2>6. QED
    BY <2>4, <2>5 DEF rows
<1>3. NothingHidden
  <2>1. SUFFICES ASSUME Alone, NEW w \in scene.windows
                 PROVE  /\ \A s \in DOMAIN view[w].sessions : Names_(view[w].groups, view[w].sessions[s].group)
                        /\ \A g \in DOMAIN view[w].groups : Names_(view[w].groups, view[w].groups[g].parent)
    BY DEF NothingHidden
  <2>2. TreeFits(w)
    BY <1>1, <2>1 DEF WInv, TreesFit
  <2>3. QED
    BY <2>2 DEF TreeFits, Hangs
<1>4. QED
  BY <1>2, <1>3 DEF ListIsWhole

(* The tree of a settled window shows the tables: once a calm user's only  *)
(* window has taken the loads that follow its requests, its sessions and   *)
(* groups are those of the database, a deleted key read as none; and with  *)
(* one window no session hangs in a group the tree does not draw, calm or  *)
(* not, whatever is imported, moved, deleted or assigned                   *)
(* (useSessionStore.load, SessionTree).                                    *)
THEOREM ListAlwaysWhole == Spec => []ListIsWhole
<1>1. Init => WInv
  BY ListStarts
<1>2. WInv /\ [Next]_vars => WInv'
  BY ListStep
<1>3. WInv => ListIsWhole
  BY ListShows
<1>4. QED
  BY <1>1, <1>2, <1>3, PTL DEF Spec

-----------------------------------------------------------------------------
(* No session twice.                                                       *)

(* What a settled window shows is named as the tables name it.             *)
LEMMA ShownNames ==
  ASSUME WInv, Calmly, NEW w \in Windows, Free(w)
  PROVE  /\ DOMAIN view[w].sessions = DOMAIN db.sessions
         /\ \A s \in DOMAIN db.sessions : SameSession(view[w].sessions[s], db.sessions[s])
<1> DEFINE rows == view[w].sessions
<1>1. ShownIn(rows, DOMAIN db.keys) = db.sessions
  BY CalmFree DEF Synced
<1>2. \A s \in DOMAIN rows : rows[s] \in SessionRows
  BY ViewFacts DEF WInv
<1>3. \A row \in SessionRows : \A k : SameSession(row, RowWith(row, k))
  BY DEF SessionRows, RowWith, SameSession
<1> HIDE DEF rows
<1>4. DOMAIN rows = DOMAIN db.sessions /\ \A s \in DOMAIN rows : SameSession(rows[s], db.sessions[s])
  BY <1>1, <1>2, <1>3 DEF ShownIn
<1>5. QED
  BY <1>4 DEF rows

LEMMA MoveAlike ==
  ASSUME WInv, Calmly, NEW w \in Windows, MoveToGroup(w)
  PROVE  Alike(db, db')
<1>1. PICK s \in DOMAIN view[w].sessions, g \in DOMAIN view[w].groups \cup {None} :
         Send(w, SessionsUpdate(db, s, [name |-> view[w].sessions[s].name,
                                        protocol |-> view[w].sessions[s].protocol, group |-> g]), "nothing")
  BY DEF MoveToGroup
<1> DEFINE row == view[w].sessions[s]
           patch == [name |-> row.name, protocol |-> row.protocol, group |-> g]
<1>2. db' = SessionsUpdate(db, s, patch).db
  BY <1>1 DEF Send
<1>3. s \in DOMAIN db.sessions /\ SameSession(row, db.sessions[s])
  BY ShownNames DEF MoveToGroup, AtTree
<1> HIDE DEF row
<1>4. \A c \in {"name", "protocol", "host", "user"} : c \in DOMAIN patch => patch[c] = db.sessions[s][c]
  BY <1>3 DEF SameSession
<1> HIDE DEF patch
<1>5. TablesTyped(db)
  BY TablesNow DEF WInv
<1>6. QED
  BY <1>2, <1>4, <1>5, UpdateAlike

LEMMA RememberAlike ==
  ASSUME WInv, Calmly, NEW w \in Windows, RememberCredentials(w)
  PROVE  Alike(db, db')
<1>1. PICK s \in {x \in DOMAIN view[w].sessions : view[w].sessions[x].protocol = "ssh"} :
         \E login \in {[auth |-> "password", password |-> TRUE]} \cup {[auth |-> "key", key |-> k] : k \in DOMAIN db.keys} :
            Send(w, SessionsUpdate(db, s, Patched(login, [name |-> view[w].sessions[s].name, protocol |-> "ssh"])), "nothing")
  BY DEF RememberCredentials
<1>2. PICK login \in {[auth |-> "password", password |-> TRUE]} \cup {[auth |-> "key", key |-> k] : k \in DOMAIN db.keys} :
         Send(w, SessionsUpdate(db, s, Patched(login, [name |-> view[w].sessions[s].name, protocol |-> "ssh"])), "nothing")
  BY <1>1
<1> DEFINE row == view[w].sessions[s]
           base == [name |-> row.name, protocol |-> "ssh"]
           patch == Patched(login, base)
<1>3. db' = SessionsUpdate(db, s, patch).db
  BY <1>2 DEF Send
<1>4. s \in DOMAIN db.sessions /\ SameSession(row, db.sessions[s]) /\ row.protocol = "ssh"
  BY <1>1, ShownNames DEF RememberCredentials
<1>5. DOMAIN login \subseteq {"auth", "password", "key"}
  BY <1>2
<1> HIDE DEF row
<1>6. base.name = row.name /\ base.protocol = "ssh" /\ DOMAIN base = {"name", "protocol"}
  OBVIOUS
<1> HIDE DEF base
<1>7. \A c \in {"name", "protocol", "host", "user"} : c \in DOMAIN patch => c \in DOMAIN base /\ patch[c] = base[c]
  BY <1>5 DEF Patched
<1>8. \A c \in {"name", "protocol", "host", "user"} : c \in DOMAIN patch => patch[c] = db.sessions[s][c]
  BY <1>4, <1>6, <1>7 DEF SameSession
<1> HIDE DEF patch
<1>9. TablesTyped(db)
  BY TablesNow DEF WInv
<1>10. QED
  BY <1>3, <1>8, <1>9, UpdateAlike

(* The names an assignment sends are those the tables have.                *)
AsListed(a, d) ==
  \A i \in 1 .. Len(a.todo) :
     a.todo[i] \in DOMAIN d.sessions =>
        /\ a.names[a.todo[i]] = d.sessions[a.todo[i]].name
        /\ d.sessions[a.todo[i]].protocol = "ssh"

LEMMA NothingListed == \A d : AsListed(NoAssign, d)
<1>1. Len(NoAssign.todo) = 0
  BY NoTask, EmptyStack
<1>2. \A i \in 1 .. Len(NoAssign.todo) : FALSE
  BY <1>1
<1>3. QED
  BY <1>2 DEF AsListed

LEMMA TaskListed ==
  ASSUME WInv, Calmly, NEW w \in Windows, Apply(w)
  PROVE  AsListed(assign'[w], db)
<1>1. PICK todo : assign'[w] = Task(w, todo) /\ todo \in Seq(Changing(w))
  BY TaskBegins DEF WInv
<1> DEFINE a == Task(w, todo)
<1>2. a.todo = todo /\ \A s \in Changing(w) : a.names[s] = view[w].sessions[s].name
  BY DEF Task
<1>3. \A s \in Changing(w) : s \in DOMAIN view[w].sessions /\ view[w].sessions[s].protocol = "ssh"
  BY DEF Changing, SshSessions
<1>4. \A s \in DOMAIN db.sessions : SameSession(view[w].sessions[s], db.sessions[s])
  BY ShownNames DEF Apply, At
<1>5. \A i \in 1 .. Len(todo) : todo[i] \in Changing(w)
  BY <1>1
<1> HIDE DEF a
<1>6. AsListed(a, db)
  BY <1>2, <1>3, <1>4, <1>5 DEF AsListed, SameSession
<1>7. QED
  BY <1>1, <1>6 DEF a

LEMMA RestListed ==
  ASSUME NEW a, TaskFits(a), a.todo # <<>>, NEW d, AsListed(a, d), NEW e, Alike(d, e)
  PROVE  AsListed(Rest(a), e)
<1> DEFINE b == Rest(a)
<1>1. b.names = a.names /\ \A i \in 1 .. Len(b.todo) : i + 1 \in 1 .. Len(a.todo) /\ b.todo[i] = a.todo[i + 1]
  BY RestFits
<1> HIDE DEF b
<1>2. \A s \in DOMAIN e.sessions : /\ s \in DOMAIN d.sessions /\ e.sessions[s].name = d.sessions[s].name
                                   /\ e.sessions[s].protocol = d.sessions[s].protocol
  BY DEF Alike, SameSession
<1>3. AsListed(b, e)
  BY <1>1, <1>2 DEF AsListed
<1>4. QED
  BY <1>3 DEF b

LEMMA AssignAlike ==
  ASSUME LInv, NEW w \in Windows, AssignNext(w), AsListed(assign[w], db)
  PROVE  Alike(db, db')
<1> DEFINE s == Head(assign[w].todo)
           n == assign[w].names[s]
<1>1. PICK k, auth : db' = SessionsUpdate(db, s, [name |-> n, protocol |-> "ssh", key |-> k, auth |-> auth]).db
  BY DEF AssignNext, Send
<1>2. s = assign[w].todo[1] /\ 1 \in 1 .. Len(assign[w].todo)
  BY RestFits DEF AssignNext, LInv, TasksGood
<1>3. s \in DOMAIN db.sessions => n = db.sessions[s].name /\ db.sessions[s].protocol = "ssh"
  BY <1>2 DEF AsListed
<1> HIDE DEF s, n
<1> DEFINE patch == [name |-> n, protocol |-> "ssh", key |-> k, auth |-> auth]
<1>4. \A c \in {"name", "protocol", "host", "user"} :
         s \in DOMAIN db.sessions /\ c \in DOMAIN patch => patch[c] = db.sessions[s][c]
  BY <1>3
<1>5. db' = SessionsUpdate(db, s, patch).db /\ TablesTyped(db)
  BY <1>1, TablesNow
<1> HIDE DEF patch
<1>6. QED
  BY <1>4, <1>5, UpdateAlike

LEMMA DeleteAlike ==
  ASSUME LInv, NEW w \in Windows, ConfirmDelete(w)
  PROVE  Alike(db, db')
<1>1. PICK what, id : Delete(w, Confirm(what, id)) /\ Confirm(what, id).what = what /\ Confirm(what, id).id = id
  BY Confirmed
<1>2. DOMAIN db = Tables \cup {"next"} /\ \A s \in DOMAIN db.sessions : db.sessions[s] \in SessionRows
  BY TablesNow DEF TablesTyped
<1>3. db' \in {SessionsDelete(db, id).db, GroupsDelete(db, id).db, KeysDelete(db, id).db}
  BY <1>1, DeleteKinds DEF Send
<1>4. ASSUME NEW row \in SessionRows
      PROVE  SameSession([row EXCEPT !.group = None], row) /\ SameSession([row EXCEPT !.key = None], row)
  BY DEF SessionRows, SameSession
<1>5. Alike(db, db)
  BY DEF Alike, SameSession
<1>6. CASE db' = SessionsDelete(db, id).db
  <2>1. CASE \E s \in DOMAIN db.sessions \ {id} : db.sessions[s].jump = id
    BY <1>5, <1>6, <2>1 DEF SessionsDelete, Refused
  <2>2. CASE ~ \E s \in DOMAIN db.sessions \ {id} : db.sessions[s].jump = id
    <3>1. db'["sessions"] = Without(db["sessions"], {id})
      BY <1>2, <1>6, <2>2, TableNames DEF SessionsDelete, Done
    <3>2. QED
      BY <3>1 DEF Without, Alike, SameSession
  <2>3. QED
    BY <2>1, <2>2
<1>7. CASE db' = GroupsDelete(db, id).db
  <2> DEFINE gone == Under(db, id)
             freed == [s \in DOMAIN db.sessions |-> IF db.sessions[s].group \in gone
                                                    THEN [db.sessions[s] EXCEPT !.group = None] ELSE db.sessions[s]]
  <2>1. db'["sessions"] = freed
    BY <1>2, <1>7, TableNames DEF GroupsDelete, Done
  <2> HIDE DEF gone
  <2>2. \A s \in DOMAIN freed : s \in DOMAIN db.sessions /\ SameSession(freed[s], db.sessions[s])
    BY <1>2, <1>4 DEF SameSession
  <2> HIDE DEF freed
  <2>3. QED
    BY <2>1, <2>2 DEF Alike
<1>8. CASE db' = KeysDelete(db, id).db
  <2> DEFINE freed == [s \in DOMAIN db.sessions |-> IF db.sessions[s].key = id /\ id # None
                                                    THEN [db.sessions[s] EXCEPT !.key = None] ELSE db.sessions[s]]
  <2>1. db'["sessions"] = freed
    BY <1>2, <1>8, TableNames DEF KeysDelete, Done
  <2>2. \A s \in DOMAIN freed : s \in DOMAIN db.sessions /\ SameSession(freed[s], db.sessions[s])
    BY <1>2, <1>4 DEF SameSession
  <2> HIDE DEF freed
  <2>3. QED
    BY <2>1, <2>2 DEF Alike
<1>9. QED
  BY <1>3, <1>6, <1>7, <1>8

(* The dialog looks for a twin in the list the window shows.               *)
LEMMA SaveKeepsApart ==
  ASSUME WInv, Calmly, Apart(db.sessions), NEW w \in Windows, SaveSession(w)
  PROVE  Apart(db'.sessions)
<1> DEFINE d == Top(w)
           id == d.id
           form == d.form
           edits == d.mode = "edit"
<1>1. /\ d.kind = "session" /\ Free(w) /\ ~ Twin(w, d)
      /\ db' = (IF edits THEN SessionsUpdate(db, id, form) ELSE SessionsCreate(db, form)).db
  BY DEF SaveSession, At, Send
<1>2. form \in SessionRows
  BY <1>1, TopFits DEF WInv, LInv, DialogFits, SessionFits
<1>3. \A s \in DOMAIN view[w].sessions : ~ (edits /\ s = id) => ~ SameSession(view[w].sessions[s], form)
  BY <1>1 DEF Twin
<1> HIDE DEF id, form, edits
<1>4. \A s \in DOMAIN db.sessions : ~ (edits /\ s = id) => ~ SameSession(db.sessions[s], form)
  BY <1>1, <1>3, ShownNames DEF SameSession
<1>5. TablesTyped(db)
  BY TablesNow DEF WInv
<1>6. CASE edits
  <2>1. \A s \in DOMAIN db.sessions \ {id} : ~ SameSession(db.sessions[s], form)
    BY <1>4, <1>6
  <2>2. QED
    BY <1>1, <1>2, <1>5, <1>6, <2>1, UpdateFresh
<1>7. CASE ~ edits
  BY <1>1, <1>4, <1>5, <1>7, CreateFresh
<1>8. QED
  BY <1>6, <1>7

LEMMA ImportKeepsApart ==
  ASSUME LInv, ForeignOnly, OneOfEach, Apart(db.sessions), NEW w \in Windows, CommitImport(w)
  PROVE  Apart(db'.sessions)
<1> DEFINE d == Top(w)
           inputs == d.inputs
           located == d.located
<1>1. d.kind = "import" /\ db' = Commit(db, files, inputs, located).db
  BY DEF CommitImport, At, Send
<1>2. ImportFits(d)
  BY <1>1, TopFits DEF LInv, DialogFits
<1>3. inputs \in Seq(InputRows) /\ FilesTyped(files) /\ Apart(inputs)
  BY <1>2 DEF ImportFits, Brought, LInv, DiskGood
<1> HIDE DEF inputs, located
<1>4. QED
  BY <1>1, <1>3, TablesNow, CommitApart

LEMMA SceneFixed ==
  ASSUME LInv, [Next]_vars
  PROVE  scene' = scene
<1>1. CASE Quiet
  BY <1>1 DEF Quiet
<1>2. ASSUME NEW w \in Windows, Asks(w) \/ Fills(w) \/ ReadTable(w) \/ Loaded(w) \/ Apply(w) \/ AssignNext(w) \/ AssignDone(w)
      PROVE  scene' = scene
  BY <1>2 DEF Asks, Fills, ReadTable, Loaded, Apply, AssignNext, AssignDone
<1>3. ASSUME NEW w \in Windows, ConfirmDelete(w) PROVE scene' = scene
  BY <1>3 DEF ConfirmDelete
<1>4. QED
  BY <1>1, <1>2, <1>3, StepKinds

(* The requests that write a session.                                      *)
LEMMA SessionWrites ==
  ASSUME LInv, [Next]_vars
  PROVE  \/ db'.sessions = db.sessions
         \/ \E w \in Windows : \/ MoveToGroup(w) \/ RememberCredentials(w) \/ SaveSession(w) \/ CommitImport(w)
                               \/ AssignNext(w) \/ ConfirmDelete(w)
<1>1. CASE FilesChange
  BY <1>1 DEF FilesChange
<1>2. CASE UNCHANGED vars
  BY <1>2 DEF vars, libvars
<1>3. ASSUME NEW w \in Windows,
             \/ ReadTable(w) \/ Loaded(w)
             \/ MoveToGroup(w) \/ CreateGroup(w) \/ RenameGroup(w) \/ AskDelete(w) \/ ConfirmDelete(w)
             \/ NewSession(w) \/ EditSession(w) \/ EditField(w) \/ ImportIntoForm(w) \/ SaveSession(w)
             \/ RememberCredentials(w)
             \/ OpenVault(w) \/ FillVault(w) \/ AskDeleteKey(w) \/ OpenPicker(w) \/ Toggle(w) \/ Apply(w)
             \/ AssignNext(w) \/ AssignDone(w)
             \/ Preview(w) \/ LocateKey(w) \/ CommitImport(w) \/ ExportBackup(w)
             \/ OpenSnippet(w) \/ ScopeToggle(w) \/ SaveSnippet(w) \/ SnippetList(w) \/ Tunnels(w)
             \/ PaneAsks(w) \/ PaneAnswered(w) \/ Cancel(w) \/ PressEscape(w)
      PROVE  \/ db'.sessions = db.sessions
             \/ MoveToGroup(w) \/ RememberCredentials(w) \/ SaveSession(w) \/ CommitImport(w)
             \/ AssignNext(w) \/ ConfirmDelete(w)
  <2>1. CASE CreateGroup(w) \/ RenameGroup(w)
    <3>1. \/ \E name, parent : db' = GroupsCreate(db, name, parent).db
          \/ \E g, name : db' = GroupsRename(db, g, name).db
      BY <2>1 DEF CreateGroup, RenameGroup, Send
    <3>2. QED
      BY <3>1, TablesNow, GroupsKeepSessions
  <2>2. CASE ImportIntoForm(w) \/ FillVault(w) \/ SaveSnippet(w) \/ SnippetList(w) \/ Tunnels(w)
    <3>1. Fills(w)
      BY <2>2, FormFills, VaultFills, SnippetFills, ListsFill
    <3>2. QED
      BY <3>1 DEF Fills, SameList
  <2>3. CASE AskDelete(w) \/ NewSession(w) \/ EditSession(w) \/ EditField(w) \/ OpenVault(w) \/ AskDeleteKey(w)
    BY <2>3 DEF AskDelete, NewSession, EditSession, EditField, OpenVault, AskDeleteKey, libvars
  <2>4. CASE OpenPicker(w) \/ Toggle(w) \/ Preview(w) \/ LocateKey(w) \/ ExportBackup(w) \/ OpenSnippet(w) \/ ScopeToggle(w)
    BY <2>4 DEF OpenPicker, Toggle, Preview, LocateKey, ExportBackup, OpenSnippet, ScopeToggle, libvars
  <2>5. CASE PaneAsks(w) \/ PaneAnswered(w) \/ Cancel(w) \/ PressEscape(w)
    BY <2>5 DEF PaneAsks, PaneAnswered, Cancel, PressEscape, libvars
  <2>6. CASE ReadTable(w) \/ Loaded(w) \/ Apply(w) \/ AssignDone(w)
    BY <2>6 DEF ReadTable, Loaded, Apply, AssignDone
  <2>7. QED
    BY <1>3, <2>1, <2>2, <2>3, <2>4, <2>5, <2>6
<1>4. QED
  BY <1>1, <1>2, <1>3 DEF Next

Listing == Calmly => \A w \in Windows : Here(w) => AsListed(assign[w], db)

XInv == WInv /\ Listing /\ (Calmly /\ OneOfEach => Apart(db.sessions))

LEMMA ListingOn ==
  ASSUME XInv, [Next]_vars
  PROVE  Listing'
<1> SUFFICES ASSUME Calmly', NEW v \in Windows, Here(v)' PROVE AsListed(assign'[v], db')
  BY DEF Listing
<1>1. WInv /\ LInv /\ scene' = scene
  BY SceneFixed DEF XInv, WInv
<1>2. Calmly /\ Here(v) /\ AsListed(assign[v], db)
  BY <1>1, SceneKept DEF Calmly, XInv, Listing
<1>3. ASSUME NEW w \in Windows, Here(w) PROVE v = w
  BY <1>2, <1>3, OnlyWindow DEF Calmly
<1>4. CASE Quiet
  BY <1>2, <1>4 DEF Quiet
<1>5. ASSUME NEW w \in Windows, Asks(w) \/ Fills(w) \/ ConfirmDelete(w) PROVE AsListed(assign'[v], db')
  <2>1. Free(w) /\ assign' = assign
    BY <1>5 DEF Asks, Fills, ConfirmDelete
  <2>2. v = w /\ assign[w] = NoAssign
    BY <1>1, <1>2, <1>3, <2>1, CalmFree DEF Free
  <2>3. QED
    BY <2>1, <2>2, NothingListed
<1>6. ASSUME NEW w \in Windows, ReadTable(w) \/ Loaded(w) PROVE AsListed(assign'[v], db')
  BY <1>2, <1>6 DEF ReadTable, Loaded
<1>7. ASSUME NEW w \in Windows, Apply(w) PROVE AsListed(assign'[v], db')
  <2>1. v = w /\ db' = db
    BY <1>1, <1>3, <1>7, ActorHere DEF Apply, WInv
  <2>2. QED
    BY <1>1, <1>2, <1>7, <2>1, TaskListed
<1>8. ASSUME NEW w \in Windows, AssignNext(w) PROVE AsListed(assign'[v], db')
  <2>1. v = w /\ TaskFits(assign[w]) /\ assign[w].todo # <<>>
    BY <1>1, <1>3, <1>8, AssignPresent DEF AssignNext, WInv, LInv, TasksGood
  <2>2. Alike(db, db')
    BY <1>1, <1>2, <1>8, <2>1, AssignAlike
  <2>3. assign' = [assign EXCEPT ![w] = Rest(assign[w])] \/ assign' = [assign EXCEPT ![w] = NoAssign]
    BY <1>8 DEF AssignNext, Rest
  <2>4. assign'[w] = Rest(assign[w]) \/ assign'[w] = NoAssign
    BY <1>1, <2>3 DEF LInv, TasksGood
  <2>5. QED
    BY <1>2, <2>1, <2>2, <2>4, RestListed, NothingListed
<1>9. ASSUME NEW w \in Windows, AssignDone(w) PROVE AsListed(assign'[v], db')
  <2>1. v = w /\ assign' = [assign EXCEPT ![w] = NoAssign]
    BY <1>1, <1>3, <1>9, ActorHere DEF AssignDone, WInv
  <2>2. assign'[w] = NoAssign
    BY <1>1, <2>1 DEF LInv, TasksGood
  <2>3. QED
    BY <2>1, <2>2, NothingListed
<1>10. QED
  BY <1>1, <1>4, <1>5, <1>6, <1>7, <1>8, <1>9, StepKinds

LEMMA ApartStep == XInv /\ [Next]_vars => XInv'
<1> SUFFICES ASSUME XInv, [Next]_vars PROVE XInv'
  OBVIOUS
<1>1. WInv /\ WInv' /\ LInv
  BY ListStep DEF XInv, WInv
<1>2. SUFFICES ASSUME Calmly', OneOfEach' PROVE Apart(db'.sessions)
  BY <1>1, ListingOn DEF XInv
<1>3. Calmly /\ OneOfEach /\ ForeignOnly
  BY <1>1, <1>2, SceneFixed, SceneKept DEF Calmly
<1>a. ASSUME NEW w \in Windows, AssignNext(w) PROVE AsListed(assign[w], db)
  <2>1. Here(w)
    BY <1>1, <1>a, AssignPresent DEF AssignNext, WInv
  <2>2. QED
    BY <1>3, <2>1 DEF XInv, Listing
<1>4. Apart(db.sessions)
  BY <1>3 DEF XInv
<1>5. CASE db'.sessions = db.sessions
  BY <1>4, <1>5
<1>6. ASSUME NEW w \in Windows, MoveToGroup(w) \/ RememberCredentials(w) \/ AssignNext(w) \/ ConfirmDelete(w)
      PROVE  Apart(db'.sessions)
  <2>1. Alike(db, db')
    BY <1>1, <1>3, <1>a, <1>6, MoveAlike, RememberAlike, AssignAlike, DeleteAlike
  <2>2. QED
    BY <1>4, <2>1, ApartAlike
<1>7. ASSUME NEW w \in Windows, SaveSession(w) \/ CommitImport(w) PROVE Apart(db'.sessions)
  BY <1>1, <1>3, <1>4, <1>7, SaveKeepsApart, ImportKeepsApart
<1>8. QED
  BY <1>1, <1>5, <1>6, <1>7, SessionWrites

-----------------------------------------------------------------------------
(* Importing twice. What an import has put into the tables is found again  *)
(* by the next one.                                                        *)

LEMMA ImportsRepeat == LInv => ImportIsIdempotent
<1> SUFFICES ASSUME LInv, NEW doc \in scene.docs, Committed(db, doc).ok
             PROVE  Committed(Committed(db, doc).db, doc).db = Committed(db, doc).db
  BY DEF ImportIsIdempotent
<1> DEFINE inputs == ParseSessions(doc.source, doc.body)
           located == [p \in Paths |-> NoText]
<1>1. \A d : Committed(d, doc) = Commit(d, files, inputs, located)
  BY DEF Committed
<1>2. inputs \in Seq(InputRows)
  BY ParsedTyped, ScenesAssumption DEF LInv
<1>3. GoodTables(db, Once) /\ FilesTyped(files)
  BY TablesNow DEF LInv, DiskGood
<1> HIDE DEF inputs, located
<1>4. Commit(db, files, inputs, located).ok
  BY <1>1
<1> DEFINE e == Commit(db, files, inputs, located).db
<1>5. Commit(e, files, inputs, located).db = e
  BY <1>2, <1>3, <1>4, CommitTwice
<1>6. QED
  BY <1>1, <1>5

-----------------------------------------------------------------------------
LEMMA BackupsKnown == LInv => BackupIsKnown
<1> SUFFICES ASSUME LInv, NEW target \in {"ternix", "csv", "sshconfig", "mobaxterm", "tabby"},
                    \A s \in DOMAIN db.sessions : Carries(target, db.sessions[s])
             PROVE  Committed(db, [source |-> target, body |-> Export(target, db)]).made = 0
  BY DEF BackupIsKnown
<1> DEFINE located == [p \in Paths |-> NoText]
           q == ParseSessions(target, Export(target, db))
<1>1. Committed(db, [source |-> target, body |-> Export(target, db)]) = Commit(db, files, q, located)
  BY DEF Committed
<1>2. TablesTyped(db)
  BY TablesNow
<1>3. CASE target = "ternix"
  <2>1. q = FromTernix(ToTernix(db))
    BY <1>3 DEF ParseSessions, Export
  <2> HIDE DEF q, located
  <2>2. QED
    BY <1>1, <1>2, <2>1, BackupRecognised
<1>4. CASE target = "csv"
  <2>1. q = FromCsv(ToCsv(db))
    BY <1>4 DEF ParseSessions, Export
  <2>2. \A s \in DOMAIN db.sessions : db.sessions[s].name # NoText
    BY <1>4 DEF Carries
  <2> HIDE DEF q, located
  <2>3. QED
    BY <1>1, <1>2, <2>1, <2>2, CsvRecognised
<1>5. CASE target = "sshconfig"
  <2>1. q = FromSshConfig(ToSshConfig(db))
    BY <1>5 DEF ParseSessions, Export
  <2>2. \A s \in DOMAIN db.sessions : Carries("sshconfig", db.sessions[s])
    BY <1>5
  <2> HIDE DEF q, located
  <2>3. QED
    BY <1>1, <1>2, <2>1, <2>2, SshConfigRecognised
<1>6. CASE target = "mobaxterm"
  <2>1. q = FromMobaXterm(ToMobaXterm(db))
    BY <1>6 DEF ParseSessions, Export
  <2>2. \A s \in DOMAIN db.sessions : db.sessions[s].protocol = "ssh"
    BY <1>6 DEF Carries
  <2> HIDE DEF q, located
  <2>3. QED
    BY <1>1, <1>2, <2>1, <2>2, MobaXtermRecognised
<1>7. CASE target = "tabby"
  <2>1. q = FromTabby(ToTabby(db))
    BY <1>7 DEF ParseSessions, Export
  <2>2. \A s \in DOMAIN db.sessions : Carries("tabby", db.sessions[s])
    BY <1>7
  <2> HIDE DEF q, located
  <2>3. QED
    BY <1>1, <1>2, <2>1, <2>2, TabbyRecognised
<1>8. QED
  BY <1>3, <1>4, <1>5, <1>6, <1>7

(* A document imported a second time adds nothing, with every key file and *)
(* folder it names; an export is recognised in all five formats, whatever  *)
(* the tables hold; and a calm user with one window, who begins with no    *)
(* session twice and has no document that lists one twice, never gets a    *)
(* session twice, whether it is typed, copied, edited or imported          *)
(* (NewSessionDialog.save, export, commitImport).                          *)
THEOREM ImportsAlwaysKnown == Spec => []ImportsAreKnown
<1>1. Init => XInv
  <2>1. Init => WInv /\ db = scene.db /\ \A w \in Windows : assign[w] = NoAssign
    BY ListStarts DEF Init
  <2>2. QED
    BY <2>1, NothingListed DEF XInv, Listing, OneOfEach
<1>2. XInv /\ [Next]_vars => XInv'
  BY ApartStep
<1>3. XInv => ImportsAreKnown
  <2>1. XInv => NoTwins
    BY DEF XInv, Calmly, NoTwins
  <2>2. XInv => LInv
    BY DEF XInv, WInv
  <2>3. QED
    BY <2>1, <2>2, ImportsRepeat, BackupsKnown DEF ImportsAreKnown
<1>4. QED
  BY <1>1, <1>2, <1>3, PTL DEF Spec
=============================================================================
