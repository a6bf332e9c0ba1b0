-------------------------------- MODULE Vault -------------------------------
(***************************************************************************)
(* The vault key: CryptoService over the database, the OS credential store *)
(* and the legacy key file, with planVaultKey.                             *)
(*                                                                         *)
(* loadOrCreateKeychainKey awaits the credential store up to three times   *)
(* (read, write, read back); between those any other call may run, the     *)
(* store may fail, and the program may crash. A database transaction is    *)
(* atomic. AES-GCM is exact: a blob opens under the key it was sealed with *)
(* and under no other.                                                     *)
(***************************************************************************)
EXTENDS FiniteSets

CONSTANTS
  Keys,        (* vault keys, random or derived from a password and a salt *)
  NoKey,       (* no key                                                   *)
  Bad,         (* a credential-store entry, or a zeroed key, that is no key*)
  Calls,       (* removeMasterPassword calls that may be made              *)
  Overlap      (* may a second one start while the first one waits?        *)

ASSUME KeysAssumption == NoKey \notin Keys /\ Bad \notin Keys /\ NoKey # Bad
ASSUME CallsAssumption == "boot" \notin Calls
ASSUME OverlapAssumption == Overlap \in BOOLEAN

(* The users of loadOrCreateKeychainKey: init() and the calls.             *)
Loaders == Calls \cup {"boot"}

VARIABLES
  (* durable *)
  mode,        (* vault_meta.using_keychain: "keychain" or "master"        *)
  mkey,        (* the key that vault_meta's salt and verifier check        *)
  under,       (* the keys that the stored secrets are encrypted under     *)
  chain,       (* the credential store's entry                             *)
  file,        (* the key file                                             *)
  (* in memory *)
  running,     (* has init() resolved?                                     *)
  mem,         (* this.key                                                 *)
  pc,          (* where each load waits                                    *)
  old,         (* oldKey of each removal                                   *)
  alias,       (* the removals whose oldKey is the buffer of this.key      *)
  key,         (* the key a load has decided on                            *)
  hadFile,     (* did the load find a key file?                            *)
  timeout,     (* is lockTimeoutMs above 0?                                *)
  timer        (* is lockTimer running?                                    *)

durable == <<mode, mkey, under, chain, file>>
loading == <<pc, old, alias, key, hadFile>>
idle    == <<timeout, timer>>
vaultvars == <<durable, running, mem, loading, idle>>

(* The key a restart will read, if the credential store can be reached.    *)
DurableKey ==
  CASE mode = "master" -> mkey
    [] mode = "keychain" /\ file # NoKey -> file
    [] OTHER -> chain

(* A fresh vault on any machine; one of a build that kept the key in a file*)
(* and never read the credential store; one with a master password.        *)
VaultInit ==
  /\ chain \in Keys \cup {NoKey, Bad}
  /\ \/ mode = "keychain" /\ mkey = NoKey /\ file = NoKey /\ under = {}
     \/ /\ mode = "keychain" /\ mkey = NoKey
        /\ file \in Keys /\ under \in {{}, {file}}
     \/ /\ mode = "master" /\ file = NoKey
        /\ mkey \in Keys /\ under \in {{}, {mkey}}
  /\ running = FALSE /\ mem = NoKey
  /\ pc = [l \in Loaders |-> "idle"]
  /\ old = [l \in Loaders |-> NoKey]
  /\ alias = {}
  /\ key = [l \in Loaders |-> NoKey]
  /\ hadFile = [l \in Loaders |-> FALSE]
  /\ timeout \in BOOLEAN /\ timer = FALSE

-----------------------------------------------------------------------------
(* planVaultKey.                                                           *)

Refuse == [use |-> "refuse", writeChain |-> FALSE, writeFile |-> FALSE]

(* Mutant of Plan: the credential store wins over the key file.            *)
PlanChainFirst(reachable, inChain, inFile, secrets) ==
  CASE inChain  -> [use |-> "chain", writeChain |-> FALSE, writeFile |-> FALSE]
    [] ~inChain /\ inFile ->
         [use |-> "file", writeChain |-> reachable, writeFile |-> FALSE]
    [] ~inChain /\ ~inFile /\ secrets -> Refuse
    [] OTHER -> [use |-> "new", writeChain |-> reachable, writeFile |-> ~reachable]

(* The file wins; a key is minted only for a vault without secrets. (The   *)
(* file is removed when its key is written to the credential store.)       *)
Plan(reachable, inChain, inFile, secrets) ==
  CASE inFile -> [use |-> "file", writeChain |-> reachable, writeFile |-> FALSE]
    [] ~inFile /\ inChain ->
         [use |-> "chain", writeChain |-> FALSE, writeFile |-> FALSE]
    [] ~inFile /\ ~inChain /\ secrets -> Refuse
    [] OTHER -> [use |-> "new", writeChain |-> reachable, writeFile |-> ~reachable]

(* A random key is unlike every other.                                     *)
Fresh(k) ==
  k \notin {chain, file, mem, mkey} \cup under
           \cup {key[l] : l \in Loaders} \cup {old[l] : l \in Loaders}

-----------------------------------------------------------------------------
(* The continuations of loadOrCreateKeychainKey.                           *)

Goes(l, where) == pc' = [pc EXCEPT ![l] = where]

(* The load rejects: a start fails, a removal is refused.                  *)
Rejected(l) ==
  /\ Goes(l, "idle")
  /\ UNCHANGED <<mode, mkey, under, running, mem, alias>>

(* removeMasterPassword resumes with the new key k: re-encrypt and switch  *)
(* in one transaction, which throws if a secret does not open.             *)
Removed(l, k) ==
  IF under \subseteq {old[l]}
  THEN /\ under' = {k : u \in under}
       /\ mode' = "keychain" /\ mkey' = NoKey
       /\ mem' = k /\ alias' = {}
       /\ Goes(l, "idle")
       /\ UNCHANGED running
  ELSE Rejected(l)

KeyLoaded(l, k) ==
  IF l = "boot"
  THEN /\ mem' = k /\ running' = TRUE
       /\ Goes(l, "idle")
       /\ UNCHANGED <<mode, mkey, under, alias>>
  ELSE Removed(l, k)

(* writeKeyFile may throw.                                                 *)
SavedToFile(l, k) ==
  \/ file' = k /\ KeyLoaded(l, k)
  \/ UNCHANGED file /\ Rejected(l)

(* The keys that a plan may mean.                                          *)
Candidates(use) ==
  CASE use = "file"  -> {file}
    [] use = "chain" -> {chain}
    [] use = "new"   -> {k \in Keys : Fresh(k)}
    [] OTHER         -> {}

(* The read of the credential store returns; the plan is made of it and of *)
(* the key file as it is now. Only init() asks about stored secrets.       *)
Probed(l, reachable) ==
  /\ pc[l] = "reading"
  /\ LET plan == Plan(reachable, reachable /\ chain \in Keys, file # NoKey,
                      l = "boot" /\ under # {})
     IN \/ /\ plan.use = "refuse"
           /\ Rejected(l) /\ UNCHANGED <<file, key, hadFile>>
        \/ \E k \in Candidates(plan.use) :
             \/ /\ plan.writeChain
                /\ Goes(l, "writing")
                /\ key' = [key EXCEPT ![l] = k]
                /\ hadFile' = [hadFile EXCEPT ![l] = (plan.use = "file")]
                /\ UNCHANGED <<mode, mkey, under, running, mem, alias, file>>
             \/ /\ ~plan.writeChain
                /\ IF plan.writeFile THEN SavedToFile(l, k)
                                     ELSE UNCHANGED file /\ KeyLoaded(l, k)
                /\ UNCHANGED <<key, hadFile>>
  /\ UNCHANGED <<chain, old, idle>>

(* writeAndVerifyKeychain did not get the key back: it stays on disk.      *)
NotStored(l) ==
  IF hadFile[l] THEN UNCHANGED file /\ KeyLoaded(l, key[l])
                ELSE SavedToFile(l, key[l])

(* setPassword resolves (and the entry is to be read back) or rejects; in  *)
(* both cases the store may hold something else than it was given.         *)
Written(l) ==
  /\ pc[l] = "writing"
  /\ \/ /\ chain' \in {key[l], Bad}
        /\ Goes(l, "checking")
        /\ UNCHANGED <<mode, mkey, under, running, mem, alias, file>>
     \/ /\ chain' \in {chain, key[l], Bad}
        /\ NotStored(l)
  /\ UNCHANGED <<old, key, hadFile, idle>>

(* Mutant of Checked: what was read back is not compared.                  *)
CheckedBlindly(l, reachable) ==
  /\ pc[l] = "checking"
  /\ (file' = NoKey \/ UNCHANGED file) /\ KeyLoaded(l, key[l])
  /\ UNCHANGED <<chain, old, key, hadFile, idle>>

(* The read-back returns. Removing the file is best effort.                *)
Checked(l, reachable) ==
  /\ pc[l] = "checking"
  /\ IF reachable /\ chain = key[l]
     THEN /\ IF hadFile[l] THEN file' \in {NoKey, file} ELSE UNCHANGED file
          /\ KeyLoaded(l, key[l])
     ELSE NotStored(l)
  /\ UNCHANGED <<chain, old, key, hadFile, idle>>

LoadStep(l) ==
  \/ \E reachable \in BOOLEAN : Probed(l, reachable) \/ Checked(l, reachable)
  \/ Written(l)

-----------------------------------------------------------------------------
(* Start and end of the program.                                           *)

Halted == ~running /\ \A l \in Loaders : pc[l] = "idle"

(* init().                                                                 *)
Boot ==
  /\ Halted
  /\ IF mode = "master" THEN running' = TRUE /\ UNCHANGED pc
                        ELSE Goes("boot", "reading") /\ UNCHANGED running
  /\ UNCHANGED <<durable, mem, old, alias, key, hadFile, idle>>

(* A crash, or a quit: only what is durable survives. A write of the       *)
(* credential store that was under way may have happened, or half happened.*)
Crash ==
  /\ ~Halted
  /\ running' = FALSE /\ mem' = NoKey
  /\ pc' = [l \in Loaders |-> "idle"]
  /\ old' = [l \in Loaders |-> NoKey]
  /\ alias' = {}
  /\ key' = [l \in Loaders |-> NoKey]
  /\ hadFile' = [l \in Loaders |-> FALSE]
  /\ timer' = FALSE
  /\ \/ UNCHANGED chain
     \/ \E l \in Loaders : pc[l] = "writing" /\ chain' \in {key[l], Bad}
  /\ UNCHANGED <<mode, mkey, under, file, timeout>>

-----------------------------------------------------------------------------
(* Calls of the running program. Each one comes over IPC and touches the   *)
(* idle timer first.                                                       *)

Touched == timer \/ (mode = "master" /\ timeout)

Touch ==
  /\ running /\ timer' = Touched
  /\ UNCHANGED <<durable, running, mem, loading, timeout>>

(* setLockTimeout: a timer that runs is not stopped by "never".            *)
SetTimeout(on) ==
  /\ running
  /\ timeout' = on
  /\ timer' = (Touched \/ (mode = "master" /\ on))
  /\ UNCHANGED <<durable, running, mem, loading>>

(* lock(): the buffer is zeroed, also for a removal that still needs it.   *)
Locked ==
  /\ mem' = NoKey
  /\ old' = [l \in Loaders |-> IF l \in alias THEN Bad ELSE old[l]]
  /\ alias' = {}
  /\ timer' = FALSE
  /\ UNCHANGED <<durable, running, pc, key, hadFile, timeout>>

(* vault:lock, and the system going to sleep.                              *)
Lock == running /\ mode = "master" /\ Locked

TimerFires ==
  /\ running /\ timer
  /\ IF mode = "master" THEN Locked
     ELSE timer' = FALSE /\ UNCHANGED <<durable, running, mem, loading, timeout>>

(* unlock with the right password: a new buffer with the key.              *)
UnlockVault ==
  /\ running /\ mode = "master"
  /\ mem' = mkey /\ alias' = {} /\ timer' = Touched
  /\ UNCHANGED <<durable, running, pc, old, key, hadFile, timeout>>

(* encrypt() for a session or a key that is saved.                         *)
SaveSecret ==
  /\ running /\ mem # NoKey
  /\ under' = under \cup {mem} /\ timer' = Touched
  /\ UNCHANGED <<mode, mkey, chain, file, running, mem, loading, timeout>>

DeleteSecrets ==
  /\ running /\ under # {}
  /\ under' = {} /\ timer' = Touched
  /\ UNCHANGED <<mode, mkey, chain, file, running, mem, loading, timeout>>

(* setMasterPassword, the current password being right; it throws and      *)
(* changes nothing when a secret does not open.                            *)
SetMasterPassword(k) ==
  /\ running /\ Fresh(k)
  /\ LET now == IF mode = "master" THEN mkey ELSE mem
     IN under \subseteq {now} /\ now # NoKey
  /\ under' = {k : u \in under}
  /\ mode' = "master" /\ mkey' = k /\ mem' = k /\ alias' = {}
  /\ timer' = Touched
  /\ UNCHANGED <<chain, file, running, pc, old, key, hadFile, timeout>>

(* removeMasterPassword with the right password, up to its first await.    *)
RemoveMasterPassword(c) ==
  /\ running /\ mode = "master" /\ pc[c] = "idle"
  /\ Overlap \/ \A l \in Loaders : pc[l] = "idle"
  /\ mem' = mkey /\ alias' = {c}
  /\ old' = [old EXCEPT ![c] = mkey]
  /\ Goes(c, "reading")
  /\ timer' = Touched
  /\ UNCHANGED <<durable, running, key, hadFile, timeout>>

-----------------------------------------------------------------------------

VaultNext ==
  \/ Boot \/ Crash
  \/ \E l \in Loaders : LoadStep(l)
  \/ Touch \/ Lock \/ TimerFires \/ UnlockVault \/ SaveSecret \/ DeleteSecrets
  \/ \E on \in BOOLEAN : SetTimeout(on)
  \/ \E k \in Keys : SetMasterPassword(k)
  \/ \E c \in Calls : RemoveMasterPassword(c)

VaultSpec == VaultInit /\ [][VaultNext]_vaultvars

-----------------------------------------------------------------------------

(* The shape of the state: a vault has a verifier exactly in master mode.  *)
VaultTyped ==
  /\ mode \in {"keychain", "master"}
  /\ mkey \in Keys \cup {NoKey} /\ (mode = "master" <=> mkey # NoKey)
  /\ under \subseteq Keys
  /\ chain \in Keys \cup {NoKey, Bad}
  /\ file \in Keys \cup {NoKey}
  /\ running \in BOOLEAN
  /\ mem \in Keys \cup {NoKey}
  /\ pc \in [Loaders -> {"idle", "reading", "writing", "checking"}]
  /\ old \in [Loaders -> Keys \cup {NoKey, Bad}]
  /\ alias \subseteq Calls
  /\ key \in [Loaders -> Keys \cup {NoKey}]
  /\ hadFile \in [Loaders -> BOOLEAN]
  /\ timeout \in BOOLEAN /\ timer \in BOOLEAN

(***************************************************************************)
(* Nothing that was saved is ever lost: at every moment, should the        *)
(* program crash in it, all secrets are encrypted under the one key that   *)
(* the next start will read (vaultKeyPlan.ts: "protect data that cannot be *)
(* recovered").                                                            *)
(***************************************************************************)
SecretsReadable == under \subseteq {DurableKey}

(***************************************************************************)
(* The key in memory, under which the next secret will be saved, is the    *)
(* one the next start will read.                                           *)
(***************************************************************************)
MemoryIsDurable == mem # NoKey => mem = DurableKey

=============================================================================
