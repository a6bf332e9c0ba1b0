------------------------------ MODULE KeyVault ------------------------------
(***************************************************************************)
(* The vault of SSH keys (electron/services/KeyService.ts): how a key gets *)
(* in, by hand or from a file. A file on disk is a private key or not, and *)
(* a private key can be parsed without its passphrase or not; only a       *)
(* parsed key has a fingerprint.                                           *)
(***************************************************************************)
EXTENDS Database

CONSTANTS Paths,      \* paths of files on this machine, NoText is none
          BaseOf,     \* [Paths -> Names]: the file name at the end of a path
          HomeOf      \* [Names -> Paths]: that file in ~/.ssh, where there is one

ASSUME PathsAssumption ==
    NoText \in Paths /\ Paths \subseteq STRING /\ BaseOf \in [Paths -> Names] /\ HomeOf \in [Names -> Paths]

KeyFiles == [key : BOOLEAN, plain : BOOLEAN, fp : Fingerprints]

IsKey(files, path) == path \in DOMAIN files /\ files[path].key

\* What a look at a file tells: unreadable, encrypted, or its fingerprint.
InspectKeyFile(files, path) ==
    IF ~IsKey(files, path) THEN [read |-> FALSE, encrypted |-> FALSE, fp |-> NoText]
    ELSE [read |-> TRUE, encrypted |-> ~files[path].plain,
          fp |-> IF files[path].plain THEN files[path].fp ELSE NoText]

\* The key a file holds, put into the vault unless the vault has one with its fingerprint
\* or, when it cannot be parsed, with its name.
Keep(d, known, name, fp) == IF known # None THEN [id |-> known, db |-> d] ELSE KeysInsert(d, name, fp)
EnsureKey(d, seen, name) ==
    IF ~seen.read THEN [id |-> None, db |-> d]
    ELSE Keep(d, IF seen.encrypted THEN KeysByName(d, name) ELSE KeysByFingerprint(d, seen.fp), name, seen.fp)
EnsureKeyFromFile(d, files, path, name) == EnsureKey(d, InspectKeyFile(files, path), name)

\* ~/.ssh into the vault: the keys that can be parsed and are not there yet.
ImportFromDir(d, files) ==
    LET here == {p \in DOMAIN files : HomeOf[BaseOf[p]] = p /\ files[p].key /\ files[p].plain}
        Add(r, p) == IF KeysByFingerprint(r.db, files[p].fp) # None THEN r
                     ELSE Done(KeysInsert(r.db, BaseOf[p], files[p].fp).db)
    IN FoldLeft(Add, Done(d), SetToSeq(here))

\* One pasted or picked key, and one made on the spot: neither looks for its like in the vault.
KeysImport(d, body, name, passphrase) ==
    IF body.key /\ (body.plain \/ passphrase) THEN KeysInsert(d, name, body.fp) ELSE Refused(d)
KeysGenerate(d, name, fresh) == KeysInsert(d, name, fresh)
=============================================================================
