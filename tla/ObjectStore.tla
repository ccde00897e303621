---------------------------- MODULE ObjectStore ----------------------------
(***************************************************************************)
(* The artifact object store of rsolve-repository: commit_artifact (with   *)
(* or without an expectation) and probe_artifact.                          *)
(*                                                                         *)
(* Archives are stored once, under their SHA-256 digest.  A descriptor,    *)
(* what a caller knows of an archive before it has it, leads to an object  *)
(* through a metadata document of its own.  A call holds the lock of its   *)
(* descriptor from its first look at the metadata to its return; only      *)
(* while it publishes does it also hold the lock of the object.  A reader  *)
(* of an object never takes the object's lock.                             *)
(*                                                                         *)
(* Any number of invocations share the store.  They may be killed at any   *)
(* step, any of their I/O calls may fail, a stored object may rot, and the *)
(* machine may lose power: `objectImages` and `metadataImages` hold, name  *)
(* by name, what a power loss at this moment may leave there.              *)
(*                                                                         *)
(* Data: the content of an archive is a record of what the checks look at; *)
(* SHA-256 has no collisions, so a digest is the content it is taken of.   *)
(***************************************************************************)
EXTENDS Integers

CONSTANTS
  Invocations,   \* calls of the store; each is also the nonce of its temporaries
  Contents,      \* streams a reader may deliver: [bytes, md5, size, archive]
  Requests,      \* [op, locator, checksums, size, expectation]
  HardLimit,     \* MAX_COMPRESSED_INPUT_BYTES
  MayKill,       \* an invocation may die between two steps
  MayFail,       \* an I/O call may return an error
  MayMisread,    \* a failed look at a file may be taken for its absence or damage
  MayRot,        \* a stored object may be damaged from outside, once per digest
  MayLosePower,  \* the machine may lose power
  Absent,        \* no file under this name, and: no digest known yet
  Corrupt,       \* bytes damaged from outside
  Torn,          \* what a power loss leaves of a file that was not synced
  None,          \* Option::None in a request
  Unreadable,    \* the archive of a content that is no gzip tar archive
  NoOne          \* nobody holds the lock

ASSUME SwitchesAssumption == {MayKill, MayFail, MayMisread, MayRot, MayLosePower} \subseteq BOOLEAN

ASSUME SentinelsAssumption ==
  /\ NoOne \notin Invocations
  /\ {Absent, Corrupt, Torn} \cap Contents = {}
  /\ Absent # Corrupt /\ Absent # Torn /\ Corrupt # Torn

VARIABLES
  objects,         \* objects/sources/sha256/<shard>/<digest>
  objectImages,    \* per digest, what a power loss may leave under that name
  metadata,        \* artifacts/sources/sha256/<shard>/<descriptor>.json: the digest it names
  metadataImages,  \* per descriptor, what a power loss may leave under that name
  partial,         \* the .partial. file of every invocation
  quarantine,      \* the .corrupt. file of every invocation
  metadataTemp,    \* the .json.tmp. file of every invocation
  descriptorLock,  \* the holder of every descriptor's lock
  objectLock,      \* the holder of every object's lock
  pc,              \* the next step of every invocation
  req,             \* the request every invocation was given
  sha256,          \* the digest every invocation is working on
  result,          \* what every invocation returned
  rotted           \* the digests whose object was damaged

stored == <<objects, objectImages, metadata, metadataImages>>
temporaries == <<partial, quarantine, metadataTemp>>
locks == <<descriptorLock, objectLock>>
vars == <<stored, temporaries, locks, pc, req, sha256, result, rotted>>

(***************************************************************************)
(* Checksums, descriptors and contents                                     *)
(***************************************************************************)

\* validate_checksums: algorithms it knows, and one value for each.
ChecksumsValid(declared) ==
  /\ \A d \in declared : d.algorithm \in {"md5", "sha256"}
  /\ \A d, e \in declared : d.algorithm = e.algorithm => d = e

Checksum(declared, algorithm) ==
  IF \E d \in declared : d.algorithm = algorithm
  THEN (CHOOSE d \in declared : d.algorithm = algorithm).value
  ELSE None

\* descriptor_key and descriptor_key_with_expectation, whose hash is injective.
DescriptorKey(r) ==
  [locator |-> r.locator, md5 |-> Checksum(r.checksums, "md5"),
   sha256 |-> Checksum(r.checksums, "sha256"), size |-> r.size, expectation |-> r.expectation]

Keys == {DescriptorKey(r) : r \in Requests}

Key(i) == DescriptorKey(req[i])

\* copy_compressed_input accepts exactly the declared size, or at most the limit.
SizeAccepted(c, r) == IF r.size = None THEN c.size <= HardLimit ELSE c.size = r.size

\* The comparison with the declared digests, after the copy and on every hit.
ChecksumsMatch(c, r) ==
  /\ Checksum(r.checksums, "sha256") \in {None, c.bytes}
  /\ Checksum(r.checksums, "md5") \in {None, c.md5}

\* validate_source_archive: a readable archive and, where an identity is expected,
\* a DESCRIPTION with that identity.
ArchiveValid(c, r) ==
  /\ c.archive # Unreadable
  /\ r.expectation \in {None, c.archive}

\* Everything the request r says of its archive, and every request with that key.
Satisfies(c, r) == SizeAccepted(c, r) /\ ChecksumsMatch(c, r) /\ ArchiveValid(c, r)

SatisfiesKey(c, k) == \A r \in Requests : DescriptorKey(r) = k => Satisfies(c, r)

\* validate_object: the bytes stored under a digest still have that digest.
Intact(d) == objects[d] = d

(***************************************************************************)
(* Control                                                                 *)
(***************************************************************************)

\* Steps before the object lock is taken, and with it.
LookupSteps == {"load", "validate", "hitReadOnly"}
FillSteps == {"create", "copy", "verify", "lockObject"}
PublishSteps == {"move", "syncMoved", "publish", "removeLosing", "quarantine", "replace",
                 "restore", "dropQuarantine", "place", "readOnly", "syncObject"}
MetadataSteps == {"tempCreate", "tempWrite", "tempRename", "metadataSync"}
Steps == {"idle", "lock", "done"} \cup LookupSteps \cup FillSteps \cup PublishSteps
           \cup MetadataSteps

Results == {"none", "stored", "hit", "miss", "invalid", "corrupt", "mismatch", "archive",
            "io", "recovery", "killed"}

Active(i) == pc[i] \notin {"idle", "done"}

Goto(i, from, to) ==
  /\ pc[i] = from
  /\ pc' = [pc EXCEPT ![i] = to]
  /\ UNCHANGED <<locks, req, result, rotted>>

\* Mutant: the lock of the object outlives the call.
ReturnHoldingObjectLock(i, outcome) ==
  /\ pc' = [pc EXCEPT ![i] = "done"]
  /\ result' = [result EXCEPT ![i] = outcome]
  /\ descriptorLock' = [k \in Keys |-> IF descriptorLock[k] = i THEN NoOne ELSE descriptorLock[k]]
  /\ UNCHANGED <<objectLock, req, rotted>>

\* Leaving commit_artifact or probe_artifact closes both lock files.
Return(i, outcome) ==
  /\ pc' = [pc EXCEPT ![i] = "done"]
  /\ result' = [result EXCEPT ![i] = outcome]
  /\ descriptorLock' = [k \in Keys |-> IF descriptorLock[k] = i THEN NoOne ELSE descriptorLock[k]]
  /\ objectLock' = [d \in Contents |-> IF objectLock[d] = i THEN NoOne ELSE objectLock[d]]
  /\ UNCHANGED <<req, rotted>>

\* An error of commit_miss: the caller removes the partial under its first name,
\* and the error paths after the move remove it under its second.
Abort(i, outcome) ==
  /\ partial' = [partial EXCEPT ![i] = Absent]
  /\ Return(i, outcome)

(***************************************************************************)
(* What the file system does (external)                                    *)
(***************************************************************************)

\* A create, rename or remove under the name of digest d, durable at any time
\* until the shard is synced.
PutObject(d, bytes, synced) ==
  /\ objects' = [objects EXCEPT ![d] = bytes]
  /\ objectImages' = [objectImages EXCEPT ![d] = @ \cup {bytes} \cup IF synced THEN {} ELSE {Torn}]

PutMetadata(k, doc, synced) ==
  /\ metadata' = [metadata EXCEPT ![k] = doc]
  /\ metadataImages' = [metadataImages EXCEPT ![k] = @ \cup {doc} \cup IF synced THEN {} ELSE {Torn}]

\* sync_directory of the object's shard, and of the metadata's directory.
SyncShard(d) ==
  /\ objectImages' = [objectImages EXCEPT ![d] = {objects[d]}]
  /\ UNCHANGED <<objects, metadata, metadataImages>>

SyncMetadata(k) ==
  /\ metadataImages' = [metadataImages EXCEPT ![k] = {metadata[k]}]
  /\ UNCHANGED <<objects, objectImages, metadata>>

(***************************************************************************)
(* commit_artifact and probe_artifact up to load_hit                       *)
(***************************************************************************)

Start(i) ==
  /\ pc[i] = "idle"
  /\ \/ ChecksumsValid(req[i].checksums) /\ Goto(i, "idle", "lock")
     \/ ~ChecksumsValid(req[i].checksums) /\ Return(i, "invalid")
  /\ UNCHANGED <<stored, temporaries, sha256>>

Lock(i) ==
  /\ pc[i] = "lock"
  /\ descriptorLock[Key(i)] = NoOne
  /\ descriptorLock' = [descriptorLock EXCEPT ![Key(i)] = i]
  /\ pc' = [pc EXCEPT ![i] = "load"]
  /\ UNCHANGED <<stored, temporaries, objectLock, req, sha256, result, rotted>>

\* load_hit: no metadata is a miss.
Load(i) ==
  /\ pc[i] = "load"
  /\ \/ metadata[Key(i)] = Absent /\ req[i].op = "probe" /\ Return(i, "miss")
     \/ metadata[Key(i)] = Absent /\ req[i].op = "commit" /\ Goto(i, "load", "create")
     \/ metadata[Key(i)] # Absent /\ Goto(i, "load", "validate")
  /\ sha256' = [sha256 EXCEPT ![i] = metadata[Key(i)]]
  /\ UNCHANGED <<stored, temporaries>>

\* validate_object_full for the request r.
HitValid(d, r) == Intact(d) /\ SizeAccepted(d, r) /\ ChecksumsMatch(d, r)

\* Mutant: a corrupt object is reported as a miss.
ValidateOrMiss(i) ==
  /\ pc[i] = "validate"
  /\ IF sha256[i] \in Contents /\ HitValid(sha256[i], req[i])
     THEN Goto(i, "validate", "hitReadOnly")
     ELSE Return(i, "miss")
  /\ UNCHANGED <<stored, temporaries, sha256>>

\* read_metadata and validate_object_full, under the descriptor's lock only.
Validate(i) ==
  /\ pc[i] = "validate"
  /\ IF sha256[i] \in Contents /\ HitValid(sha256[i], req[i])
     THEN Goto(i, "validate", "hitReadOnly")
     ELSE Return(i, IF sha256[i] \in Contents THEN "corrupt" ELSE "invalid")
  /\ UNCHANGED <<stored, temporaries, sha256>>

\* make_read_only finds the object by its name again.
HitReadOnly(i) ==
  /\ pc[i] = "hitReadOnly"
  /\ Return(i, IF objects[sha256[i]] = Absent THEN "corrupt" ELSE "hit")
  /\ UNCHANGED <<stored, temporaries, sha256>>

(***************************************************************************)
(* commit_miss                                                             *)
(***************************************************************************)

CreatePartial(i) ==
  /\ Goto(i, "create", "copy")
  /\ partial' = [partial EXCEPT ![i] = [bytes |-> Torn, synced |-> FALSE]]
  /\ UNCHANGED <<stored, quarantine, metadataTemp, sha256>>

\* copy_compressed_input: whatever the reader delivers, up to its bound.
Copy(i) ==
  /\ pc[i] = "copy"
  /\ \E c \in Contents :
        /\ sha256' = [sha256 EXCEPT ![i] = c]
        /\ \/ /\ SizeAccepted(c, req[i])
              /\ partial' = [partial EXCEPT ![i] = [bytes |-> c, synced |-> FALSE]]
              /\ Goto(i, "copy", "verify")
           \/ ~SizeAccepted(c, req[i]) /\ Abort(i, "mismatch")
  /\ UNCHANGED <<stored, quarantine, metadataTemp>>

\* Mutant: the partial is published without having been synced.
VerifyUnsynced(i) ==
  /\ pc[i] = "verify"
  /\ \/ Satisfies(sha256[i], req[i]) /\ Goto(i, "verify", "lockObject") /\ UNCHANGED partial
     \/ ~Satisfies(sha256[i], req[i]) /\ Abort(i, "mismatch")
  /\ UNCHANGED <<stored, quarantine, metadataTemp, sha256>>

\* Sync of the partial, comparison of its digests, validate_source_archive.
Verify(i) ==
  /\ pc[i] = "verify"
  /\ \/ /\ ChecksumsMatch(sha256[i], req[i]) /\ ArchiveValid(sha256[i], req[i])
        /\ partial' = [partial EXCEPT ![i] = [bytes |-> sha256[i], synced |-> TRUE]]
        /\ Goto(i, "verify", "lockObject")
     \/ ~ChecksumsMatch(sha256[i], req[i]) /\ Abort(i, "mismatch")
     \/ ChecksumsMatch(sha256[i], req[i]) /\ ~ArchiveValid(sha256[i], req[i]) /\ Abort(i, "archive")
  /\ UNCHANGED <<stored, quarantine, metadataTemp, sha256>>

LockObject(i) ==
  /\ pc[i] = "lockObject"
  /\ objectLock[sha256[i]] = NoOne
  /\ objectLock' = [objectLock EXCEPT ![sha256[i]] = i]
  /\ pc' = [pc EXCEPT ![i] = "move"]
  /\ UNCHANGED <<stored, temporaries, descriptorLock, req, sha256, result, rotted>>

\* The partial is renamed into the object's shard, and the shard is synced.
Move(i) ==
  /\ Goto(i, "move", "syncMoved")
  /\ UNCHANGED <<stored, temporaries, sha256>>

SyncMoved(i) ==
  /\ Goto(i, "syncMoved", "publish")
  /\ SyncShard(sha256[i])
  /\ UNCHANGED <<temporaries, sha256>>

(***************************************************************************)
(* publish_object_with_fs, under the lock of the object                    *)
(***************************************************************************)

\* Mutant: an object that is there is replaced, intact or not.
PublishAlwaysReplacing(i) ==
  /\ Goto(i, "publish", IF objects[sha256[i]] = Absent THEN "place" ELSE "quarantine")
  /\ UNCHANGED <<stored, temporaries, sha256>>

Publish(i) ==
  /\ Goto(i, "publish", IF objects[sha256[i]] = Absent THEN "place"
                        ELSE IF Intact(sha256[i]) THEN "removeLosing" ELSE "quarantine")
  /\ UNCHANGED <<stored, temporaries, sha256>>

RemoveLosing(i) ==
  /\ Goto(i, "removeLosing", "readOnly")
  /\ partial' = [partial EXCEPT ![i] = Absent]
  /\ UNCHANGED <<stored, quarantine, metadataTemp, sha256>>

Quarantine(i) ==
  /\ Goto(i, "quarantine", "replace")
  /\ quarantine' = [quarantine EXCEPT ![i] = objects[sha256[i]]]
  /\ PutObject(sha256[i], Absent, TRUE)
  /\ UNCHANGED <<metadata, metadataImages, partial, metadataTemp, sha256>>

\* The partial is renamed to the object, where there was none or in place of the
\* quarantined one.
PlacePartial(i) ==
  /\ PutObject(sha256[i], partial[i].bytes, partial[i].synced)
  /\ partial' = [partial EXCEPT ![i] = Absent]
  /\ UNCHANGED <<metadata, metadataImages, quarantine, metadataTemp, sha256>>

Place(i) == Goto(i, "place", "readOnly") /\ PlacePartial(i)

Replace(i) == Goto(i, "replace", "dropQuarantine") /\ PlacePartial(i)

DropQuarantine(i) ==
  /\ Goto(i, "dropQuarantine", "readOnly")
  /\ quarantine' = [quarantine EXCEPT ![i] = Absent]
  /\ UNCHANGED <<stored, partial, metadataTemp, sha256>>

\* The replacement could not be published: the old bytes go back to their name.
Restore(i) ==
  /\ pc[i] = "restore"
  /\ IF objects[sha256[i]] = Absent
     THEN /\ PutObject(sha256[i], quarantine[i], TRUE)
          /\ quarantine' = [quarantine EXCEPT ![i] = Absent]
     ELSE UNCHANGED <<objects, objectImages, quarantine>>
  /\ Return(i, "io")
  /\ UNCHANGED <<metadata, metadataImages, partial, metadataTemp, sha256>>

\* make_read_only
ReadOnly(i) ==
  /\ Goto(i, "readOnly", "syncObject")
  /\ UNCHANGED <<stored, temporaries, sha256>>

\* Mutant: the metadata is written before the shard is synced.
SyncObjectSkipped(i) ==
  /\ Goto(i, "syncObject", "tempCreate")
  /\ UNCHANGED <<stored, temporaries, sha256>>

SyncObject(i) ==
  /\ Goto(i, "syncObject", "tempCreate")
  /\ SyncShard(sha256[i])
  /\ UNCHANGED <<temporaries, sha256>>

(***************************************************************************)
(* commit_metadata                                                         *)
(***************************************************************************)

TempCreate(i) ==
  /\ Goto(i, "tempCreate", "tempWrite")
  /\ metadataTemp' = [metadataTemp EXCEPT ![i] = [doc |-> Torn, synced |-> FALSE]]
  /\ UNCHANGED <<stored, partial, quarantine, sha256>>

TempWrite(i) ==
  /\ Goto(i, "tempWrite", "tempRename")
  /\ metadataTemp' = [metadataTemp EXCEPT ![i] = [doc |-> sha256[i], synced |-> TRUE]]
  /\ UNCHANGED <<stored, partial, quarantine, sha256>>

TempRename(i) ==
  /\ Goto(i, "tempRename", "metadataSync")
  /\ PutMetadata(Key(i), metadataTemp[i].doc, metadataTemp[i].synced)
  /\ metadataTemp' = [metadataTemp EXCEPT ![i] = Absent]
  /\ UNCHANGED <<objects, objectImages, partial, quarantine, sha256>>

MetadataSync(i) ==
  /\ pc[i] = "metadataSync"
  /\ SyncMetadata(Key(i))
  /\ Return(i, "stored")
  /\ UNCHANGED <<temporaries, sha256>>

(***************************************************************************)
(* Failures                                                                *)
(***************************************************************************)

\* An I/O error that leaves nothing to remove.
FailPlain(i) ==
  /\ MayFail
  /\ pc[i] \in {"lock", "load", "validate", "hitReadOnly", "create", "readOnly", "syncObject",
                "tempCreate", "metadataSync"}
  /\ Return(i, "io")
  /\ UNCHANGED <<stored, temporaries, sha256>>

\* An I/O error before the partial is moved.
FailFill(i) ==
  /\ MayFail
  /\ pc[i] \in {"copy", "verify", "lockObject", "move"}
  /\ Abort(i, "io")
  /\ UNCHANGED <<stored, quarantine, metadataTemp, sha256>>

\* Mutant: only the first name of the partial is cleaned up.
FailMovedKeepingPartial(i) ==
  /\ MayFail
  /\ pc[i] \in {"syncMoved", "removeLosing", "quarantine", "place"}
  /\ Return(i, "io")
  /\ UNCHANGED <<stored, temporaries, sha256>>

\* An I/O error between the move of the partial and its publication.
FailMoved(i) ==
  /\ MayFail
  /\ pc[i] \in {"syncMoved", "removeLosing", "quarantine", "place"}
  /\ Abort(i, "io")
  /\ UNCHANGED <<stored, quarantine, metadataTemp, sha256>>

\* The rename over the quarantined object fails.
FailReplace(i) ==
  /\ MayFail
  /\ Goto(i, "replace", "restore")
  /\ partial' = [partial EXCEPT ![i] = Absent]
  /\ UNCHANGED <<stored, quarantine, metadataTemp, sha256>>

\* So does the way back (ReplacementRecovery); or the quarantine cannot be removed.
FailQuarantine(i) ==
  /\ MayFail
  /\ \/ pc[i] = "restore" /\ objects[sha256[i]] = Absent /\ Return(i, "recovery")
     \/ pc[i] = "dropQuarantine" /\ Return(i, "io")
  /\ UNCHANGED <<stored, temporaries, sha256>>

\* commit_metadata removes its temporary.
FailTemp(i) ==
  /\ MayFail
  /\ pc[i] \in {"tempWrite", "tempRename"}
  /\ metadataTemp' = [metadataTemp EXCEPT ![i] = Absent]
  /\ Return(i, "io")
  /\ UNCHANGED <<stored, partial, quarantine, sha256>>

\* Path::exists in load_hit swallows an error: metadata that is there is a miss.
LoadMisread(i) ==
  /\ MayMisread
  /\ pc[i] = "load"
  /\ metadata[Key(i)] # Absent
  /\ IF req[i].op = "probe" THEN Return(i, "miss") ELSE Goto(i, "load", "create")
  /\ UNCHANGED <<stored, temporaries, sha256>>

\* Path::exists and validate_object in publish_object_with_fs: an object that cannot
\* be looked at is treated as absent, one that cannot be read as corrupt.
PublishMisread(i) ==
  /\ MayMisread
  /\ pc[i] = "publish"
  /\ objects[sha256[i]] # Absent
  /\ \E to \in {"place", "quarantine"} : Goto(i, "publish", to)
  /\ UNCHANGED <<stored, temporaries, sha256>>

Kill(i) ==
  /\ MayKill
  /\ Active(i)
  /\ Return(i, "killed")
  /\ UNCHANGED <<stored, temporaries, sha256>>

\* The bytes of a stored object are damaged where they are.
Rot(d) ==
  /\ MayRot
  /\ d \notin rotted
  /\ Intact(d)
  /\ objects' = [objects EXCEPT ![d] = Corrupt]
  /\ objectImages' = [objectImages EXCEPT ![d] = {IF b = d THEN Corrupt ELSE b : b \in @}]
  /\ rotted' = rotted \cup {d}
  /\ UNCHANGED <<metadata, metadataImages, temporaries, locks, pc, req, sha256, result>>

PowerLoss ==
  /\ MayLosePower
  /\ objects' \in {f \in [Contents -> UNION {objectImages[d] : d \in Contents}] :
                     \A d \in Contents : f[d] \in objectImages[d]}
  /\ metadata' \in {f \in [Keys -> UNION {metadataImages[k] : k \in Keys}] :
                      \A k \in Keys : f[k] \in metadataImages[k]}
  /\ objectImages' = [d \in Contents |-> {objects'[d]}]
  /\ metadataImages' = [k \in Keys |-> {metadata'[k]}]
  /\ descriptorLock' = [k \in Keys |-> NoOne]
  /\ objectLock' = [d \in Contents |-> NoOne]
  /\ pc' = [i \in Invocations |-> IF Active(i) THEN "done" ELSE pc[i]]
  /\ result' = [i \in Invocations |-> IF Active(i) THEN "killed" ELSE result[i]]
  /\ UNCHANGED <<temporaries, req, sha256, rotted>>

(***************************************************************************)
(* The specification                                                       *)
(***************************************************************************)

Init ==
  /\ objects = [d \in Contents |-> Absent]
  /\ objectImages = [d \in Contents |-> {Absent}]
  /\ metadata = [k \in Keys |-> Absent]
  /\ metadataImages = [k \in Keys |-> {Absent}]
  /\ partial = [i \in Invocations |-> Absent]
  /\ quarantine = [i \in Invocations |-> Absent]
  /\ metadataTemp = [i \in Invocations |-> Absent]
  /\ descriptorLock = [k \in Keys |-> NoOne]
  /\ objectLock = [d \in Contents |-> NoOne]
  /\ pc = [i \in Invocations |-> "idle"]
  /\ req \in [Invocations -> Requests]
  /\ sha256 = [i \in Invocations |-> Absent]
  /\ result = [i \in Invocations |-> "none"]
  /\ rotted = {}

Lookup(i) == Start(i) \/ Lock(i) \/ Load(i) \/ Validate(i) \/ HitReadOnly(i)

Fill(i) == CreatePartial(i) \/ Copy(i) \/ Verify(i) \/ LockObject(i) \/ Move(i) \/ SyncMoved(i)

PublishObject(i) ==
  \/ Publish(i) \/ RemoveLosing(i) \/ Quarantine(i) \/ Replace(i) \/ DropQuarantine(i)
  \/ Restore(i) \/ Place(i) \/ ReadOnly(i) \/ SyncObject(i)

CommitMetadata(i) == TempCreate(i) \/ TempWrite(i) \/ TempRename(i) \/ MetadataSync(i)

Step(i) == Lookup(i) \/ Fill(i) \/ PublishObject(i) \/ CommitMetadata(i)

IoFails(i) ==
  \/ FailPlain(i) \/ FailFill(i) \/ FailMoved(i) \/ FailReplace(i) \/ FailQuarantine(i)
  \/ FailTemp(i)

Misread(i) == LoadMisread(i) \/ PublishMisread(i)

Next ==
  \/ \E i \in Invocations : Step(i) \/ IoFails(i) \/ Misread(i) \/ Kill(i)
  \/ \E d \in Contents : Rot(d)
  \/ PowerLoss

Spec == Init /\ [][Next]_vars

\* An invocation that was started keeps running; a file lock is granted to one of
\* those that wait for it.
FairSpec == Spec /\ \A i \in Invocations : WF_vars(Step(i) /\ pc[i] # "idle")

(***************************************************************************)
(* Properties                                                              *)
(***************************************************************************)

\* Types of the variables.
TypeOK ==
  /\ objects \in [Contents -> Contents \cup {Absent, Corrupt, Torn}]
  /\ objectImages \in [Contents -> SUBSET (Contents \cup {Absent, Corrupt, Torn})]
  /\ metadata \in [Keys -> Contents \cup {Absent, Torn}]
  /\ metadataImages \in [Keys -> SUBSET (Contents \cup {Absent, Torn})]
  /\ partial \in [Invocations -> {Absent} \cup [bytes : Contents \cup {Torn}, synced : BOOLEAN]]
  /\ quarantine \in [Invocations -> Contents \cup {Absent, Corrupt, Torn}]
  /\ metadataTemp \in [Invocations -> {Absent} \cup [doc : Contents \cup {Torn}, synced : BOOLEAN]]
  /\ descriptorLock \in [Keys -> Invocations \cup {NoOne}]
  /\ objectLock \in [Contents -> Invocations \cup {NoOne}]
  /\ pc \in [Invocations -> Steps]
  /\ req \in [Invocations -> Requests]
  /\ sha256 \in [Invocations -> Contents \cup {Absent, Torn}]
  /\ result \in [Invocations -> Results]
  /\ rotted \subseteq Contents

\* The name of an object never leads to other bytes, neither now nor after a power
\* loss, unless they were damaged from outside: only synced, verified partials are
\* renamed to it.
ObjectsMatchTheirName ==
  \A d \in Contents : objectImages[d] \subseteq {Absent, d} \cup IF d \in rotted THEN {Corrupt} ELSE {}

\* Metadata is never there before the object it names, not even after a power loss,
\* and the object has everything the descriptor declares.
MetadataNamesDurableObject ==
  \A k \in Keys : \A m \in metadataImages[k] \ {Absent} :
     /\ m \in Contents
     /\ SatisfiesKey(m, k)
     /\ m \notin rotted => objectImages[m] = {m}

\* A committed descriptor keeps working: whoever is killed or fails, load_hit finds
\* its object unusable only if the bytes were damaged from outside.
CommittedDescriptorsKeepWorking ==
  \A i \in Invocations : result[i] = "corrupt" => sha256[i] \in rotted

\* The path a call handed out leads to the immutable archive ever after, unless the
\* bytes are damaged from outside.
HandlesStayValid ==
  \A i \in Invocations :
     result[i] \in {"hit", "stored"} /\ sha256[i] \notin rotted => Intact(sha256[i])

\* No step of the store takes away an object that is intact: what publish_object
\* quarantines is still the corrupt object it looked at.
IntactObjectsStay ==
  [][\A d \in Contents : Intact(d) /\ objects'[d] # d => rotted' # rotted \/ PowerLoss]_vars

\* The bytes of a corrupt object are kept until intact ones have taken their place:
\* whatever fails, the name or a quarantine file of the invocation holds them.
QuarantineKeepsBytes ==
  [][\A d \in Contents : objects[d] # Absent /\ objects'[d] = Absent =>
       PowerLoss \/ \E i \in Invocations : sha256[i] = d /\ quarantine'[i] = objects[d]]_vars

\* The error paths remove the temporaries under each of their names; a quarantine
\* file is kept only when it could not be restored or removed.
FailuresLeaveNoTemporaries ==
  \A i \in Invocations : pc[i] = "done" /\ result[i] # "killed" =>
     /\ partial[i] = Absent
     /\ metadataTemp[i] = Absent
     /\ quarantine[i] # Absent => result[i] \in {"io", "recovery"}

\* A call that leaves a quarantine file behind leaves an object under the name, too,
\* unless it reports that it could not put the old one back.
QuarantineBesideObject ==
  [][\A i \in Invocations :
       pc[i] # "done" /\ pc'[i] = "done" /\ result'[i] = "io" /\ quarantine'[i] # Absent =>
         objects'[sha256[i]] # Absent]_vars

\* Every call returns, or dies: a descriptor's lock is always taken before an
\* object's, so no two invocations wait for each other.
EveryCallReturns == \A i \in Invocations : pc[i] # "idle" ~> pc[i] = "done"

(***************************************************************************)
(* What the module promises, as the specification ArtifactIndex            *)
(***************************************************************************)

Answer(i) ==
  CASE result[i] \in {"none", "killed"} -> <<"none", Absent>>
    [] result[i] \in {"hit", "stored"} -> <<"found", sha256[i]>>
    [] result[i] = "miss" -> <<"miss", Absent>>
    [] OTHER -> <<"failed", Absent>>

Wants == [i \in Invocations |-> Key(i)]
Answers == [i \in Invocations |-> Answer(i)]

Index == INSTANCE ArtifactIndex WITH
  Callers <- Invocations, Archives <- Contents, Satisfies <- SatisfiesKey,
  Nothing <- Absent, MayForget <- MayLosePower,
  bound <- metadata, want <- Wants, answer <- Answers

\* The store implements an index in which a descriptor is bound once, to an archive
\* that satisfies it, and every answer is the binding at one moment of the call.
ImplementsArtifactIndex == Index!Spec
=============================================================================
