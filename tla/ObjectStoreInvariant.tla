----------------------- MODULE ObjectStoreInvariant ------------------------
(***************************************************************************)
(* Why the object store is safe: what every invocation knows at each of    *)
(* its steps, and why nobody can make it untrue.  An object changes only   *)
(* under its lock; and an object that metadata may name is durable, or was *)
(* damaged from outside.                                                   *)
(***************************************************************************)
EXTENDS ObjectStore

\* Steps at which an invocation holds the lock of its descriptor, and of its object.
DescriptorLocked == LookupSteps \cup FillSteps \cup PublishSteps \cup MetadataSteps
ObjectLocked == PublishSteps \cup MetadataSteps

\* Whatever happens, the object is there after a power loss.
Durable(d) == d \notin rotted => objectImages[d] = {d}

\* An invocation holds the locks its step needs.
LocksHeld(i) ==
  /\ pc[i] \in DescriptorLocked => descriptorLock[Key(i)] = i
  /\ pc[i] \in ObjectLocked => objectLock[sha256[i]] = i

\* The partial of an invocation has the bytes that were hashed.
PartialKnown(i) ==
  /\ pc[i] = "copy" => partial[i] = [bytes |-> Torn, synced |-> FALSE]
  /\ pc[i] = "verify" =>
       /\ partial[i] = [bytes |-> sha256[i], synced |-> FALSE]
       /\ SizeAccepted(sha256[i], req[i])
  /\ pc[i] \in {"lockObject", "move", "syncMoved", "publish", "removeLosing", "quarantine",
                "replace", "place"} =>
       partial[i] = [bytes |-> sha256[i], synced |-> TRUE]
  /\ pc[i] = "tempRename" => metadataTemp[i] = [doc |-> sha256[i], synced |-> TRUE]

\* The digest in hand is that of bytes that satisfy the request.
DigestKnown(i) ==
  /\ pc[i] \in {"verify", "validate", "hitReadOnly", "lockObject"} \cup ObjectLocked =>
       sha256[i] \in Contents
  /\ pc[i] \in {"validate", "hitReadOnly", "lockObject"} \cup ObjectLocked =>
       Satisfies(sha256[i], req[i])

\* What is known of the object: it is absent, corrupt, intact or durable.
ObjectKnown(i) ==
  /\ pc[i] \in {"place", "replace"} => objects[sha256[i]] = Absent
  /\ pc[i] = "quarantine" => objects[sha256[i]] = Corrupt
  /\ pc[i] \in {"replace", "restore"} => quarantine[i] = Corrupt
  /\ pc[i] \in {"quarantine", "replace", "restore", "dropQuarantine"} => sha256[i] \in rotted
  /\ pc[i] \in {"removeLosing", "readOnly", "syncObject"} /\ sha256[i] \notin rotted =>
       Intact(sha256[i])
  /\ pc[i] \in {"validate", "hitReadOnly"} \cup MetadataSteps => Durable(sha256[i])
  /\ result[i] = "corrupt" => sha256[i] \in rotted
  /\ result[i] \in {"hit", "stored"} => sha256[i] \in Contents /\ Durable(sha256[i])

\* An invocation answers once, when it is done.
Unanswered(i) == pc[i] # "done" => result[i] = "none"

Knows(i) == LocksHeld(i) /\ PartialKnown(i) /\ DigestKnown(i) /\ ObjectKnown(i) /\ Unanswered(i)

\* What is visible now is among what a power loss may leave.
ImagesCurrent ==
  /\ \A d \in Contents : objects[d] \in objectImages[d]
  /\ \A k \in Keys : metadata[k] \in metadataImages[k]

\* The inductive invariant: what every invocation of commit_artifact and
\* probe_artifact knows at its step, as long as no look at a file fails, what the names of objects and metadata lead to,
\* and that the images are up to date.
StoreInvariant ==
  /\ ImagesCurrent
  /\ ObjectsMatchTheirName
  /\ MetadataNamesDurableObject
  /\ \A i \in Invocations : Knows(i)

(***************************************************************************)
(* Why it implements the index: the lock of the descriptor                 *)
(***************************************************************************)

\* What a call has read of the metadata is still so at its later steps.
MetadataKnown(i) ==
  /\ pc[i] \in {"validate", "hitReadOnly", "metadataSync"} => metadata[Key(i)] = sha256[i]
  /\ pc[i] \in FillSteps \cup PublishSteps \cup {"tempCreate", "tempWrite", "tempRename"} =>
       metadata[Key(i)] = Absent

\* A power loss leaves a descriptor bound as it is, or not at all.
MetadataSettled == \A k \in Keys : metadataImages[k] \subseteq {Absent, metadata[k]}

IndexInvariant == MetadataSettled /\ \A i \in Invocations : MetadataKnown(i)

(***************************************************************************)
(* Where the temporaries of a call are, even if looks at files fail        *)
(***************************************************************************)

\* What the later steps of a call rely on of its own files and locks.
InHand(i) ==
  /\ LocksHeld(i) /\ PartialKnown(i)
  /\ pc[i] \in {"verify", "lockObject"} \cup ObjectLocked => sha256[i] \in Contents

\* Each temporary exists only between its creation and its removal.
Whereabouts(i) ==
  /\ pc[i] \notin {"copy", "verify", "lockObject", "move", "syncMoved", "publish", "removeLosing",
                   "quarantine", "replace", "place", "done"} => partial[i] = Absent
  /\ pc[i] \notin {"tempWrite", "tempRename", "done"} => metadataTemp[i] = Absent
  /\ pc[i] \notin {"replace", "restore", "dropQuarantine", "done"} => quarantine[i] = Absent
  /\ pc[i] = "done" /\ result[i] # "killed" =>
       /\ partial[i] = Absent /\ metadataTemp[i] = Absent
       /\ quarantine[i] # Absent => result[i] \in {"io", "recovery"}

\* The replacement of a quarantined object is in place.
Replaced(i) == pc[i] = "dropQuarantine" => objects[sha256[i]] # Absent

TemporariesInvariant ==
  \A i \in Invocations : InHand(i) /\ Whereabouts(i) /\ Replaced(i)
=============================================================================
