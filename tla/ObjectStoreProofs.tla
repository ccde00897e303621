------------------------- MODULE ObjectStoreProofs -------------------------
(***************************************************************************)
(* The object store is safe for any number of invocations, requests and    *)
(* archives, whatever is killed, fails, rots or loses power.  What readers *)
(* are promised, and the refinement of ArtifactIndex, need that no failed  *)
(* look at a file is taken for its absence or damage (MayMisread).         *)
(***************************************************************************)
EXTENDS ObjectStoreInvariant, TLAPS

\* The descriptor of every invocation is a descriptor.
LEMMA KeyInKeys ==
  ASSUME TypeOK, NEW i \in Invocations
  PROVE  Key(i) \in Keys
BY DEF TypeOK, Key, Keys

\* The types of the control state survive a return.
LEMMA ReturnTypes ==
  ASSUME TypeOK, NEW i \in Invocations, NEW outcome \in Results, Return(i, outcome)
  PROVE  /\ pc' \in [Invocations -> Steps]
         /\ result' \in [Invocations -> Results]
         /\ descriptorLock' \in [Keys -> Invocations \cup {NoOne}]
         /\ objectLock' \in [Contents -> Invocations \cup {NoOne}]
         /\ req' \in [Invocations -> Requests]
         /\ rotted' \subseteq Contents
BY DEF TypeOK, Return, Steps

\* And a step from one program counter to the next.
LEMMA GotoTypes ==
  ASSUME TypeOK, NEW i \in Invocations, NEW from, NEW to \in Steps, Goto(i, from, to)
  PROVE  /\ pc' \in [Invocations -> Steps]
         /\ result' \in [Invocations -> Results]
         /\ descriptorLock' \in [Keys -> Invocations \cup {NoOne}]
         /\ objectLock' \in [Contents -> Invocations \cup {NoOne}]
         /\ req' \in [Invocations -> Requests]
         /\ rotted' \subseteq Contents
BY DEF TypeOK, Goto, locks

\* The names of the steps and of the outcomes.
LEMMA StepNames ==
  /\ {"idle", "lock", "done", "load", "validate", "hitReadOnly", "create", "copy", "verify",
      "lockObject", "move", "syncMoved", "publish", "removeLosing", "quarantine", "replace",
      "restore", "dropQuarantine", "place", "readOnly", "syncObject", "tempCreate",
      "tempWrite", "tempRename", "metadataSync"} \subseteq Steps
  /\ {"none", "stored", "hit", "miss", "invalid", "corrupt", "mismatch", "archive", "io",
      "recovery", "killed"} \subseteq Results
BY DEF Steps, Results, LookupSteps, FillSteps, PublishSteps, MetadataSteps

\* Types are preserved by the lookup of a descriptor.
LEMMA LookupTypes ==
  ASSUME TypeOK, NEW i \in Invocations, Lookup(i)
  PROVE  TypeOK'
<1> USE StepNames, KeyInKeys
<1>1. CASE Start(i)
  <2>1. CASE Goto(i, "idle", "lock")
    BY <1>1, <2>1, GotoTypes DEF TypeOK, Start, stored, temporaries
  <2>2. CASE Return(i, "invalid")
    BY <1>1, <2>2, ReturnTypes DEF TypeOK, Start, stored, temporaries
  <2> QED
    BY <1>1, <2>1, <2>2 DEF Start
<1>2. CASE Lock(i)
  BY <1>2 DEF TypeOK, Lock, stored, temporaries
<1>3. CASE Load(i)
  <2>1. sha256' \in [Invocations -> Contents \cup {Absent, Torn}]
    BY <1>3 DEF TypeOK, Load
  <2>2. CASE Return(i, "miss")
    BY <1>3, <2>1, <2>2, ReturnTypes DEF TypeOK, Load, stored, temporaries
  <2>3. CASE Goto(i, "load", "create")
    BY <1>3, <2>1, <2>3, GotoTypes DEF TypeOK, Load, stored, temporaries
  <2>4. CASE Goto(i, "load", "validate")
    BY <1>3, <2>1, <2>4, GotoTypes DEF TypeOK, Load, stored, temporaries
  <2> QED
    BY <1>3, <2>2, <2>3, <2>4 DEF Load
<1>4. CASE Validate(i)
  <2>1. CASE Goto(i, "validate", "hitReadOnly")
    BY <1>4, <2>1, GotoTypes DEF TypeOK, Validate, stored, temporaries
  <2>2. CASE Return(i, "corrupt") \/ Return(i, "invalid")
    BY <1>4, <2>2, ReturnTypes DEF TypeOK, Validate, stored, temporaries
  <2> QED
    BY <1>4, <2>1, <2>2 DEF Validate
<1>5. CASE HitReadOnly(i)
  <2>1. Return(i, "corrupt") \/ Return(i, "hit")
    BY <1>5 DEF HitReadOnly
  <2> QED
    BY <1>5, <2>1, ReturnTypes DEF TypeOK, HitReadOnly, stored, temporaries
<1> QED
  BY <1>1, <1>2, <1>3, <1>4, <1>5 DEF Lookup

\* Types are preserved by the steps that fill the partial.
LEMMA FillTypes ==
  ASSUME TypeOK, NEW i \in Invocations, InHand(i), Fill(i)
  PROVE  TypeOK'
<1> USE StepNames, KeyInKeys
<1>1. CASE CreatePartial(i)
  <2>1. partial' \in [Invocations -> {Absent} \cup [bytes : Contents \cup {Torn}, synced : BOOLEAN]]
    BY <1>1 DEF TypeOK, CreatePartial
  <2> QED
    BY <1>1, <2>1, GotoTypes DEF TypeOK, CreatePartial, stored
<1>2. CASE Copy(i)
  <2>1. PICK c \in Contents :
          /\ sha256' = [sha256 EXCEPT ![i] = c]
          /\ \/ /\ SizeAccepted(c, req[i])
                /\ partial' = [partial EXCEPT ![i] = [bytes |-> c, synced |-> FALSE]]
                /\ Goto(i, "copy", "verify")
             \/ ~SizeAccepted(c, req[i]) /\ Abort(i, "mismatch")
    BY <1>2 DEF Copy
  <2>2. sha256' \in [Invocations -> Contents \cup {Absent, Torn}]
    BY <2>1 DEF TypeOK
  <2>3. CASE partial' = [partial EXCEPT ![i] = [bytes |-> c, synced |-> FALSE]] /\ Goto(i, "copy", "verify")
    <3>2. partial' \in [Invocations -> {Absent} \cup [bytes : Contents \cup {Torn}, synced : BOOLEAN]]
      BY <2>3 DEF TypeOK
    <3> QED
      BY <1>2, <2>2, <2>3, <3>2, GotoTypes DEF TypeOK, Copy, stored
  <2>4. CASE Abort(i, "mismatch")
    <3>1. Return(i, "mismatch") /\ partial' = [partial EXCEPT ![i] = Absent]
      BY <2>4 DEF Abort
    <3> QED
      BY <1>2, <2>2, <3>1, ReturnTypes DEF TypeOK, Copy, stored
  <2> QED
    BY <2>1, <2>3, <2>4
<1>3. CASE Verify(i)
  <2>1. CASE partial' = [partial EXCEPT ![i] = [bytes |-> sha256[i], synced |-> TRUE]] /\ Goto(i, "verify", "lockObject")
    <3>1. sha256[i] \in Contents
      BY <2>1 DEF InHand, Goto
    <3>2. partial' \in [Invocations -> {Absent} \cup [bytes : Contents \cup {Torn}, synced : BOOLEAN]]
      BY <2>1, <3>1 DEF TypeOK
    <3> QED
      BY <1>3, <2>1, <3>2, GotoTypes DEF TypeOK, Verify, stored
  <2>2. CASE Abort(i, "mismatch") \/ Abort(i, "archive")
    <3>1. /\ Return(i, "mismatch") \/ Return(i, "archive")
          /\ partial' = [partial EXCEPT ![i] = Absent]
      BY <2>2 DEF Abort
    <3> QED
      BY <1>3, <3>1, ReturnTypes DEF TypeOK, Verify, stored
  <2> QED
    BY <1>3, <2>1, <2>2 DEF Verify
<1>4. CASE LockObject(i)
  BY <1>4 DEF TypeOK, LockObject, stored, temporaries
<1>5. CASE Move(i)
  BY <1>5, GotoTypes DEF TypeOK, Move, stored, temporaries
<1>6. CASE SyncMoved(i)
  <2>1. sha256[i] \in Contents
    BY <1>6 DEF SyncMoved, Goto, InHand, ObjectLocked, PublishSteps
  <2>2. objectImages' \in [Contents -> SUBSET (Contents \cup {Absent, Corrupt, Torn})]
    BY <1>6, <2>1 DEF TypeOK, SyncMoved, SyncShard
  <2> QED
    BY <1>6, <2>2, GotoTypes DEF TypeOK, SyncMoved, SyncShard, temporaries
<1> QED
  BY <1>1, <1>2, <1>3, <1>4, <1>5, <1>6 DEF Fill

\* What PutObject does to the types of the objects.
LEMMA PutObjectTypes ==
  ASSUME TypeOK, NEW d \in Contents, NEW b \in Contents \cup {Absent, Corrupt, Torn},
         NEW synced \in BOOLEAN, PutObject(d, b, synced)
  PROVE  /\ objects' \in [Contents -> Contents \cup {Absent, Corrupt, Torn}]
         /\ objectImages' \in [Contents -> SUBSET (Contents \cup {Absent, Corrupt, Torn})]
BY DEF TypeOK, PutObject

\* Types are preserved by the publication of the object.
LEMMA PublishTypes ==
  ASSUME TypeOK, NEW i \in Invocations, InHand(i), PublishObject(i)
  PROVE  TypeOK'
<1> USE StepNames, KeyInKeys
<1>0. pc[i] \in PublishSteps => sha256[i] \in Contents
  BY DEF InHand, ObjectLocked
<1>1. CASE Publish(i)
  <2>1. \E to \in Steps : Goto(i, "publish", to)
    BY <1>1 DEF Publish
  <2> QED
    BY <1>1, <2>1, GotoTypes DEF TypeOK, Publish, stored, temporaries
<1>2. CASE RemoveLosing(i)
  BY <1>2, GotoTypes DEF TypeOK, RemoveLosing, stored
<1>3. CASE Quarantine(i)
  <2>1. sha256[i] \in Contents
    BY <1>0, <1>3 DEF Quarantine, Goto, PublishSteps
  <2>2. quarantine' \in [Invocations -> Contents \cup {Absent, Corrupt, Torn}]
    BY <1>3, <2>1 DEF TypeOK, Quarantine
  <2> QED
    BY <1>3, <2>1, <2>2, GotoTypes, PutObjectTypes DEF TypeOK, Quarantine
<1>4. CASE Replace(i) \/ Place(i)
  <2>1. /\ sha256[i] \in Contents
        /\ partial[i] = [bytes |-> sha256[i], synced |-> TRUE]
    BY <1>0, <1>4 DEF Replace, Place, Goto, PublishSteps, InHand, PartialKnown
  <2>2. PlacePartial(i)
    BY <1>4 DEF Replace, Place
  <2>3. PutObject(sha256[i], sha256[i], TRUE)
    <3>1. partial[i].bytes = sha256[i] /\ partial[i].synced = TRUE
      BY <2>1
    <3> QED
      BY <2>2, <3>1 DEF PlacePartial, PutObject
  <2>5. /\ objects' \in [Contents -> Contents \cup {Absent, Corrupt, Torn}]
        /\ objectImages' \in [Contents -> SUBSET (Contents \cup {Absent, Corrupt, Torn})]
    BY <2>1, <2>3, PutObjectTypes
  <2>4. \E from, to \in Steps : Goto(i, from, to)
    BY <1>4 DEF Replace, Place
  <2> QED
    BY <2>2, <2>4, <2>5, GotoTypes DEF TypeOK, PlacePartial
<1>5. CASE DropQuarantine(i)
  BY <1>5, GotoTypes DEF TypeOK, DropQuarantine, stored
<1>6. CASE Restore(i)
  <2>1. sha256[i] \in Contents /\ quarantine[i] \in Contents \cup {Absent, Corrupt, Torn}
    BY <1>0, <1>6 DEF Restore, PublishSteps, TypeOK
  <2>2. /\ objects' \in [Contents -> Contents \cup {Absent, Corrupt, Torn}]
        /\ objectImages' \in [Contents -> SUBSET (Contents \cup {Absent, Corrupt, Torn})]
        /\ quarantine' \in [Invocations -> Contents \cup {Absent, Corrupt, Torn}]
    <3>1. CASE objects[sha256[i]] = Absent
      <4>1. /\ PutObject(sha256[i], quarantine[i], TRUE)
            /\ quarantine' = [quarantine EXCEPT ![i] = Absent]
        BY <1>6, <3>1 DEF Restore
      <4>2. quarantine' \in [Invocations -> Contents \cup {Absent, Corrupt, Torn}]
        BY <4>1 DEF TypeOK
      <4> QED
        BY <2>1, <4>1, <4>2, PutObjectTypes
    <3>2. CASE objects[sha256[i]] # Absent
      BY <1>6, <3>2 DEF Restore, TypeOK
    <3> QED
      BY <3>1, <3>2
  <2>3. Return(i, "io")
    BY <1>6 DEF Restore
  <2> QED
    BY <1>6, <2>2, <2>3, ReturnTypes DEF TypeOK, Restore
<1>7. CASE ReadOnly(i)
  BY <1>7, GotoTypes DEF TypeOK, ReadOnly, stored, temporaries
<1>8. CASE SyncObject(i)
  <2>1. sha256[i] \in Contents
    BY <1>0, <1>8 DEF SyncObject, Goto, PublishSteps
  <2>2. objectImages' \in [Contents -> SUBSET (Contents \cup {Absent, Corrupt, Torn})]
    BY <1>8, <2>1 DEF TypeOK, SyncObject, SyncShard
  <2> QED
    BY <1>8, <2>2, GotoTypes DEF TypeOK, SyncObject, SyncShard, temporaries
<1> QED
  BY <1>1, <1>2, <1>3, <1>4, <1>5, <1>6, <1>7, <1>8 DEF PublishObject

\* Types are preserved by the publication of the metadata.
LEMMA MetadataTypes ==
  ASSUME TypeOK, NEW i \in Invocations, InHand(i), CommitMetadata(i)
  PROVE  TypeOK'
<1> USE StepNames, KeyInKeys
<1>0. pc[i] \in MetadataSteps => sha256[i] \in Contents
  BY DEF InHand, ObjectLocked
<1> DEFINE Temps == {Absent} \cup [doc : Contents \cup {Torn}, synced : BOOLEAN]
<1>1. CASE TempCreate(i)
  <2>1. metadataTemp' \in [Invocations -> Temps]
    BY <1>1 DEF TypeOK, TempCreate
  <2> QED
    BY <1>1, <2>1, GotoTypes DEF TypeOK, TempCreate, stored
<1>2. CASE TempWrite(i)
  <2>1. sha256[i] \in Contents
    BY <1>0, <1>2 DEF TempWrite, Goto, MetadataSteps
  <2>2. metadataTemp' \in [Invocations -> Temps]
    BY <1>2, <2>1 DEF TypeOK, TempWrite
  <2> QED
    BY <1>2, <2>2, GotoTypes DEF TypeOK, TempWrite, stored
<1>3. CASE TempRename(i)
  <2>1. sha256[i] \in Contents
    BY <1>0, <1>3 DEF TempRename, Goto, MetadataSteps
  <2>2. metadataTemp[i] = [doc |-> sha256[i], synced |-> TRUE]
    BY <1>3 DEF TempRename, Goto, InHand, PartialKnown
  <2>3. /\ metadata' \in [Keys -> Contents \cup {Absent, Torn}]
        /\ metadataImages' \in [Keys -> SUBSET (Contents \cup {Absent, Torn})]
    BY <1>3, <2>1, <2>2 DEF TypeOK, TempRename, PutMetadata
  <2> QED
    BY <1>3, <2>3, GotoTypes DEF TypeOK, TempRename
<1>4. CASE MetadataSync(i)
  <2>1. metadataImages' \in [Keys -> SUBSET (Contents \cup {Absent, Torn})]
    BY <1>4 DEF TypeOK, MetadataSync, SyncMetadata
  <2>2. Return(i, "stored")
    BY <1>4 DEF MetadataSync
  <2> QED
    BY <1>4, <2>1, <2>2, ReturnTypes DEF TypeOK, MetadataSync, SyncMetadata, temporaries
<1> QED
  BY <1>1, <1>2, <1>3, <1>4 DEF CommitMetadata

\* Types are preserved by I/O errors and by the death of a process.
LEMMA FailureTypes ==
  ASSUME TypeOK, NEW i \in Invocations, IoFails(i) \/ Kill(i)
  PROVE  TypeOK'
<1> USE StepNames
<1>1. CASE FailPlain(i)
  BY <1>1, ReturnTypes DEF TypeOK, FailPlain, stored, temporaries
<1>2. CASE FailFill(i)
  BY <1>2, ReturnTypes DEF TypeOK, FailFill, Abort, stored
<1>3. CASE FailMoved(i)
  BY <1>3, ReturnTypes DEF TypeOK, FailMoved, Abort, stored
<1>4. CASE FailReplace(i)
  BY <1>4, GotoTypes DEF TypeOK, FailReplace, stored
<1>5. CASE FailQuarantine(i)
  <2>1. Return(i, "recovery") \/ Return(i, "io")
    BY <1>5 DEF FailQuarantine
  <2> QED
    BY <1>5, <2>1, ReturnTypes DEF TypeOK, FailQuarantine, stored, temporaries
<1>6. CASE FailTemp(i)
  BY <1>6, ReturnTypes DEF TypeOK, FailTemp, stored
<1>7. CASE Kill(i)
  BY <1>7, ReturnTypes DEF TypeOK, Kill, stored, temporaries
<1> QED
  BY <1>1, <1>2, <1>3, <1>4, <1>5, <1>6, <1>7 DEF IoFails

\* Types are preserved by damage and by a power loss.
LEMMA DisasterTypes ==
  ASSUME TypeOK, (\E d \in Contents : Rot(d)) \/ PowerLoss
  PROVE  TypeOK'
<1> USE StepNames
<1>1. ASSUME NEW d \in Contents, Rot(d) PROVE TypeOK'
  BY <1>1 DEF TypeOK, Rot, temporaries, locks
<1>2. CASE PowerLoss
  <2>1. \A e \in Contents : objects'[e] \in objectImages[e]
    BY <1>2 DEF PowerLoss
  <2>2. objects' \in [Contents -> Contents \cup {Absent, Corrupt, Torn}]
    BY <1>2, <2>1 DEF PowerLoss, TypeOK
  <2>3. \A k \in Keys : metadata'[k] \in metadataImages[k]
    BY <1>2 DEF PowerLoss
  <2>4. metadata' \in [Keys -> Contents \cup {Absent, Torn}]
    BY <1>2, <2>3 DEF PowerLoss, TypeOK
  <2>5. /\ objectImages' \in [Contents -> SUBSET (Contents \cup {Absent, Corrupt, Torn})]
        /\ metadataImages' \in [Keys -> SUBSET (Contents \cup {Absent, Torn})]
    BY <1>2, <2>2, <2>4 DEF PowerLoss
  <2>6. /\ pc' \in [Invocations -> Steps] /\ result' \in [Invocations -> Results]
        /\ descriptorLock' \in [Keys -> Invocations \cup {NoOne}]
        /\ objectLock' \in [Contents -> Invocations \cup {NoOne}]
    BY <1>2 DEF PowerLoss, TypeOK
  <2> QED
    BY <1>2, <2>2, <2>4, <2>5, <2>6 DEF PowerLoss, TypeOK, temporaries
<1> QED
  BY <1>1, <1>2

(***************************************************************************)
(* Frames: what a step of one invocation leaves alone                      *)
(***************************************************************************)

\* A step of invocation i touches nothing of invocation j, and takes no lock away.
Same(j) ==
  /\ pc'[j] = pc[j] /\ sha256'[j] = sha256[j] /\ req'[j] = req[j] /\ result'[j] = result[j]
  /\ partial'[j] = partial[j] /\ quarantine'[j] = quarantine[j]
  /\ metadataTemp'[j] = metadataTemp[j]

LocksKept(i) ==
  /\ \A k \in Keys : descriptorLock[k] \notin {i, NoOne} => descriptorLock'[k] = descriptorLock[k]
  /\ \A d \in Contents : objectLock[d] \notin {i, NoOne} => objectLock'[d] = objectLock[d]

OthersAlone(i) == LocksKept(i) /\ \A j \in Invocations \ {i} : Same(j)

\* The control part of a step touches only its invocation.
LEMMA GotoAlone ==
  ASSUME TypeOK, NEW i \in Invocations, NEW from, NEW to, Goto(i, from, to)
  PROVE  /\ LocksKept(i)
         /\ pc[i] = from /\ pc'[i] = to /\ UNCHANGED <<locks, req, result, rotted>>
         /\ \A j \in Invocations \ {i} : pc'[j] = pc[j]
BY DEF TypeOK, Goto, LocksKept, locks

\* So does a return.
LEMMA ReturnAlone ==
  ASSUME TypeOK, NEW i \in Invocations, NEW outcome, Return(i, outcome)
  PROVE  /\ LocksKept(i)
         /\ pc'[i] = "done" /\ result'[i] = outcome /\ UNCHANGED <<req, rotted>>
         /\ \A j \in Invocations \ {i} : pc'[j] = pc[j] /\ result'[j] = result[j]
BY DEF TypeOK, Return, LocksKept

\* An invocation that is done knows only what its answer says.
LEMMA DoneKnows ==
  ASSUME NEW i \in Invocations, pc'[i] = "done",
         result'[i] = "corrupt" => (sha256[i] \in rotted)',
         result'[i] \in {"hit", "stored"} => (sha256[i] \in Contents /\ Durable(sha256[i]))'
  PROVE  Knows(i)'
BY DEF Knows, LocksHeld, PartialKnown, DigestKnown, ObjectKnown, Unanswered, DescriptorLocked,
       ObjectLocked, LookupSteps, FillSteps, PublishSteps, MetadataSteps

\* The other invocations keep knowing what they know, if objects change only under
\* the lock of the one that steps and what is durable stays so.
LEMMA OthersKeepKnowing ==
  ASSUME TypeOK, NEW i \in Invocations, \A j \in Invocations : Knows(j), OthersAlone(i),
         rotted' = rotted,
         \A d \in Contents : objectLock[d] # i => objects'[d] = objects[d],
         \A d \in Contents : Durable(d) => Durable(d)'
  PROVE  \A j \in Invocations \ {i} : Knows(j)'
<1> SUFFICES ASSUME NEW j \in Invocations \ {i}
             PROVE  Knows(j)'
  OBVIOUS
<1>1. Same(j) /\ Knows(j) /\ Key(j)' = Key(j) /\ Key(j) \in Keys
  BY KeyInKeys DEF OthersAlone, Same, Key
<1>2. LocksHeld(j)'
  <2>1. pc[j] \in DescriptorLocked => descriptorLock'[Key(j)] = j
    BY <1>1, SentinelsAssumption DEF OthersAlone, LocksKept, Knows, LocksHeld
  <2>2. pc[j] \in ObjectLocked => objectLock'[sha256[j]] = j
    BY <1>1, SentinelsAssumption DEF OthersAlone, LocksKept, Knows, LocksHeld, DigestKnown
  <2> QED
    BY <1>1, <2>1, <2>2 DEF LocksHeld, Same
<1>3. PartialKnown(j)'
  BY <1>1 DEF Knows, PartialKnown, Same
<1>4. DigestKnown(j)'
  BY <1>1 DEF Knows, DigestKnown, Same
<1>5. ObjectKnown(j)'
  <2>1. pc[j] \in ObjectLocked => objects'[sha256[j]] = objects[sha256[j]]
    BY <1>1 DEF Knows, LocksHeld, DigestKnown
  <2>2. pc[j] \in {"validate", "hitReadOnly"} \cup MetadataSteps \/ result[j] \in {"hit", "stored"} =>
          Durable(sha256[j])'
    <3>1. pc[j] \in {"validate", "hitReadOnly"} \cup MetadataSteps \/ result[j] \in {"hit", "stored"} =>
            sha256[j] \in Contents /\ Durable(sha256[j])
      BY <1>1 DEF Knows, ObjectKnown, DigestKnown, ObjectLocked
    <3>2. ASSUME sha256[j] \in Contents, Durable(sha256[j]) PROVE Durable(sha256[j])'
      <4>1. PICK d \in Contents : d = sha256[j]
        BY <3>2
      <4>2. Durable(d)'
        BY <3>2, <4>1
      <4> QED
        BY <1>1, <4>1, <4>2 DEF Durable, Same
    <3> QED
      BY <3>1, <3>2
  <2>3. {"place", "replace", "quarantine", "removeLosing", "readOnly", "syncObject"}
           \subseteq ObjectLocked
    BY DEF ObjectLocked, PublishSteps
  <2> QED
    BY <1>1, <2>1, <2>2, <2>3 DEF Knows, ObjectKnown, Same, Intact
<1>6. Unanswered(j)'
  BY <1>1 DEF Knows, Unanswered, Same
<1> QED
  BY <1>2, <1>3, <1>4, <1>5, <1>6 DEF Knows

\* A step that leaves the stored files alone.
LEMMA LocalStep ==
  ASSUME TypeOK, StoreInvariant, NEW i \in Invocations, OthersAlone(i),
         UNCHANGED <<stored, rotted>>, Knows(i)'
  PROVE  StoreInvariant'
<1>1. UNCHANGED <<objects, objectImages, metadata, metadataImages, rotted>>
  BY DEF stored
<1>2. \A d \in Contents : Durable(d) => Durable(d)'
  BY <1>1 DEF Durable
<1>3. \A j \in Invocations \ {i} : Knows(j)'
  BY <1>1, <1>2, OthersKeepKnowing DEF StoreInvariant
<1>4. ImagesCurrent' /\ ObjectsMatchTheirName' /\ MetadataNamesDurableObject'
  BY <1>1 DEF StoreInvariant, ImagesCurrent, ObjectsMatchTheirName, MetadataNamesDurableObject
<1> QED
  BY <1>3, <1>4 DEF StoreInvariant

\* A step that changes what the name of one object leads to, under its lock.
LEMMA ObjectStep ==
  ASSUME TypeOK, StoreInvariant, NEW i \in Invocations, NEW d \in Contents, OthersAlone(i),
         UNCHANGED <<metadata, metadataImages, rotted>>, objectLock[d] = i,
         \A e \in Contents \ {d} : objects'[e] = objects[e] /\ objectImages'[e] = objectImages[e],
         objects'[d] \in objectImages'[d],
         objectImages'[d] \subseteq {Absent, d} \cup IF d \in rotted THEN {Corrupt} ELSE {},
         d \notin rotted /\ objectImages[d] = {d} => objectImages'[d] = {d},
         Knows(i)'
  PROVE  StoreInvariant'
<1>1. \A e \in Contents : objectLock[e] # i => objects'[e] = objects[e]
  OBVIOUS
<1>2. \A e \in Contents : Durable(e) => Durable(e)'
  BY DEF Durable
<1>3. \A j \in Invocations \ {i} : Knows(j)'
  BY <1>1, <1>2, OthersKeepKnowing DEF StoreInvariant
<1>4. ImagesCurrent'
  BY DEF StoreInvariant, ImagesCurrent
<1>5. ObjectsMatchTheirName'
  BY DEF StoreInvariant, ObjectsMatchTheirName
<1>6. MetadataNamesDurableObject'
  <2> SUFFICES ASSUME NEW k \in Keys, NEW m \in metadataImages[k] \ {Absent}
               PROVE  m \in Contents /\ SatisfiesKey(m, k) /\ (m \notin rotted => objectImages'[m] = {m})
    BY DEF MetadataNamesDurableObject, SatisfiesKey
  <2>1. m \in Contents /\ SatisfiesKey(m, k) /\ (m \notin rotted => objectImages[m] = {m})
    BY DEF StoreInvariant, MetadataNamesDurableObject
  <2> QED
    BY <2>1
<1> QED
  BY <1>3, <1>4, <1>5, <1>6 DEF StoreInvariant

\* A step that changes what the name of one metadata document leads to.
LEMMA MetadataStep ==
  ASSUME TypeOK, StoreInvariant, NEW i \in Invocations, NEW k \in Keys, OthersAlone(i),
         UNCHANGED <<objects, objectImages, rotted>>,
         \A e \in Keys \ {k} : metadata'[e] = metadata[e] /\ metadataImages'[e] = metadataImages[e],
         metadata'[k] \in metadataImages'[k],
         \A m \in metadataImages'[k] \ metadataImages[k] :
            m \in Contents /\ SatisfiesKey(m, k) /\ Durable(m),
         Knows(i)'
  PROVE  StoreInvariant'
<1>1. \A d \in Contents : Durable(d) => Durable(d)'
  BY DEF Durable
<1>2. \A j \in Invocations \ {i} : Knows(j)'
  BY <1>1, OthersKeepKnowing DEF StoreInvariant
<1>3. ImagesCurrent' /\ ObjectsMatchTheirName'
  BY DEF StoreInvariant, ImagesCurrent, ObjectsMatchTheirName
<1>4. MetadataNamesDurableObject'
  <2> SUFFICES ASSUME NEW e \in Keys, NEW m \in metadataImages'[e], m # Absent
               PROVE  m \in Contents /\ SatisfiesKey(m, e) /\ (m \notin rotted => objectImages[m] = {m})
    BY DEF MetadataNamesDurableObject, SatisfiesKey
  <2>1. CASE m \in metadataImages[e]
    BY <2>1 DEF StoreInvariant, MetadataNamesDurableObject
  <2>2. CASE m \notin metadataImages[e]
    <3>1. e = k
      BY <2>2
    <3> QED
      BY <2>2, <3>1 DEF Durable
  <2> QED
    BY <2>1, <2>2
<1> QED
  BY <1>2, <1>3, <1>4 DEF StoreInvariant

\* Bytes that satisfy one request satisfy every request with the same descriptor.
LEMMA KeySatisfied ==
  ASSUME NEW i \in Invocations, NEW c, Satisfies(c, req[i])
  PROVE  SatisfiesKey(c, Key(i))
<1> SUFFICES ASSUME NEW r \in Requests, DescriptorKey(r) = DescriptorKey(req[i])
             PROVE  Satisfies(c, r)
  BY DEF SatisfiesKey, Key
<1>1. /\ Checksum(r.checksums, "md5") = Checksum(req[i].checksums, "md5")
      /\ Checksum(r.checksums, "sha256") = Checksum(req[i].checksums, "sha256")
      /\ r.size = req[i].size /\ r.expectation = req[i].expectation
  BY DEF DescriptorKey
<1> QED
  BY <1>1 DEF Satisfies, SizeAccepted, ChecksumsMatch, ArchiveValid

(***************************************************************************)
(* Every step preserves the invariant                                      *)
(***************************************************************************)

\* The lookup of a descriptor: a hit is durable because its metadata is there.
LEMMA LookupStep ==
  ASSUME TypeOK, StoreInvariant, NEW i \in Invocations, Lookup(i)
  PROVE  StoreInvariant'
<1> USE DEF DescriptorLocked, ObjectLocked, LookupSteps, FillSteps, PublishSteps, MetadataSteps
<1>0. Knows(i) /\ Key(i) \in Keys
  BY KeyInKeys DEF StoreInvariant
<1>1. CASE Start(i)
  <2>0. UNCHANGED <<stored, partial, quarantine, metadataTemp, sha256>>
    BY <1>1 DEF Start, temporaries
  <2>1. CASE Goto(i, "idle", "lock")
    <3>1. /\ OthersAlone(i) /\ UNCHANGED rotted
          /\ pc[i] = "idle" /\ pc'[i] = "lock" /\ result' = result
      BY <2>0, <2>1, GotoAlone DEF OthersAlone, Same
    <3>2. Knows(i)'
      BY <1>0, <2>0, <3>1 DEF Knows, LocksHeld, PartialKnown, DigestKnown, ObjectKnown, Unanswered
    <3> QED
      BY <2>0, <3>1, <3>2, LocalStep
  <2>2. CASE Return(i, "invalid")
    <3>1. OthersAlone(i) /\ UNCHANGED rotted /\ pc'[i] = "done" /\ result'[i] = "invalid"
      BY <2>0, <2>2, ReturnAlone DEF OthersAlone, Same
    <3> QED
      BY <2>0, <3>1, DoneKnows, LocalStep
  <2> QED
    BY <1>1, <2>1, <2>2 DEF Start
<1>2. CASE Lock(i)
  <2>1. /\ OthersAlone(i)
        /\ UNCHANGED <<stored, rotted, sha256, req, result>>
        /\ pc[i] = "lock" /\ pc'[i] = "load" /\ descriptorLock'[Key(i)] = i
    BY <1>0, <1>2 DEF Lock, OthersAlone, Same, LocksKept, TypeOK, temporaries
  <2>2. Knows(i)'
    BY <1>0, <2>1 DEF Knows, LocksHeld, PartialKnown, DigestKnown, ObjectKnown, Unanswered, Key
  <2> QED
    BY <2>1, <2>2, LocalStep
<1>3. CASE Load(i)
  <2>0. /\ UNCHANGED <<stored, partial, quarantine, metadataTemp>>
        /\ pc[i] = "load" /\ sha256'[i] = metadata[Key(i)]
        /\ \A j \in Invocations \ {i} : sha256'[j] = sha256[j]
    BY <1>3 DEF Load, temporaries, TypeOK
  <2>1. CASE Return(i, "miss")
    <3>1. OthersAlone(i) /\ UNCHANGED rotted /\ pc'[i] = "done" /\ result'[i] = "miss"
      BY <2>0, <2>1, ReturnAlone DEF OthersAlone, Same
    <3> QED
      BY <2>0, <3>1, DoneKnows, LocalStep
  <2>2. CASE Goto(i, "load", "create")
    <3>1. /\ OthersAlone(i) /\ UNCHANGED <<rotted, req, locks, result>> /\ pc'[i] = "create"
      BY <2>0, <2>2, GotoAlone DEF OthersAlone, Same
    <3>2. Knows(i)'
      BY <1>0, <2>0, <3>1 DEF Knows, LocksHeld, PartialKnown, DigestKnown, ObjectKnown,
                              Unanswered, Key, locks
    <3> QED
      BY <2>0, <3>1, <3>2, LocalStep
  <2>3. CASE metadata[Key(i)] # Absent /\ Goto(i, "load", "validate")
    <3>1. /\ OthersAlone(i) /\ UNCHANGED <<rotted, req, locks, result>> /\ pc'[i] = "validate"
      BY <2>0, <2>3, GotoAlone DEF OthersAlone, Same
    <3>2. PICK m : m = metadata[Key(i)]
      OBVIOUS
    <3>3. m \in metadataImages[Key(i)] \ {Absent}
      BY <1>0, <2>3, <3>2 DEF StoreInvariant, ImagesCurrent
    <3>4. m \in Contents /\ SatisfiesKey(m, Key(i)) /\ Durable(m)
      BY <1>0, <3>3 DEF StoreInvariant, MetadataNamesDurableObject, Durable
    <3>5. Satisfies(m, req[i])
      BY <3>4 DEF SatisfiesKey, Key, TypeOK
    <3>6. Durable(m)'
      BY <2>0, <3>1, <3>4 DEF Durable, stored
    <3>7. sha256'[i] \in Contents /\ Satisfies(sha256'[i], req'[i]) /\ Durable(sha256[i])'
      BY <2>0, <3>1, <3>2, <3>4, <3>5, <3>6 DEF Durable
    <3>8. Knows(i)'
      BY <1>0, <2>0, <3>1, <3>7 DEF Knows, LocksHeld, PartialKnown, DigestKnown, ObjectKnown,
                                    Unanswered, Key, locks
    <3> QED
      BY <2>0, <3>1, <3>8, LocalStep
  <2> QED
    BY <1>3, <2>1, <2>2, <2>3 DEF Load
<1>4. CASE Validate(i)
  <2>0. /\ UNCHANGED <<stored, partial, quarantine, metadataTemp, sha256>>
        /\ pc[i] = "validate"
    BY <1>4 DEF Validate, temporaries
  <2>1. sha256[i] \in Contents /\ Satisfies(sha256[i], req[i]) /\ Durable(sha256[i])
    BY <1>0, <2>0 DEF Knows, DigestKnown, ObjectKnown
  <2>2. CASE Goto(i, "validate", "hitReadOnly")
    <3>1. /\ OthersAlone(i) /\ UNCHANGED <<rotted, req, locks, result>> /\ pc'[i] = "hitReadOnly"
      BY <2>0, <2>2, GotoAlone DEF OthersAlone, Same
    <3>2. Durable(sha256[i])'
      BY <2>0, <2>1, <3>1 DEF Durable, stored
    <3>3. Knows(i)'
      BY <1>0, <2>0, <2>1, <3>1, <3>2 DEF Knows, LocksHeld, PartialKnown, DigestKnown,
                                          ObjectKnown, Unanswered, Key, locks
    <3> QED
      BY <2>0, <3>1, <3>3, LocalStep
  <2>3. CASE ~HitValid(sha256[i], req[i]) /\ Return(i, "corrupt")
    <3>1. OthersAlone(i) /\ UNCHANGED rotted /\ pc'[i] = "done" /\ result'[i] = "corrupt"
      BY <2>0, <2>3, ReturnAlone DEF OthersAlone, Same
    <3>2. sha256[i] \in rotted
      <4>1. ~Intact(sha256[i])
        BY <2>1, <2>3 DEF HitValid, Satisfies
      <4>2. objects[sha256[i]] \in objectImages[sha256[i]]
        BY <2>1 DEF StoreInvariant, ImagesCurrent
      <4> QED
        BY <2>1, <4>1, <4>2 DEF Durable, Intact
    <3>3. Knows(i)'
      BY <2>0, <3>1, <3>2, DoneKnows
    <3> QED
      BY <2>0, <3>1, <3>3, LocalStep
  <2> QED
    BY <1>4, <2>1, <2>2, <2>3 DEF Validate
<1>5. CASE HitReadOnly(i)
  <2>0. /\ UNCHANGED <<stored, partial, quarantine, metadataTemp, sha256>>
        /\ pc[i] = "hitReadOnly"
        /\ Return(i, IF objects[sha256[i]] = Absent THEN "corrupt" ELSE "hit")
    BY <1>5 DEF HitReadOnly, temporaries
  <2>1. sha256[i] \in Contents /\ Durable(sha256[i])
    BY <1>0, <2>0 DEF Knows, DigestKnown, ObjectKnown
  <2>2. /\ OthersAlone(i) /\ UNCHANGED rotted /\ pc'[i] = "done"
        /\ result'[i] = IF objects[sha256[i]] = Absent THEN "corrupt" ELSE "hit"
    BY <2>0, ReturnAlone DEF OthersAlone, Same
  <2>3. objects[sha256[i]] = Absent => sha256[i] \in rotted
    BY <2>1, SentinelsAssumption DEF StoreInvariant, ImagesCurrent, Durable
  <2>4. Durable(sha256[i])'
    BY <2>0, <2>1, <2>2 DEF Durable, stored
  <2>5. Knows(i)'
    BY <2>0, <2>1, <2>2, <2>3, <2>4, DoneKnows
  <2> QED
    BY <2>0, <2>2, <2>5, LocalStep
<1> QED
  BY <1>1, <1>2, <1>3, <1>4, <1>5 DEF Lookup

\* Syncing a shard only narrows what a power loss may leave.
LEMMA ShardSynced ==
  ASSUME TypeOK, StoreInvariant, NEW i \in Invocations, NEW d \in Contents, OthersAlone(i),
         SyncShard(d), UNCHANGED rotted, objectLock[d] = i, Knows(i)'
  PROVE  StoreInvariant'
<1>1. /\ UNCHANGED <<objects, metadata, metadataImages>>
      /\ objectImages'[d] = {objects[d]}
      /\ \A e \in Contents \ {d} : objectImages'[e] = objectImages[e]
  BY DEF SyncShard, TypeOK
<1>2. objects[d] \in objectImages[d]
  BY DEF StoreInvariant, ImagesCurrent
<1>3. objectImages[d] \subseteq {Absent, d} \cup IF d \in rotted THEN {Corrupt} ELSE {}
  BY DEF StoreInvariant, ObjectsMatchTheirName
<1> QED
  BY <1>1, <1>2, <1>3, ObjectStep

\* The steps that fill the partial and bring it into the shard of its object.
LEMMA FillStep ==
  ASSUME TypeOK, StoreInvariant, NEW i \in Invocations, Fill(i)
  PROVE  StoreInvariant'
<1> USE DEF DescriptorLocked, ObjectLocked, LookupSteps, FillSteps, PublishSteps, MetadataSteps
<1>0. Knows(i) /\ Key(i) \in Keys
  BY KeyInKeys DEF StoreInvariant
<1>1. CASE CreatePartial(i)
  <2>1. /\ UNCHANGED <<stored, quarantine, metadataTemp, sha256>>
        /\ Goto(i, "create", "copy")
        /\ partial'[i] = [bytes |-> Torn, synced |-> FALSE]
        /\ \A j \in Invocations \ {i} : partial'[j] = partial[j]
    BY <1>1 DEF CreatePartial, TypeOK
  <2>2. /\ OthersAlone(i) /\ UNCHANGED <<rotted, req, locks, result>>
        /\ pc[i] = "create" /\ pc'[i] = "copy"
    BY <2>1, GotoAlone DEF OthersAlone, Same
  <2>3. Knows(i)'
    BY <1>0, <2>1, <2>2 DEF Knows, LocksHeld, PartialKnown, DigestKnown, ObjectKnown, Unanswered,
                            Key, locks
  <2> QED
    BY <2>1, <2>2, <2>3, LocalStep
<1>2. CASE Copy(i)
  <2>1. PICK c \in Contents :
          /\ sha256' = [sha256 EXCEPT ![i] = c]
          /\ \/ /\ SizeAccepted(c, req[i])
                /\ partial' = [partial EXCEPT ![i] = [bytes |-> c, synced |-> FALSE]]
                /\ Goto(i, "copy", "verify")
             \/ ~SizeAccepted(c, req[i]) /\ Abort(i, "mismatch")
    BY <1>2 DEF Copy
  <2>2. /\ UNCHANGED <<stored, quarantine, metadataTemp>>
        /\ sha256'[i] = c /\ \A j \in Invocations \ {i} : sha256'[j] = sha256[j]
    BY <1>2, <2>1 DEF Copy, TypeOK
  <2>3. CASE /\ SizeAccepted(c, req[i])
             /\ partial' = [partial EXCEPT ![i] = [bytes |-> c, synced |-> FALSE]]
             /\ Goto(i, "copy", "verify")
    <3>1. /\ partial'[i] = [bytes |-> c, synced |-> FALSE]
          /\ \A j \in Invocations \ {i} : partial'[j] = partial[j]
      BY <2>3 DEF TypeOK
    <3>2. /\ OthersAlone(i) /\ UNCHANGED <<rotted, req, locks, result>>
          /\ pc[i] = "copy" /\ pc'[i] = "verify"
      BY <2>2, <2>3, <3>1, GotoAlone DEF OthersAlone, Same
    <3>3. Knows(i)'
      BY <1>0, <2>2, <2>3, <3>1, <3>2
         DEF Knows, LocksHeld, PartialKnown, DigestKnown, ObjectKnown, Unanswered, Key, locks
    <3> QED
      BY <2>2, <3>2, <3>3, LocalStep
  <2>4. CASE Abort(i, "mismatch")
    <3>1. Return(i, "mismatch") /\ \A j \in Invocations \ {i} : partial'[j] = partial[j]
      BY <2>4 DEF Abort, TypeOK
    <3>2. OthersAlone(i) /\ UNCHANGED rotted /\ pc'[i] = "done" /\ result'[i] = "mismatch"
      BY <2>2, <3>1, ReturnAlone DEF OthersAlone, Same
    <3> QED
      BY <2>2, <3>2, DoneKnows, LocalStep
  <2> QED
    BY <2>1, <2>3, <2>4
<1>3. CASE Verify(i)
  <2>0. UNCHANGED <<stored, quarantine, metadataTemp, sha256>> /\ pc[i] = "verify"
    BY <1>3 DEF Verify
  <2>1. sha256[i] \in Contents /\ SizeAccepted(sha256[i], req[i])
    BY <1>0, <2>0 DEF Knows, DigestKnown, PartialKnown
  <2>2. CASE /\ ChecksumsMatch(sha256[i], req[i]) /\ ArchiveValid(sha256[i], req[i])
             /\ partial' = [partial EXCEPT ![i] = [bytes |-> sha256[i], synced |-> TRUE]]
             /\ Goto(i, "verify", "lockObject")
    <3>1. /\ partial'[i] = [bytes |-> sha256[i], synced |-> TRUE]
          /\ \A j \in Invocations \ {i} : partial'[j] = partial[j]
      BY <2>2 DEF TypeOK
    <3>2. /\ OthersAlone(i) /\ UNCHANGED <<rotted, req, locks, result>>
          /\ pc'[i] = "lockObject"
      BY <2>0, <2>2, <3>1, GotoAlone DEF OthersAlone, Same
    <3>3. Satisfies(sha256[i], req[i])
      BY <2>1, <2>2 DEF Satisfies
    <3>4. Knows(i)'
      BY <1>0, <2>0, <2>1, <3>1, <3>2, <3>3
         DEF Knows, LocksHeld, PartialKnown, DigestKnown, ObjectKnown, Unanswered, Key, locks
    <3> QED
      BY <2>0, <3>2, <3>4, LocalStep
  <2>3. CASE Abort(i, "mismatch") \/ Abort(i, "archive")
    <3>1. PICK outcome \in {"mismatch", "archive"} : Abort(i, outcome)
      BY <2>3
    <3>2. Return(i, outcome) /\ \A j \in Invocations \ {i} : partial'[j] = partial[j]
      BY <3>1 DEF Abort, TypeOK
    <3>3. OthersAlone(i) /\ UNCHANGED rotted /\ pc'[i] = "done"
          /\ result'[i] \in {"mismatch", "archive"}
      BY <2>0, <3>2, ReturnAlone DEF OthersAlone, Same
    <3> QED
      BY <2>0, <3>3, DoneKnows, LocalStep
  <2> QED
    BY <1>3, <2>2, <2>3 DEF Verify
<1>4. CASE LockObject(i)
  <2>0. pc[i] = "lockObject" /\ sha256[i] \in Contents
    BY <1>0, <1>4 DEF LockObject, Knows, DigestKnown
  <2>1. /\ OthersAlone(i)
        /\ UNCHANGED <<stored, temporaries, descriptorLock, rotted, sha256, req, result>>
        /\ pc'[i] = "move" /\ objectLock'[sha256[i]] = i
    BY <1>4, <2>0 DEF LockObject, OthersAlone, Same, LocksKept, TypeOK, temporaries
  <2>2. Knows(i)'
    BY <1>0, <2>0, <2>1 DEF Knows, LocksHeld, PartialKnown, DigestKnown, ObjectKnown, Unanswered,
                            Key, temporaries
  <2> QED
    BY <2>1, <2>2, LocalStep
<1>5. CASE Move(i)
  <2>1. UNCHANGED <<stored, partial, quarantine, metadataTemp, sha256>> /\ Goto(i, "move", "syncMoved")
    BY <1>5 DEF Move, temporaries
  <2>2. /\ OthersAlone(i) /\ UNCHANGED <<rotted, req, locks, result>>
        /\ pc[i] = "move" /\ pc'[i] = "syncMoved"
    BY <2>1, GotoAlone DEF OthersAlone, Same
  <2>3. Knows(i)'
    BY <1>0, <2>1, <2>2 DEF Knows, LocksHeld, PartialKnown, DigestKnown, ObjectKnown, Unanswered,
                            Key, locks
  <2> QED
    BY <2>1, <2>2, <2>3, LocalStep
<1>6. CASE SyncMoved(i)
  <2>1. /\ UNCHANGED <<partial, quarantine, metadataTemp, sha256>>
        /\ Goto(i, "syncMoved", "publish") /\ SyncShard(sha256[i])
    BY <1>6 DEF SyncMoved, temporaries
  <2>2. /\ OthersAlone(i) /\ UNCHANGED <<rotted, req, locks, result>>
        /\ pc[i] = "syncMoved" /\ pc'[i] = "publish"
    BY <2>1, GotoAlone DEF OthersAlone, Same
  <2>3. Knows(i)'
    BY <1>0, <2>1, <2>2 DEF Knows, LocksHeld, PartialKnown, DigestKnown, ObjectKnown, Unanswered,
                            Key, locks
  <2>4. sha256[i] \in Contents /\ objectLock[sha256[i]] = i
    BY <1>0, <2>2 DEF Knows, DigestKnown, LocksHeld
  <2> QED
    BY <2>1, <2>2, <2>3, <2>4, ShardSynced
<1> QED
  BY <1>1, <1>2, <1>3, <1>4, <1>5, <1>6 DEF Fill

\* A create, rename or remove under the name of an object, as ObjectStep needs it.
LEMMA ObjectPut ==
  ASSUME TypeOK, StoreInvariant, NEW i \in Invocations, NEW d \in Contents,
         NEW b \in {Absent, Corrupt, d}, OthersAlone(i), PutObject(d, b, TRUE),
         UNCHANGED <<metadata, metadataImages, rotted>>, objectLock[d] = i,
         b = Corrupt => d \in rotted,
         d \notin rotted => b = d,
         Knows(i)'
  PROVE  StoreInvariant'
<1>1. /\ objects'[d] = b /\ objectImages'[d] = objectImages[d] \cup {b}
      /\ \A e \in Contents \ {d} : objects'[e] = objects[e] /\ objectImages'[e] = objectImages[e]
  BY DEF PutObject, TypeOK
<1>2. objectImages[d] \subseteq {Absent, d} \cup IF d \in rotted THEN {Corrupt} ELSE {}
  BY DEF StoreInvariant, ObjectsMatchTheirName
<1>3. objectImages'[d] \subseteq {Absent, d} \cup IF d \in rotted THEN {Corrupt} ELSE {}
  BY <1>1, <1>2
<1>4. d \notin rotted /\ objectImages[d] = {d} => objectImages'[d] = {d}
  BY <1>1
<1> QED
  BY <1>1, <1>3, <1>4, ObjectStep

\* publish_object_with_fs: under the object's lock, what was found stays true.
LEMMA PublishStep ==
  ASSUME TypeOK, StoreInvariant, NEW i \in Invocations, PublishObject(i)
  PROVE  StoreInvariant'
<1> USE DEF DescriptorLocked, ObjectLocked, LookupSteps, FillSteps, PublishSteps, MetadataSteps
<1>0. Knows(i) /\ Key(i) \in Keys
  BY KeyInKeys DEF StoreInvariant
<1>d. pc[i] \in PublishSteps =>
        /\ sha256[i] \in Contents /\ objectLock[sha256[i]] = i
        /\ objects[sha256[i]] \in objectImages[sha256[i]]
        /\ objectImages[sha256[i]] \subseteq
              {Absent, sha256[i]} \cup IF sha256[i] \in rotted THEN {Corrupt} ELSE {}
  BY <1>0 DEF Knows, DigestKnown, LocksHeld, StoreInvariant, ImagesCurrent, ObjectsMatchTheirName
<1>1. CASE Publish(i)
  <2>1. /\ UNCHANGED <<stored, partial, quarantine, metadataTemp, sha256>>
        /\ Goto(i, "publish", IF objects[sha256[i]] = Absent THEN "place"
                              ELSE IF Intact(sha256[i]) THEN "removeLosing" ELSE "quarantine")
    BY <1>1 DEF Publish, temporaries
  <2>2. /\ OthersAlone(i) /\ UNCHANGED <<rotted, req, locks, result>> /\ pc[i] = "publish"
        /\ pc'[i] = IF objects[sha256[i]] = Absent THEN "place"
                    ELSE IF Intact(sha256[i]) THEN "removeLosing" ELSE "quarantine"
    BY <2>1, GotoAlone DEF OthersAlone, Same
  <2>3. pc'[i] = "quarantine" => objects[sha256[i]] = Corrupt /\ sha256[i] \in rotted
    BY <1>d, <2>2 DEF Intact
  <2>4. Knows(i)'
    BY <1>0, <2>1, <2>2, <2>3 DEF Knows, LocksHeld, PartialKnown, DigestKnown, ObjectKnown,
                                  Unanswered, Key, locks, stored, Intact
  <2> QED
    BY <2>1, <2>2, <2>4, LocalStep
<1>2. CASE RemoveLosing(i)
  <2>1. /\ UNCHANGED <<stored, quarantine, metadataTemp, sha256>>
        /\ Goto(i, "removeLosing", "readOnly")
        /\ \A j \in Invocations \ {i} : partial'[j] = partial[j]
    BY <1>2 DEF RemoveLosing, TypeOK
  <2>2. /\ OthersAlone(i) /\ UNCHANGED <<rotted, req, locks, result>>
        /\ pc[i] = "removeLosing" /\ pc'[i] = "readOnly"
    BY <2>1, GotoAlone DEF OthersAlone, Same
  <2>3. Knows(i)'
    BY <1>0, <2>1, <2>2 DEF Knows, LocksHeld, PartialKnown, DigestKnown, ObjectKnown, Unanswered,
                            Key, locks, stored, Intact
  <2> QED
    BY <2>1, <2>2, <2>3, LocalStep
<1>3. CASE Quarantine(i)
  <2>1. /\ UNCHANGED <<metadata, metadataImages, partial, metadataTemp, sha256>>
        /\ Goto(i, "quarantine", "replace") /\ PutObject(sha256[i], Absent, TRUE)
        /\ quarantine'[i] = objects[sha256[i]]
        /\ \A j \in Invocations \ {i} : quarantine'[j] = quarantine[j]
    BY <1>3 DEF Quarantine, TypeOK
  <2>2. /\ OthersAlone(i) /\ UNCHANGED <<rotted, req, locks, result>>
        /\ pc[i] = "quarantine" /\ pc'[i] = "replace"
    BY <2>1, GotoAlone DEF OthersAlone, Same
  <2>3. /\ sha256[i] \in Contents /\ objectLock[sha256[i]] = i /\ sha256[i] \in rotted
        /\ objects[sha256[i]] = Corrupt
    BY <1>0, <1>d, <2>2 DEF Knows, ObjectKnown
  <2>4. objects'[sha256[i]] = Absent
    BY <2>1, <2>3 DEF PutObject, TypeOK
  <2>5. Knows(i)'
    BY <1>0, <2>1, <2>2, <2>3, <2>4
       DEF Knows, LocksHeld, PartialKnown, DigestKnown, ObjectKnown, Unanswered, Key, locks
  <2> QED
    BY <2>1, <2>2, <2>3, <2>5, ObjectPut
<1>4. CASE Replace(i) \/ Place(i)
  <2>1. PICK from \in {"replace", "place"}, to \in {"dropQuarantine", "readOnly"} :
          /\ Goto(i, from, to)
          /\ (from = "place" => to = "readOnly")
          /\ (from = "replace" => to = "dropQuarantine")
    BY <1>4 DEF Replace, Place
  <2>2. PlacePartial(i)
    BY <1>4 DEF Replace, Place
  <2>3. pc[i] = from /\ pc'[i] = to /\ UNCHANGED <<rotted, req, locks, result>>
    BY <2>1, GotoAlone
  <2>4. /\ sha256[i] \in Contents /\ objectLock[sha256[i]] = i
        /\ partial[i] = [bytes |-> sha256[i], synced |-> TRUE]
        /\ to = "dropQuarantine" => sha256[i] \in rotted
    BY <1>0, <1>d, <2>1, <2>3 DEF Knows, PartialKnown, ObjectKnown
  <2>5. PutObject(sha256[i], sha256[i], TRUE)
    <3>1. partial[i].bytes = sha256[i] /\ partial[i].synced = TRUE
      BY <2>4
    <3> QED
      BY <2>2, <3>1 DEF PlacePartial, PutObject
  <2>6. /\ UNCHANGED <<metadata, metadataImages, quarantine, metadataTemp, sha256>>
        /\ \A j \in Invocations \ {i} : partial'[j] = partial[j]
    BY <2>2 DEF PlacePartial, TypeOK
  <2>7. OthersAlone(i)
    BY <2>1, <2>3, <2>6, GotoAlone DEF OthersAlone, Same
  <2>8. objects'[sha256[i]] = sha256[i]
    BY <2>4, <2>5 DEF PutObject, TypeOK
  <2>9. Knows(i)'
    BY <1>0, <2>3, <2>4, <2>6, <2>8
       DEF Knows, LocksHeld, PartialKnown, DigestKnown, ObjectKnown, Unanswered, Key, locks, Intact
  <2> QED
    BY <2>3, <2>4, <2>5, <2>6, <2>7, <2>9, ObjectPut, SentinelsAssumption
<1>5. CASE DropQuarantine(i)
  <2>1. /\ UNCHANGED <<stored, partial, metadataTemp, sha256>>
        /\ Goto(i, "dropQuarantine", "readOnly")
        /\ \A j \in Invocations \ {i} : quarantine'[j] = quarantine[j]
    BY <1>5 DEF DropQuarantine, TypeOK
  <2>2. /\ OthersAlone(i) /\ UNCHANGED <<rotted, req, locks, result>>
        /\ pc[i] = "dropQuarantine" /\ pc'[i] = "readOnly"
    BY <2>1, GotoAlone DEF OthersAlone, Same
  <2>3. Knows(i)'
    BY <1>0, <2>1, <2>2 DEF Knows, LocksHeld, PartialKnown, DigestKnown, ObjectKnown, Unanswered,
                            Key, locks
  <2> QED
    BY <2>1, <2>2, <2>3, LocalStep
<1>6. CASE Restore(i)
  <2>0. /\ pc[i] = "restore" /\ Return(i, "io")
        /\ UNCHANGED <<metadata, metadataImages, partial, metadataTemp, sha256>>
    BY <1>6 DEF Restore
  <2>1. sha256[i] \in Contents /\ objectLock[sha256[i]] = i /\ sha256[i] \in rotted
        /\ quarantine[i] = Corrupt
    BY <1>0, <1>d, <2>0 DEF Knows, ObjectKnown
  <2>2. \A j \in Invocations \ {i} : quarantine'[j] = quarantine[j]
    BY <1>6 DEF Restore, TypeOK
  <2>3. OthersAlone(i) /\ UNCHANGED rotted /\ pc'[i] = "done" /\ result'[i] = "io"
    BY <2>0, <2>2, ReturnAlone DEF OthersAlone, Same
  <2>4. Knows(i)'
    BY <2>3, DoneKnows
  <2>5. CASE objects[sha256[i]] = Absent
    <3>1. PutObject(sha256[i], Corrupt, TRUE)
      BY <1>6, <2>1, <2>5 DEF Restore
    <3> QED
      BY <2>0, <2>1, <2>3, <2>4, <3>1, ObjectPut
  <2>6. CASE objects[sha256[i]] # Absent
    <3>1. UNCHANGED <<stored, rotted>>
      BY <1>6, <2>0, <2>3, <2>6 DEF Restore, stored
    <3> QED
      BY <2>3, <2>4, <3>1, LocalStep
  <2> QED
    BY <2>5, <2>6
<1>7. CASE ReadOnly(i)
  <2>1. /\ UNCHANGED <<stored, partial, quarantine, metadataTemp, sha256>>
        /\ Goto(i, "readOnly", "syncObject")
    BY <1>7 DEF ReadOnly, temporaries
  <2>2. /\ OthersAlone(i) /\ UNCHANGED <<rotted, req, locks, result>>
        /\ pc[i] = "readOnly" /\ pc'[i] = "syncObject"
    BY <2>1, GotoAlone DEF OthersAlone, Same
  <2>3. Knows(i)'
    BY <1>0, <2>1, <2>2 DEF Knows, LocksHeld, PartialKnown, DigestKnown, ObjectKnown, Unanswered,
                            Key, locks, stored, Intact
  <2> QED
    BY <2>1, <2>2, <2>3, LocalStep
<1>8. CASE SyncObject(i)
  <2>1. /\ UNCHANGED <<partial, quarantine, metadataTemp, sha256>>
        /\ Goto(i, "syncObject", "tempCreate") /\ SyncShard(sha256[i])
    BY <1>8 DEF SyncObject, temporaries
  <2>2. /\ OthersAlone(i) /\ UNCHANGED <<rotted, req, locks, result>>
        /\ pc[i] = "syncObject" /\ pc'[i] = "tempCreate"
    BY <2>1, GotoAlone DEF OthersAlone, Same
  <2>3. /\ sha256[i] \in Contents /\ objectLock[sha256[i]] = i
        /\ sha256[i] \notin rotted => objects[sha256[i]] = sha256[i]
    BY <1>0, <1>d, <2>2 DEF Knows, ObjectKnown, Intact
  <2>4. objectImages'[sha256[i]] = {objects[sha256[i]]}
    BY <2>1, <2>3 DEF SyncShard, TypeOK
  <2>5. Durable(sha256[i])'
    BY <2>1, <2>2, <2>3, <2>4 DEF Durable
  <2>6. Knows(i)'
    BY <1>0, <2>1, <2>2, <2>3, <2>5
       DEF Knows, LocksHeld, PartialKnown, DigestKnown, ObjectKnown, Unanswered, Key, locks
  <2> QED
    BY <2>1, <2>2, <2>3, <2>6, ShardSynced
<1> QED
  BY <1>1, <1>2, <1>3, <1>4, <1>5, <1>6, <1>7, <1>8 DEF PublishObject

\* commit_metadata: the document names an object that is durable already.
LEMMA CommitStep ==
  ASSUME TypeOK, StoreInvariant, NEW i \in Invocations, CommitMetadata(i)
  PROVE  StoreInvariant'
<1> USE DEF DescriptorLocked, ObjectLocked, LookupSteps, FillSteps, PublishSteps, MetadataSteps
<1>0. Knows(i) /\ Key(i) \in Keys
  BY KeyInKeys DEF StoreInvariant
<1>1. CASE TempCreate(i) \/ TempWrite(i)
  <2>1. PICK from \in {"tempCreate", "tempWrite"}, to \in {"tempWrite", "tempRename"} :
          /\ Goto(i, from, to)
          /\ to = "tempRename" => metadataTemp'[i] = [doc |-> sha256[i], synced |-> TRUE]
    BY <1>1 DEF TempCreate, TempWrite, TypeOK
  <2>2. /\ UNCHANGED <<stored, partial, quarantine, sha256>>
        /\ \A j \in Invocations \ {i} : metadataTemp'[j] = metadataTemp[j]
    BY <1>1 DEF TempCreate, TempWrite, TypeOK
  <2>3. /\ OthersAlone(i) /\ UNCHANGED <<rotted, req, locks, result>>
        /\ pc[i] = from /\ pc'[i] = to
    BY <2>1, <2>2, GotoAlone DEF OthersAlone, Same
  <2>4. Durable(sha256[i])'
    BY <1>0, <2>2, <2>3 DEF Knows, ObjectKnown, Durable, stored
  <2>5. Knows(i)'
    BY <1>0, <2>1, <2>2, <2>3, <2>4
       DEF Knows, LocksHeld, PartialKnown, DigestKnown, ObjectKnown, Unanswered, Key, locks
  <2> QED
    BY <2>2, <2>3, <2>5, LocalStep
<1>2. CASE TempRename(i)
  <2>1. /\ UNCHANGED <<objects, objectImages, partial, quarantine, sha256>>
        /\ Goto(i, "tempRename", "metadataSync")
        /\ \A j \in Invocations \ {i} : metadataTemp'[j] = metadataTemp[j]
    BY <1>2 DEF TempRename, TypeOK
  <2>2. /\ OthersAlone(i) /\ UNCHANGED <<rotted, req, locks, result>>
        /\ pc[i] = "tempRename" /\ pc'[i] = "metadataSync"
    BY <2>1, GotoAlone DEF OthersAlone, Same
  <2>3. /\ sha256[i] \in Contents /\ SatisfiesKey(sha256[i], Key(i)) /\ Durable(sha256[i])
        /\ metadataTemp[i] = [doc |-> sha256[i], synced |-> TRUE]
    BY <1>0, <2>2, KeySatisfied DEF Knows, DigestKnown, ObjectKnown, PartialKnown
  <2>4. metadataTemp[i].doc = sha256[i] /\ metadataTemp[i].synced = TRUE
    BY <2>3
  <2>5. /\ metadata'[Key(i)] = sha256[i]
        /\ metadataImages'[Key(i)] = metadataImages[Key(i)] \cup {sha256[i]}
        /\ \A e \in Keys \ {Key(i)} : metadata'[e] = metadata[e] /\ metadataImages'[e] = metadataImages[e]
    BY <1>0, <1>2, <2>4 DEF TempRename, PutMetadata, TypeOK
  <2>6. Durable(sha256[i])'
    BY <2>1, <2>2, <2>3 DEF Durable
  <2>7. Knows(i)'
    BY <1>0, <2>1, <2>2, <2>3, <2>6
       DEF Knows, LocksHeld, PartialKnown, DigestKnown, ObjectKnown, Unanswered, Key, locks
  <2> QED
    BY <1>0, <2>1, <2>2, <2>3, <2>5, <2>7, MetadataStep
<1>3. CASE MetadataSync(i)
  <2>1. /\ UNCHANGED <<objects, objectImages, metadata, partial, quarantine, metadataTemp, sha256>>
        /\ Return(i, "stored")
        /\ metadataImages'[Key(i)] = {metadata[Key(i)]}
        /\ \A e \in Keys \ {Key(i)} : metadataImages'[e] = metadataImages[e]
    BY <1>0, <1>3 DEF MetadataSync, SyncMetadata, temporaries, TypeOK
  <2>2. OthersAlone(i) /\ UNCHANGED rotted /\ pc'[i] = "done" /\ result'[i] = "stored"
    BY <2>1, ReturnAlone DEF OthersAlone, Same
  <2>3. sha256[i] \in Contents /\ Durable(sha256[i])
    BY <1>0, <1>3 DEF MetadataSync, Knows, DigestKnown, ObjectKnown
  <2>4. Durable(sha256[i])'
    BY <2>1, <2>2, <2>3 DEF Durable
  <2>5. Knows(i)'
    BY <2>1, <2>2, <2>3, <2>4, DoneKnows
  <2>6. metadata[Key(i)] \in metadataImages[Key(i)]
    BY <1>0 DEF StoreInvariant, ImagesCurrent
  <2> QED
    BY <1>0, <2>1, <2>2, <2>5, <2>6, MetadataStep
<1> QED
  BY <1>1, <1>2, <1>3 DEF CommitMetadata

\* I/O errors and the death of a process touch no stored file.
LEMMA FailureStep ==
  ASSUME TypeOK, StoreInvariant, NEW i \in Invocations, IoFails(i) \/ Kill(i)
  PROVE  StoreInvariant'
<1> USE DEF DescriptorLocked, ObjectLocked, LookupSteps, FillSteps, PublishSteps, MetadataSteps
<1>0. Knows(i)
  BY DEF StoreInvariant
<1>1. CASE FailReplace(i)
  <2>1. /\ UNCHANGED <<stored, quarantine, metadataTemp, sha256>>
        /\ Goto(i, "replace", "restore")
        /\ \A j \in Invocations \ {i} : partial'[j] = partial[j]
    BY <1>1 DEF FailReplace, TypeOK
  <2>2. /\ OthersAlone(i) /\ UNCHANGED <<rotted, req, locks, result>>
        /\ pc[i] = "replace" /\ pc'[i] = "restore"
    BY <2>1, GotoAlone DEF OthersAlone, Same
  <2>3. Knows(i)'
    BY <1>0, <2>1, <2>2 DEF Knows, LocksHeld, PartialKnown, DigestKnown, ObjectKnown, Unanswered,
                            Key, locks
  <2> QED
    BY <2>1, <2>2, <2>3, LocalStep
<1>2. CASE ~FailReplace(i)
  <2>1. PICK outcome \in {"io", "recovery", "killed"} : Return(i, outcome)
    BY <1>2 DEF IoFails, FailPlain, FailFill, FailMoved, FailQuarantine, FailTemp, Kill, Abort
  <2>2. UNCHANGED <<stored, sha256>>
    BY <1>2 DEF IoFails, FailPlain, FailFill, FailMoved, FailQuarantine, FailTemp, Kill
  <2>3. \A j \in Invocations \ {i} :
           /\ partial'[j] = partial[j] /\ quarantine'[j] = quarantine[j]
           /\ metadataTemp'[j] = metadataTemp[j]
    BY <1>2 DEF IoFails, FailPlain, FailFill, FailMoved, FailQuarantine, FailTemp, Kill, Abort,
                temporaries, TypeOK
  <2>4. OthersAlone(i) /\ UNCHANGED rotted /\ pc'[i] = "done" /\ result'[i] = outcome
    BY <2>1, <2>2, <2>3, ReturnAlone DEF OthersAlone, Same
  <2> QED
    BY <2>2, <2>4, DoneKnows, LocalStep
<1> QED
  BY <1>1, <1>2

\* Damage from outside: nobody relies on the bytes of an object that is damaged.
LEMMA RotStep ==
  ASSUME TypeOK, StoreInvariant, NEW d \in Contents, Rot(d)
  PROVE  StoreInvariant'
<1>1. /\ UNCHANGED <<metadata, metadataImages, partial, quarantine, metadataTemp, descriptorLock,
                     objectLock, pc, req, sha256, result>>
      /\ objects[d] = d /\ rotted' = rotted \cup {d}
      /\ objects'[d] = Corrupt
      /\ objectImages'[d] = {IF b = d THEN Corrupt ELSE b : b \in objectImages[d]}
      /\ \A e \in Contents \ {d} : objects'[e] = objects[e] /\ objectImages'[e] = objectImages[e]
  BY DEF Rot, Intact, TypeOK, temporaries, locks
<1>2. d # Absent /\ d # Corrupt
  BY SentinelsAssumption
<1>3. ImagesCurrent'
  BY <1>1 DEF StoreInvariant, ImagesCurrent
<1>4. ObjectsMatchTheirName'
  BY <1>1 DEF StoreInvariant, ObjectsMatchTheirName
<1>5. MetadataNamesDurableObject'
  <2> SUFFICES ASSUME NEW k \in Keys, NEW m \in metadataImages[k] \ {Absent}
               PROVE  m \in Contents /\ SatisfiesKey(m, k) /\ (m \notin rotted' => objectImages'[m] = {m})
    BY <1>1 DEF MetadataNamesDurableObject, SatisfiesKey
  <2>1. m \in Contents /\ SatisfiesKey(m, k) /\ (m \notin rotted => objectImages[m] = {m})
    BY DEF StoreInvariant, MetadataNamesDurableObject
  <2> QED
    BY <1>1, <2>1
<1>6. ASSUME NEW i \in Invocations PROVE Knows(i)'
  <2>1. Knows(i) /\ Key(i)' = Key(i)
    BY <1>1 DEF StoreInvariant, Key
  <2>2. LocksHeld(i)' /\ PartialKnown(i)' /\ DigestKnown(i)' /\ Unanswered(i)'
    BY <1>1, <2>1 DEF Knows, LocksHeld, PartialKnown, DigestKnown, Unanswered
  <2>3. ASSUME sha256[i] = d PROVE ObjectKnown(i)'
    BY <1>1, <1>2, <2>1, <2>3, SentinelsAssumption DEF Knows, ObjectKnown, Durable
  <2>4. ASSUME sha256[i] # d PROVE ObjectKnown(i)'
    <3>1. pc[i] \in {"validate", "hitReadOnly"} \cup ObjectLocked \/ result[i] \in {"hit", "stored"} =>
            sha256[i] \in Contents \ {d}
      BY <2>1, <2>4 DEF Knows, DigestKnown, ObjectKnown
    <3> QED
      BY <1>1, <2>1, <2>4, <3>1
         DEF Knows, ObjectKnown, Durable, Intact, ObjectLocked, PublishSteps, MetadataSteps
  <2> QED
    BY <2>2, <2>3, <2>4 DEF Knows
<1> QED
  BY <1>3, <1>4, <1>5, <1>6 DEF StoreInvariant

\* A power loss leaves one of the images, and only answers.
LEMMA PowerLossStep ==
  ASSUME TypeOK, StoreInvariant, PowerLoss
  PROVE  StoreInvariant'
<1>1. /\ \A d \in Contents : objects'[d] \in objectImages[d] /\ objectImages'[d] = {objects'[d]}
      /\ \A k \in Keys : metadata'[k] \in metadataImages[k] /\ metadataImages'[k] = {metadata'[k]}
      /\ UNCHANGED <<sha256, rotted>>
  BY DEF PowerLoss
<1>2. \A i \in Invocations :
         /\ pc'[i] = IF Active(i) THEN "done" ELSE pc[i]
         /\ result'[i] = IF Active(i) THEN "killed" ELSE result[i]
  BY DEF PowerLoss
<1>3. ImagesCurrent'
  BY <1>1 DEF ImagesCurrent
<1>4. ObjectsMatchTheirName'
  BY <1>1 DEF StoreInvariant, ObjectsMatchTheirName
<1>5. MetadataNamesDurableObject'
  <2> SUFFICES ASSUME NEW k \in Keys, NEW m \in metadataImages'[k] \ {Absent}
               PROVE  m \in Contents /\ SatisfiesKey(m, k) /\ (m \notin rotted => objectImages'[m] = {m})
    BY <1>1 DEF MetadataNamesDurableObject, SatisfiesKey
  <2>1. m \in metadataImages[k] \ {Absent}
    BY <1>1
  <2>2. m \in Contents /\ SatisfiesKey(m, k) /\ (m \notin rotted => objectImages[m] = {m})
    BY <2>1 DEF StoreInvariant, MetadataNamesDurableObject
  <2> QED
    BY <1>1, <2>2
<1>6. ASSUME NEW i \in Invocations PROVE Knows(i)'
  <2>1. pc'[i] \in {"idle", "done"}
    BY <1>2 DEF Active
  <2>2. Knows(i)
    BY DEF StoreInvariant
  <2>3. result'[i] = "corrupt" => sha256[i] \in rotted
    BY <1>2, <2>2 DEF Knows, ObjectKnown
  <2>4. Unanswered(i)'
    BY <1>2, <2>2 DEF Knows, Unanswered, Active
  <2>5. result'[i] \in {"hit", "stored"} => sha256[i] \in Contents /\ Durable(sha256[i])
    BY <1>2, <2>2 DEF Knows, ObjectKnown
  <2>6. result'[i] \in {"hit", "stored"} => sha256[i] \in Contents /\ Durable(sha256[i])'
    BY <1>1, <2>5 DEF Durable
  <2> QED
    BY <1>1, <2>1, <2>3, <2>4, <2>6
       DEF Knows, LocksHeld, PartialKnown, DigestKnown, ObjectKnown, DescriptorLocked,
           ObjectLocked, LookupSteps, FillSteps, PublishSteps, MetadataSteps
<1> QED
  BY <1>3, <1>4, <1>5, <1>6 DEF StoreInvariant

(***************************************************************************)
(* The theorems                                                            *)
(***************************************************************************)

\* The store starts empty, with nobody in it.
LEMMA Initially == Init => TypeOK /\ StoreInvariant
<1> SUFFICES ASSUME Init PROVE TypeOK /\ StoreInvariant
  OBVIOUS
<1>1. TypeOK
  BY StepNames DEF Init, TypeOK
<1>2. ImagesCurrent /\ ObjectsMatchTheirName /\ MetadataNamesDurableObject
  BY DEF Init, ImagesCurrent, ObjectsMatchTheirName, MetadataNamesDurableObject
<1>3. ASSUME NEW i \in Invocations PROVE Knows(i)
  BY DEF Init, Knows, LocksHeld, PartialKnown, DigestKnown, ObjectKnown, Unanswered,
         DescriptorLocked, ObjectLocked, LookupSteps, FillSteps, PublishSteps, MetadataSteps
<1> QED
  BY <1>1, <1>2, <1>3 DEF StoreInvariant

\* Types and invariant are preserved together: the types of what is published
\* follow from what the invocation knows of it.
LEMMA Inductive ==
  ASSUME ~MayMisread
  PROVE  TypeOK /\ StoreInvariant /\ [Next]_vars => TypeOK' /\ StoreInvariant'
<1> SUFFICES ASSUME TypeOK, StoreInvariant, [Next]_vars PROVE TypeOK' /\ StoreInvariant'
  OBVIOUS
<1>0. ASSUME NEW i \in Invocations PROVE ~Misread(i)
  BY DEF Misread, LoadMisread, PublishMisread
<1>1. ASSUME NEW i \in Invocations, Step(i) PROVE TypeOK' /\ StoreInvariant'
  <2>1. InHand(i)
    BY DEF StoreInvariant, Knows, DigestKnown, InHand
  <2> QED
    BY <1>1, <2>1, LookupTypes, FillTypes, PublishTypes, MetadataTypes, LookupStep, FillStep,
       PublishStep, CommitStep DEF Step
<1>2. ASSUME NEW i \in Invocations, IoFails(i) \/ Kill(i) PROVE TypeOK' /\ StoreInvariant'
  BY <1>2, FailureTypes, FailureStep
<1>3. ASSUME NEW d \in Contents, Rot(d) PROVE TypeOK' /\ StoreInvariant'
  BY <1>3, DisasterTypes, RotStep
<1>4. CASE PowerLoss
  BY <1>4, DisasterTypes, PowerLossStep
<1>5. CASE UNCHANGED vars
  <2>1. UNCHANGED <<objects, objectImages, metadata, metadataImages, partial, quarantine,
                    metadataTemp, descriptorLock, objectLock, pc, req, sha256, result, rotted>>
    BY <1>5 DEF vars, stored, temporaries, locks
  <2>2. TypeOK'
    BY <2>1 DEF TypeOK
  <2>3. ImagesCurrent' /\ ObjectsMatchTheirName' /\ MetadataNamesDurableObject'
    BY <2>1 DEF StoreInvariant, ImagesCurrent, ObjectsMatchTheirName, MetadataNamesDurableObject
  <2>4. ASSUME NEW i \in Invocations PROVE Knows(i)'
    <3>1. Knows(i)
      BY DEF StoreInvariant
    <3>2. LocksHeld(i)' /\ PartialKnown(i)'
      BY <2>1, <3>1 DEF Knows, LocksHeld, PartialKnown, SizeAccepted, Key
    <3>3. DigestKnown(i)' /\ Unanswered(i)'
      BY <2>1, <3>1 DEF Knows, DigestKnown, Unanswered, Key
    <3>4. ObjectKnown(i)'
      BY <2>1, <3>1 DEF Knows, ObjectKnown, Durable, Intact, Key
    <3> QED
      BY <3>2, <3>3, <3>4 DEF Knows
  <2> QED
    BY <2>2, <2>3, <2>4 DEF StoreInvariant
<1> QED
  BY <1>0, <1>1, <1>2, <1>3, <1>4, <1>5 DEF Next

\* What commit_artifact and probe_artifact know at each of their steps is true of
\* the store, whatever the other invocations do.
THEOREM InvariantHolds == ASSUME ~MayMisread PROVE Spec => [](TypeOK /\ StoreInvariant)
BY Initially, Inductive, PTL DEF Spec

\* No power loss, kill or race leaves wrong bytes under the name of an object.
THEOREM NamesAreDigests == ASSUME ~MayMisread PROVE Spec => []ObjectsMatchTheirName
<1>1. StoreInvariant => ObjectsMatchTheirName
  BY DEF StoreInvariant
<1> QED
  BY <1>1, InvariantHolds, PTL

\* commit_metadata never makes a document durable before the object it names.
THEOREM MetadataIsSafe == ASSUME ~MayMisread PROVE Spec => []MetadataNamesDurableObject
<1>1. StoreInvariant => MetadataNamesDurableObject
  BY DEF StoreInvariant
<1> QED
  BY <1>1, InvariantHolds, PTL

\* load_hit reports a committed descriptor as corrupt only after damage from outside.
THEOREM DescriptorsKeepWorking == ASSUME ~MayMisread PROVE Spec => []CommittedDescriptorsKeepWorking
<1>1. StoreInvariant => CommittedDescriptorsKeepWorking
  BY DEF StoreInvariant, CommittedDescriptorsKeepWorking, Knows, ObjectKnown
<1> QED
  BY <1>1, InvariantHolds, PTL

\* The archive behind a path that commit_artifact or probe_artifact handed out stays.
THEOREM HandlesValid == ASSUME ~MayMisread PROVE Spec => []HandlesStayValid
<1>1. StoreInvariant => HandlesStayValid
  BY DEF StoreInvariant, HandlesStayValid, Knows, ObjectKnown, Durable, ImagesCurrent, Intact
<1> QED
  BY <1>1, InvariantHolds, PTL

\* A step of an invocation that changes an object finds it absent or corrupt, and
\* keeps what it takes away.
LEMMA ObjectsChange ==
  ASSUME TypeOK, StoreInvariant, NEW i \in Invocations, Step(i) \/ IoFails(i) \/ Kill(i),
         NEW d \in Contents, objects'[d] # objects[d]
  PROVE  /\ objects[d] # d
         /\ objects'[d] = Absent /\ objects[d] # Absent => sha256[i] = d /\ quarantine'[i] = objects[d]
<1>0. Knows(i)
  BY DEF StoreInvariant
<1>1. objects' # objects
  OBVIOUS
<1>2. Quarantine(i) \/ Place(i) \/ Replace(i) \/ Restore(i)
  BY <1>1 DEF Step, Lookup, Fill, PublishObject, CommitMetadata, IoFails, Kill, Start, Lock, Load,
              Validate, HitReadOnly, CreatePartial, Copy, Verify, LockObject, Move, SyncMoved,
              Publish, RemoveLosing, DropQuarantine, ReadOnly, SyncObject, TempCreate, TempWrite,
              TempRename, MetadataSync, FailPlain, FailFill, FailMoved, FailReplace,
              FailQuarantine, FailTemp, SyncShard, SyncMetadata, stored
<1>3. pc[i] \in {"quarantine", "place", "replace", "restore"} /\ sha256[i] \in Contents
  BY <1>0, <1>2 DEF Quarantine, Place, Replace, Restore, Goto, Knows, DigestKnown, ObjectLocked,
                    PublishSteps
<1>4. d = sha256[i]
  BY <1>2, <1>3 DEF Quarantine, Place, Replace, PlacePartial, Restore, PutObject, TypeOK
<1>5. d # Absent /\ d # Corrupt
  BY SentinelsAssumption
<1>6. CASE Quarantine(i)
  <2>1. objects[d] = Corrupt /\ quarantine'[i] = objects[d]
    BY <1>0, <1>4, <1>6 DEF Quarantine, Goto, Knows, ObjectKnown, TypeOK
  <2> QED
    BY <1>4, <1>5, <2>1
<1>7. CASE Place(i) \/ Replace(i)
  <2>1. objects[d] = Absent
    BY <1>0, <1>4, <1>7 DEF Place, Replace, Goto, Knows, ObjectKnown
  <2> QED
    BY <1>5, <2>1
<1>8. CASE Restore(i)
  <2>1. objects[d] = Absent
    BY <1>1, <1>4, <1>8 DEF Restore
  <2> QED
    BY <1>5, <2>1
<1> QED
  BY <1>2, <1>6, <1>7, <1>8

\* publish_object_with_fs never takes an intact object away.
THEOREM IntactStay == ASSUME ~MayMisread PROVE Spec => IntactObjectsStay
<1> DEFINE A == \A d \in Contents : Intact(d) /\ objects'[d] # d => rotted' # rotted \/ PowerLoss
<1>1. TypeOK /\ StoreInvariant /\ [Next]_vars => [A]_vars
  <2> SUFFICES ASSUME TypeOK, StoreInvariant, Next, NEW d \in Contents, Intact(d), objects'[d] # d,
                      ~PowerLoss
               PROVE  rotted' # rotted
    OBVIOUS
  <2>0. \A i \in Invocations : ~Misread(i)
    BY DEF Misread, LoadMisread, PublishMisread
  <2>1. CASE \E i \in Invocations : Step(i) \/ IoFails(i) \/ Kill(i)
    BY <2>1, ObjectsChange DEF Intact
  <2>2. CASE \E e \in Contents : Rot(e)
    BY <2>2 DEF Rot
  <2> QED
    BY <2>0, <2>1, <2>2 DEF Next
<1> QED
  BY <1>1, InvariantHolds, PTL DEF Spec, IntactObjectsStay

\* A corrupt object leaves its name only for a quarantine file.
THEOREM BytesAreKept == ASSUME ~MayMisread PROVE Spec => QuarantineKeepsBytes
<1> DEFINE A == \A d \in Contents : objects[d] # Absent /\ objects'[d] = Absent =>
                  PowerLoss \/ \E i \in Invocations : sha256[i] = d /\ quarantine'[i] = objects[d]
<1>1. TypeOK /\ StoreInvariant /\ [Next]_vars => [A]_vars
  <2> SUFFICES ASSUME TypeOK, StoreInvariant, Next, NEW d \in Contents, objects[d] # Absent,
                      objects'[d] = Absent, ~PowerLoss
               PROVE  \E i \in Invocations : sha256[i] = d /\ quarantine'[i] = objects[d]
    OBVIOUS
  <2>0. \A i \in Invocations : ~Misread(i)
    BY DEF Misread, LoadMisread, PublishMisread
  <2>1. CASE \E i \in Invocations : Step(i) \/ IoFails(i) \/ Kill(i)
    BY <2>1, ObjectsChange
  <2>2. CASE \E e \in Contents : Rot(e)
    BY <2>2, SentinelsAssumption DEF Rot, TypeOK
  <2> QED
    BY <2>0, <2>1, <2>2 DEF Next
<1> QED
  BY <1>1, InvariantHolds, PTL DEF Spec, QuarantineKeepsBytes

(***************************************************************************)
(* Temporaries: what the error paths remove, whatever fails                *)
(***************************************************************************)

\* Lock to load_hit: the call touches nothing of the others'.
LEMMA LookupAlone ==
  ASSUME TypeOK, NEW i \in Invocations, Lookup(i)
  PROVE  OthersAlone(i) /\ UNCHANGED <<req, rotted>>
<1>1. CASE Start(i)
  BY <1>1 DEF Start, Goto, Return, stored, temporaries, locks, OthersAlone, Same, LocksKept, TypeOK
<1>2. CASE Lock(i)
  BY <1>2 DEF Lock, stored, temporaries, OthersAlone, Same, LocksKept, TypeOK
<1>3. CASE Load(i)
  BY <1>3 DEF Load, Goto, Return, stored, temporaries, locks, OthersAlone, Same, LocksKept, TypeOK
<1>4. CASE Validate(i)
  BY <1>4 DEF Validate, Goto, Return, stored, temporaries, locks, OthersAlone, Same, LocksKept, TypeOK
<1>5. CASE HitReadOnly(i)
  BY <1>5 DEF HitReadOnly, Return, stored, temporaries, OthersAlone, Same, LocksKept, TypeOK
<1> QED
  BY <1>1, <1>2, <1>3, <1>4, <1>5 DEF Lookup

\* copy_stream to the move of the partial: the same.
LEMMA FillAlone ==
  ASSUME TypeOK, NEW i \in Invocations, Fill(i)
  PROVE  OthersAlone(i) /\ UNCHANGED <<req, rotted>>
<1>1. CASE CreatePartial(i)
  BY <1>1 DEF CreatePartial, Goto, stored, locks, OthersAlone, Same, LocksKept, TypeOK
<1>2. CASE Copy(i)
  BY <1>2 DEF Copy, Goto, Return, Abort, stored, locks, OthersAlone, Same, LocksKept, TypeOK
<1>3. CASE Verify(i)
  BY <1>3 DEF Verify, Goto, Return, Abort, stored, locks, OthersAlone, Same, LocksKept, TypeOK
<1>4. CASE LockObject(i)
  BY <1>4 DEF LockObject, stored, temporaries, OthersAlone, Same, LocksKept, TypeOK
<1>5. CASE Move(i)
  BY <1>5 DEF Move, Goto, stored, temporaries, locks, OthersAlone, Same, LocksKept, TypeOK
<1>6. CASE SyncMoved(i)
  BY <1>6 DEF SyncMoved, Goto, SyncShard, temporaries, locks, OthersAlone, Same, LocksKept, TypeOK
<1> QED
  BY <1>1, <1>2, <1>3, <1>4, <1>5, <1>6 DEF Fill

\* publish_object_with_fs and sync_committed_object: the same.
LEMMA PublishObjectAlone ==
  ASSUME TypeOK, NEW i \in Invocations, PublishObject(i)
  PROVE  OthersAlone(i) /\ UNCHANGED <<req, rotted>>
<1>1. CASE Publish(i)
  BY <1>1 DEF Publish, Goto, stored, temporaries, locks, OthersAlone, Same, LocksKept, TypeOK
<1>2. CASE RemoveLosing(i)
  BY <1>2 DEF RemoveLosing, Goto, stored, locks, OthersAlone, Same, LocksKept, TypeOK
<1>3. CASE Quarantine(i)
  BY <1>3 DEF Quarantine, Goto, PutObject, locks, OthersAlone, Same, LocksKept, TypeOK
<1>4. CASE Replace(i)
  BY <1>4 DEF Replace, Goto, PutObject, PlacePartial, locks, OthersAlone, Same, LocksKept, TypeOK
<1>5. CASE DropQuarantine(i)
  BY <1>5 DEF DropQuarantine, Goto, stored, locks, OthersAlone, Same, LocksKept, TypeOK
<1>6. CASE Restore(i)
  BY <1>6 DEF Restore, Return, PutObject, OthersAlone, Same, LocksKept, TypeOK
<1>7. CASE Place(i)
  BY <1>7 DEF Place, Goto, PutObject, PlacePartial, locks, OthersAlone, Same, LocksKept, TypeOK
<1>8. CASE ReadOnly(i)
  BY <1>8 DEF ReadOnly, Goto, stored, temporaries, locks, OthersAlone, Same, LocksKept, TypeOK
<1>9. CASE SyncObject(i)
  BY <1>9 DEF SyncObject, Goto, SyncShard, temporaries, locks, OthersAlone, Same, LocksKept, TypeOK
<1> QED
  BY <1>1, <1>2, <1>3, <1>4, <1>5, <1>6, <1>7, <1>8, <1>9 DEF PublishObject

\* commit_metadata: the same.
LEMMA CommitMetadataAlone ==
  ASSUME TypeOK, NEW i \in Invocations, CommitMetadata(i)
  PROVE  OthersAlone(i) /\ UNCHANGED <<req, rotted>>
<1>1. CASE TempCreate(i)
  BY <1>1 DEF TempCreate, Goto, stored, locks, OthersAlone, Same, LocksKept, TypeOK
<1>2. CASE TempWrite(i)
  BY <1>2 DEF TempWrite, Goto, stored, locks, OthersAlone, Same, LocksKept, TypeOK
<1>3. CASE TempRename(i)
  BY <1>3 DEF TempRename, Goto, PutMetadata, locks, OthersAlone, Same, LocksKept, TypeOK
<1>4. CASE MetadataSync(i)
  BY <1>4 DEF MetadataSync, Return, SyncMetadata, stored, temporaries, OthersAlone, Same, LocksKept, TypeOK
<1> QED
  BY <1>1, <1>2, <1>3, <1>4 DEF CommitMetadata

\* A call that fails: the same.
LEMMA IoFailsAlone ==
  ASSUME TypeOK, NEW i \in Invocations, IoFails(i)
  PROVE  OthersAlone(i) /\ UNCHANGED <<req, rotted>>
<1>1. CASE FailPlain(i)
  BY <1>1 DEF FailPlain, Return, stored, temporaries, OthersAlone, Same, LocksKept, TypeOK
<1>2. CASE FailFill(i)
  BY <1>2 DEF FailFill, Return, Abort, stored, OthersAlone, Same, LocksKept, TypeOK
<1>3. CASE FailMoved(i)
  BY <1>3 DEF FailMoved, Return, Abort, stored, OthersAlone, Same, LocksKept, TypeOK
<1>4. CASE FailReplace(i)
  BY <1>4 DEF FailReplace, Goto, stored, locks, OthersAlone, Same, LocksKept, TypeOK
<1>5. CASE FailQuarantine(i)
  BY <1>5 DEF FailQuarantine, Return, stored, temporaries, OthersAlone, Same, LocksKept, TypeOK
<1>6. CASE FailTemp(i)
  BY <1>6 DEF FailTemp, Return, stored, OthersAlone, Same, LocksKept, TypeOK
<1> QED
  BY <1>1, <1>2, <1>3, <1>4, <1>5, <1>6 DEF IoFails

\* A call that fails to look at a file: the same.
LEMMA MisreadAlone ==
  ASSUME TypeOK, NEW i \in Invocations, Misread(i)
  PROVE  OthersAlone(i) /\ UNCHANGED <<req, rotted>>
<1>1. CASE LoadMisread(i)
  BY <1>1 DEF LoadMisread, Goto, Return, stored, temporaries, locks, OthersAlone, Same, LocksKept, TypeOK
<1>2. CASE PublishMisread(i)
  BY <1>2 DEF PublishMisread, Goto, stored, temporaries, locks, OthersAlone, Same, LocksKept, TypeOK
<1> QED
  BY <1>1, <1>2 DEF Misread

\* A call that is killed: the same.
LEMMA KillAlone ==
  ASSUME TypeOK, NEW i \in Invocations, Kill(i)
  PROVE  OthersAlone(i) /\ UNCHANGED <<req, rotted>>
BY DEF Kill, Return, stored, temporaries, Active, OthersAlone, Same, LocksKept, TypeOK

\* lock_for_commit to load_hit create no temporary.
LEMMA LookupTemps ==
  ASSUME TypeOK, NEW i \in Invocations, InHand(i), Whereabouts(i), Replaced(i), Lookup(i)
  PROVE  InHand(i)' /\ Whereabouts(i)' /\ Replaced(i)'
<1> USE KeyInKeys, SentinelsAssumption DEF DescriptorLocked, ObjectLocked, LookupSteps, FillSteps,
   PublishSteps, MetadataSteps
<1>1. CASE Start(i)
  <2>1. LocksHeld(i)'
    BY <1>1 DEF Start, Goto, Return, stored, temporaries, locks, TypeOK, InHand, LocksHeld, Key
  <2>2. PartialKnown(i)'
    BY <1>1 DEF Start, Goto, Return, stored, temporaries, locks, TypeOK, InHand, PartialKnown, Satisfies
  <2>3. pc'[i] \in {"verify", "lockObject"} \cup ObjectLocked => sha256'[i] \in Contents
    BY <1>1 DEF Start, Goto, Return, stored, temporaries, locks, TypeOK, InHand
  <2>4. Whereabouts(i)'
    BY <1>1 DEF Start, Goto, Return, stored, temporaries, locks, TypeOK, Whereabouts
  <2>5. Replaced(i)'
    BY <1>1 DEF Start, Goto, Return, stored, temporaries, locks, TypeOK, InHand, PartialKnown, Replaced
  <2> QED
    BY <2>1, <2>2, <2>3, <2>4, <2>5 DEF InHand
<1>2. CASE Lock(i)
  <2>1. LocksHeld(i)'
    BY <1>2 DEF Lock, stored, temporaries, TypeOK, InHand, LocksHeld, Key
  <2>2. PartialKnown(i)'
    BY <1>2 DEF Lock, stored, temporaries, TypeOK, InHand, PartialKnown, Satisfies
  <2>3. pc'[i] \in {"verify", "lockObject"} \cup ObjectLocked => sha256'[i] \in Contents
    BY <1>2 DEF Lock, stored, temporaries, TypeOK, InHand
  <2>4. Whereabouts(i)'
    BY <1>2 DEF Lock, stored, temporaries, TypeOK, Whereabouts
  <2>5. Replaced(i)'
    BY <1>2 DEF Lock, stored, temporaries, TypeOK, InHand, PartialKnown, Replaced
  <2> QED
    BY <2>1, <2>2, <2>3, <2>4, <2>5 DEF InHand
<1>3. CASE Load(i)
  <2>1. LocksHeld(i)'
    BY <1>3 DEF Load, Goto, Return, stored, temporaries, locks, TypeOK, InHand, LocksHeld, Key
  <2>2. PartialKnown(i)'
    BY <1>3 DEF Load, Goto, Return, stored, temporaries, locks, TypeOK, InHand, PartialKnown, Satisfies
  <2>3. pc'[i] \in {"verify", "lockObject"} \cup ObjectLocked => sha256'[i] \in Contents
    BY <1>3 DEF Load, Goto, Return, stored, temporaries, locks, TypeOK, InHand
  <2>4. Whereabouts(i)'
    BY <1>3 DEF Load, Goto, Return, stored, temporaries, locks, TypeOK, Whereabouts
  <2>5. Replaced(i)'
    BY <1>3 DEF Load, Goto, Return, stored, temporaries, locks, TypeOK, InHand, PartialKnown, Replaced
  <2> QED
    BY <2>1, <2>2, <2>3, <2>4, <2>5 DEF InHand
<1>4. CASE Validate(i)
  <2>1. LocksHeld(i)'
    BY <1>4 DEF Validate, Goto, Return, stored, temporaries, locks, TypeOK, InHand, LocksHeld, Key
  <2>2. PartialKnown(i)'
    BY <1>4 DEF Validate, Goto, Return, stored, temporaries, locks, TypeOK, InHand, PartialKnown, Satisfies
  <2>3. pc'[i] \in {"verify", "lockObject"} \cup ObjectLocked => sha256'[i] \in Contents
    BY <1>4 DEF Validate, Goto, Return, stored, temporaries, locks, TypeOK, InHand
  <2>4. Whereabouts(i)'
    BY <1>4 DEF Validate, Goto, Return, stored, temporaries, locks, TypeOK, Whereabouts
  <2>5. Replaced(i)'
    BY <1>4 DEF Validate, Goto, Return, stored, temporaries, locks, TypeOK, InHand, PartialKnown, Replaced
  <2> QED
    BY <2>1, <2>2, <2>3, <2>4, <2>5 DEF InHand
<1>5. CASE HitReadOnly(i)
  <2>1. LocksHeld(i)'
    BY <1>5 DEF HitReadOnly, Return, stored, temporaries, TypeOK, InHand, LocksHeld, Key
  <2>2. PartialKnown(i)'
    BY <1>5 DEF HitReadOnly, Return, stored, temporaries, TypeOK, InHand, PartialKnown, Satisfies
  <2>3. pc'[i] \in {"verify", "lockObject"} \cup ObjectLocked => sha256'[i] \in Contents
    BY <1>5 DEF HitReadOnly, Return, stored, temporaries, TypeOK, InHand
  <2>4. Whereabouts(i)'
    BY <1>5 DEF HitReadOnly, Return, stored, temporaries, TypeOK, Whereabouts
  <2>5. Replaced(i)'
    BY <1>5 DEF HitReadOnly, Return, stored, temporaries, TypeOK, InHand, PartialKnown, Replaced
  <2> QED
    BY <2>1, <2>2, <2>3, <2>4, <2>5 DEF InHand
<1> QED
  BY <1>1, <1>2, <1>3, <1>4, <1>5 DEF Lookup

\* commit_miss: the partial is removed on every way out before publication.
LEMMA FillTemps ==
  ASSUME TypeOK, NEW i \in Invocations, InHand(i), Whereabouts(i), Replaced(i), Fill(i)
  PROVE  InHand(i)' /\ Whereabouts(i)' /\ Replaced(i)'
<1> USE KeyInKeys, SentinelsAssumption DEF DescriptorLocked, ObjectLocked, LookupSteps, FillSteps,
   PublishSteps, MetadataSteps
<1>1. CASE CreatePartial(i)
  <2>1. LocksHeld(i)'
    BY <1>1 DEF CreatePartial, Goto, stored, locks, TypeOK, InHand, LocksHeld, Key
  <2>2. PartialKnown(i)'
    BY <1>1 DEF CreatePartial, Goto, stored, locks, TypeOK, InHand, PartialKnown, Satisfies
  <2>3. pc'[i] \in {"verify", "lockObject"} \cup ObjectLocked => sha256'[i] \in Contents
    BY <1>1 DEF CreatePartial, Goto, stored, locks, TypeOK, InHand
  <2>4. Whereabouts(i)'
    BY <1>1 DEF CreatePartial, Goto, stored, locks, TypeOK, Whereabouts
  <2>5. Replaced(i)'
    BY <1>1 DEF CreatePartial, Goto, stored, locks, TypeOK, InHand, PartialKnown, Replaced
  <2> QED
    BY <2>1, <2>2, <2>3, <2>4, <2>5 DEF InHand
<1>2. CASE Copy(i)
  <2>1. LocksHeld(i)'
    BY <1>2 DEF Copy, Goto, Return, Abort, stored, locks, TypeOK, InHand, LocksHeld, Key
  <2>2. PartialKnown(i)'
    <3>1. PICK c \in Contents :
            /\ sha256' = [sha256 EXCEPT ![i] = c]
            /\ \/ /\ SizeAccepted(c, req[i])
                  /\ partial' = [partial EXCEPT ![i] = [bytes |-> c, synced |-> FALSE]]
                  /\ Goto(i, "copy", "verify")
               \/ Abort(i, "mismatch")
      BY <1>2 DEF Copy
    <3>2. CASE Abort(i, "mismatch")
      BY <3>2 DEF Abort, Return, TypeOK, PartialKnown
    <3>3. CASE /\ SizeAccepted(c, req[i])
               /\ partial' = [partial EXCEPT ![i] = [bytes |-> c, synced |-> FALSE]]
               /\ Goto(i, "copy", "verify")
      <4>1. /\ sha256'[i] = c /\ pc'[i] = "verify" /\ req' = req
            /\ partial'[i] = [bytes |-> c, synced |-> FALSE]
        BY <3>1, <3>3 DEF Goto, TypeOK
      <4>2. SizeAccepted(sha256[i], req[i])'
        BY <3>3, <4>1 DEF SizeAccepted
      <4> QED
        BY <4>1, <4>2 DEF PartialKnown
    <3> QED
      BY <3>1, <3>2, <3>3
  <2>3. pc'[i] \in {"verify", "lockObject"} \cup ObjectLocked => sha256'[i] \in Contents
    BY <1>2 DEF Copy, Goto, Return, Abort, stored, locks, TypeOK, InHand
  <2>4. Whereabouts(i)'
    BY <1>2 DEF Copy, Goto, Return, Abort, stored, locks, TypeOK, Whereabouts
  <2>5. Replaced(i)'
    BY <1>2 DEF Copy, Goto, Return, Abort, stored, locks, TypeOK, InHand, PartialKnown, Replaced
  <2> QED
    BY <2>1, <2>2, <2>3, <2>4, <2>5 DEF InHand
<1>3. CASE Verify(i)
  <2>1. LocksHeld(i)'
    BY <1>3 DEF Verify, Goto, Return, Abort, stored, locks, TypeOK, InHand, LocksHeld, Key
  <2>2. PartialKnown(i)'
    BY <1>3 DEF Verify, Goto, Return, Abort, stored, locks, TypeOK, InHand, PartialKnown, Satisfies
  <2>3. pc'[i] \in {"verify", "lockObject"} \cup ObjectLocked => sha256'[i] \in Contents
    BY <1>3 DEF Verify, Goto, Return, Abort, stored, locks, TypeOK, InHand
  <2>4. Whereabouts(i)'
    BY <1>3 DEF Verify, Goto, Return, Abort, stored, locks, TypeOK, Whereabouts
  <2>5. Replaced(i)'
    BY <1>3 DEF Verify, Goto, Return, Abort, stored, locks, TypeOK, InHand, PartialKnown, Replaced
  <2> QED
    BY <2>1, <2>2, <2>3, <2>4, <2>5 DEF InHand
<1>4. CASE LockObject(i)
  <2>1. LocksHeld(i)'
    BY <1>4 DEF LockObject, stored, temporaries, TypeOK, InHand, LocksHeld, Key
  <2>2. PartialKnown(i)'
    BY <1>4 DEF LockObject, stored, temporaries, TypeOK, InHand, PartialKnown, Satisfies
  <2>3. pc'[i] \in {"verify", "lockObject"} \cup ObjectLocked => sha256'[i] \in Contents
    BY <1>4 DEF LockObject, stored, temporaries, TypeOK, InHand
  <2>4. Whereabouts(i)'
    BY <1>4 DEF LockObject, stored, temporaries, TypeOK, Whereabouts
  <2>5. Replaced(i)'
    BY <1>4 DEF LockObject, stored, temporaries, TypeOK, InHand, PartialKnown, Replaced
  <2> QED
    BY <2>1, <2>2, <2>3, <2>4, <2>5 DEF InHand
<1>5. CASE Move(i)
  <2>1. LocksHeld(i)'
    BY <1>5 DEF Move, Goto, stored, temporaries, locks, TypeOK, InHand, LocksHeld, Key
  <2>2. PartialKnown(i)'
    BY <1>5 DEF Move, Goto, stored, temporaries, locks, TypeOK, InHand, PartialKnown, Satisfies
  <2>3. pc'[i] \in {"verify", "lockObject"} \cup ObjectLocked => sha256'[i] \in Contents
    BY <1>5 DEF Move, Goto, stored, temporaries, locks, TypeOK, InHand
  <2>4. Whereabouts(i)'
    BY <1>5 DEF Move, Goto, stored, temporaries, locks, TypeOK, Whereabouts
  <2>5. Replaced(i)'
    BY <1>5 DEF Move, Goto, stored, temporaries, locks, TypeOK, InHand, PartialKnown, Replaced
  <2> QED
    BY <2>1, <2>2, <2>3, <2>4, <2>5 DEF InHand
<1>6. CASE SyncMoved(i)
  <2>1. LocksHeld(i)'
    BY <1>6 DEF SyncMoved, Goto, SyncShard, temporaries, locks, TypeOK, InHand, LocksHeld, Key
  <2>2. PartialKnown(i)'
    BY <1>6 DEF SyncMoved, Goto, SyncShard, temporaries, locks, TypeOK, InHand, PartialKnown, Satisfies
  <2>3. pc'[i] \in {"verify", "lockObject"} \cup ObjectLocked => sha256'[i] \in Contents
    BY <1>6 DEF SyncMoved, Goto, SyncShard, temporaries, locks, TypeOK, InHand
  <2>4. Whereabouts(i)'
    BY <1>6 DEF SyncMoved, Goto, SyncShard, temporaries, locks, TypeOK, Whereabouts
  <2>5. Replaced(i)'
    BY <1>6 DEF SyncMoved, Goto, SyncShard, temporaries, locks, TypeOK, InHand, PartialKnown, Replaced
  <2> QED
    BY <2>1, <2>2, <2>3, <2>4, <2>5 DEF InHand
<1> QED
  BY <1>1, <1>2, <1>3, <1>4, <1>5, <1>6 DEF Fill

\* publish_object_with_fs: the partial becomes the object or is removed, and a quarantine
\* is dropped only with another object in place.
LEMMA PublishObjectTemps ==
  ASSUME TypeOK, NEW i \in Invocations, InHand(i), Whereabouts(i), Replaced(i), PublishObject(i)
  PROVE  InHand(i)' /\ Whereabouts(i)' /\ Replaced(i)'
<1> USE KeyInKeys, SentinelsAssumption DEF DescriptorLocked, ObjectLocked, LookupSteps, FillSteps,
   PublishSteps, MetadataSteps
<1>1. CASE Publish(i)
  <2>1. LocksHeld(i)'
    BY <1>1 DEF Publish, Goto, stored, temporaries, locks, TypeOK, InHand, LocksHeld, Key
  <2>2. PartialKnown(i)'
    BY <1>1 DEF Publish, Goto, stored, temporaries, locks, TypeOK, InHand, PartialKnown, Satisfies
  <2>3. pc'[i] \in {"verify", "lockObject"} \cup ObjectLocked => sha256'[i] \in Contents
    BY <1>1 DEF Publish, Goto, stored, temporaries, locks, TypeOK, InHand
  <2>4. Whereabouts(i)'
    BY <1>1 DEF Publish, Goto, stored, temporaries, locks, TypeOK, Whereabouts
  <2>5. Replaced(i)'
    BY <1>1 DEF Publish, Goto, stored, temporaries, locks, TypeOK, InHand, PartialKnown, Replaced
  <2> QED
    BY <2>1, <2>2, <2>3, <2>4, <2>5 DEF InHand
<1>2. CASE RemoveLosing(i)
  <2>1. LocksHeld(i)'
    BY <1>2 DEF RemoveLosing, Goto, stored, locks, TypeOK, InHand, LocksHeld, Key
  <2>2. PartialKnown(i)'
    BY <1>2 DEF RemoveLosing, Goto, stored, locks, TypeOK, InHand, PartialKnown, Satisfies
  <2>3. pc'[i] \in {"verify", "lockObject"} \cup ObjectLocked => sha256'[i] \in Contents
    BY <1>2 DEF RemoveLosing, Goto, stored, locks, TypeOK, InHand
  <2>4. Whereabouts(i)'
    BY <1>2 DEF RemoveLosing, Goto, stored, locks, TypeOK, Whereabouts
  <2>5. Replaced(i)'
    BY <1>2 DEF RemoveLosing, Goto, stored, locks, TypeOK, InHand, PartialKnown, Replaced
  <2> QED
    BY <2>1, <2>2, <2>3, <2>4, <2>5 DEF InHand
<1>3. CASE Quarantine(i)
  <2>1. LocksHeld(i)'
    BY <1>3 DEF Quarantine, Goto, PutObject, locks, TypeOK, InHand, LocksHeld, Key
  <2>2. PartialKnown(i)'
    BY <1>3 DEF Quarantine, Goto, PutObject, locks, TypeOK, InHand, PartialKnown, Satisfies
  <2>3. pc'[i] \in {"verify", "lockObject"} \cup ObjectLocked => sha256'[i] \in Contents
    BY <1>3 DEF Quarantine, Goto, PutObject, locks, TypeOK, InHand
  <2>4. Whereabouts(i)'
    BY <1>3 DEF Quarantine, Goto, PutObject, locks, TypeOK, Whereabouts
  <2>5. Replaced(i)'
    BY <1>3 DEF Quarantine, Goto, PutObject, locks, TypeOK, InHand, PartialKnown, Replaced
  <2> QED
    BY <2>1, <2>2, <2>3, <2>4, <2>5 DEF InHand
<1>4. CASE Replace(i)
  <2>1. LocksHeld(i)'
    BY <1>4 DEF Replace, Goto, PutObject, PlacePartial, locks, TypeOK, InHand, LocksHeld, Key
  <2>2. PartialKnown(i)'
    BY <1>4 DEF Replace, Goto, PutObject, PlacePartial, locks, TypeOK, InHand, PartialKnown, Satisfies
  <2>3. pc'[i] \in {"verify", "lockObject"} \cup ObjectLocked => sha256'[i] \in Contents
    BY <1>4 DEF Replace, Goto, PutObject, PlacePartial, locks, TypeOK, InHand
  <2>4. Whereabouts(i)'
    BY <1>4 DEF Replace, Goto, PutObject, PlacePartial, locks, TypeOK, Whereabouts
  <2>5. Replaced(i)'
    BY <1>4 DEF Replace, Goto, PutObject, PlacePartial, locks, TypeOK, InHand, PartialKnown, Replaced
  <2> QED
    BY <2>1, <2>2, <2>3, <2>4, <2>5 DEF InHand
<1>5. CASE DropQuarantine(i)
  <2>1. LocksHeld(i)'
    BY <1>5 DEF DropQuarantine, Goto, stored, locks, TypeOK, InHand, LocksHeld, Key
  <2>2. PartialKnown(i)'
    BY <1>5 DEF DropQuarantine, Goto, stored, locks, TypeOK, InHand, PartialKnown, Satisfies
  <2>3. pc'[i] \in {"verify", "lockObject"} \cup ObjectLocked => sha256'[i] \in Contents
    BY <1>5 DEF DropQuarantine, Goto, stored, locks, TypeOK, InHand
  <2>4. Whereabouts(i)'
    BY <1>5 DEF DropQuarantine, Goto, stored, locks, TypeOK, Whereabouts
  <2>5. Replaced(i)'
    BY <1>5 DEF DropQuarantine, Goto, stored, locks, TypeOK, InHand, PartialKnown, Replaced
  <2> QED
    BY <2>1, <2>2, <2>3, <2>4, <2>5 DEF InHand
<1>6. CASE Restore(i)
  <2>1. LocksHeld(i)'
    BY <1>6 DEF Restore, Return, PutObject, TypeOK, InHand, LocksHeld, Key
  <2>2. PartialKnown(i)'
    BY <1>6 DEF Restore, Return, PutObject, TypeOK, InHand, PartialKnown, Satisfies
  <2>3. pc'[i] \in {"verify", "lockObject"} \cup ObjectLocked => sha256'[i] \in Contents
    BY <1>6 DEF Restore, Return, PutObject, TypeOK, InHand
  <2>4. Whereabouts(i)'
    BY <1>6 DEF Restore, Return, PutObject, TypeOK, Whereabouts
  <2>5. Replaced(i)'
    BY <1>6 DEF Restore, Return, PutObject, TypeOK, InHand, PartialKnown, Replaced
  <2> QED
    BY <2>1, <2>2, <2>3, <2>4, <2>5 DEF InHand
<1>7. CASE Place(i)
  <2>1. LocksHeld(i)'
    BY <1>7 DEF Place, Goto, PutObject, PlacePartial, locks, TypeOK, InHand, LocksHeld, Key
  <2>2. PartialKnown(i)'
    BY <1>7 DEF Place, Goto, PutObject, PlacePartial, locks, TypeOK, InHand, PartialKnown, Satisfies
  <2>3. pc'[i] \in {"verify", "lockObject"} \cup ObjectLocked => sha256'[i] \in Contents
    BY <1>7 DEF Place, Goto, PutObject, PlacePartial, locks, TypeOK, InHand
  <2>4. Whereabouts(i)'
    BY <1>7 DEF Place, Goto, PutObject, PlacePartial, locks, TypeOK, Whereabouts
  <2>5. Replaced(i)'
    BY <1>7 DEF Place, Goto, PutObject, PlacePartial, locks, TypeOK, InHand, PartialKnown, Replaced
  <2> QED
    BY <2>1, <2>2, <2>3, <2>4, <2>5 DEF InHand
<1>8. CASE ReadOnly(i)
  <2>1. LocksHeld(i)'
    BY <1>8 DEF ReadOnly, Goto, stored, temporaries, locks, TypeOK, InHand, LocksHeld, Key
  <2>2. PartialKnown(i)'
    BY <1>8 DEF ReadOnly, Goto, stored, temporaries, locks, TypeOK, InHand, PartialKnown, Satisfies
  <2>3. pc'[i] \in {"verify", "lockObject"} \cup ObjectLocked => sha256'[i] \in Contents
    BY <1>8 DEF ReadOnly, Goto, stored, temporaries, locks, TypeOK, InHand
  <2>4. Whereabouts(i)'
    BY <1>8 DEF ReadOnly, Goto, stored, temporaries, locks, TypeOK, Whereabouts
  <2>5. Replaced(i)'
    BY <1>8 DEF ReadOnly, Goto, stored, temporaries, locks, TypeOK, InHand, PartialKnown, Replaced
  <2> QED
    BY <2>1, <2>2, <2>3, <2>4, <2>5 DEF InHand
<1>9. CASE SyncObject(i)
  <2>1. LocksHeld(i)'
    BY <1>9 DEF SyncObject, Goto, SyncShard, temporaries, locks, TypeOK, InHand, LocksHeld, Key
  <2>2. PartialKnown(i)'
    BY <1>9 DEF SyncObject, Goto, SyncShard, temporaries, locks, TypeOK, InHand, PartialKnown, Satisfies
  <2>3. pc'[i] \in {"verify", "lockObject"} \cup ObjectLocked => sha256'[i] \in Contents
    BY <1>9 DEF SyncObject, Goto, SyncShard, temporaries, locks, TypeOK, InHand
  <2>4. Whereabouts(i)'
    BY <1>9 DEF SyncObject, Goto, SyncShard, temporaries, locks, TypeOK, Whereabouts
  <2>5. Replaced(i)'
    BY <1>9 DEF SyncObject, Goto, SyncShard, temporaries, locks, TypeOK, InHand, PartialKnown, Replaced
  <2> QED
    BY <2>1, <2>2, <2>3, <2>4, <2>5 DEF InHand
<1> QED
  BY <1>1, <1>2, <1>3, <1>4, <1>5, <1>6, <1>7, <1>8, <1>9 DEF PublishObject

\* commit_metadata: the temporary becomes the metadata.
LEMMA CommitMetadataTemps ==
  ASSUME TypeOK, NEW i \in Invocations, InHand(i), Whereabouts(i), Replaced(i), CommitMetadata(i)
  PROVE  InHand(i)' /\ Whereabouts(i)' /\ Replaced(i)'
<1> USE KeyInKeys, SentinelsAssumption DEF DescriptorLocked, ObjectLocked, LookupSteps, FillSteps,
   PublishSteps, MetadataSteps
<1>1. CASE TempCreate(i)
  <2>1. LocksHeld(i)'
    BY <1>1 DEF TempCreate, Goto, stored, locks, TypeOK, InHand, LocksHeld, Key
  <2>2. PartialKnown(i)'
    BY <1>1 DEF TempCreate, Goto, stored, locks, TypeOK, InHand, PartialKnown, Satisfies
  <2>3. pc'[i] \in {"verify", "lockObject"} \cup ObjectLocked => sha256'[i] \in Contents
    BY <1>1 DEF TempCreate, Goto, stored, locks, TypeOK, InHand
  <2>4. Whereabouts(i)'
    BY <1>1 DEF TempCreate, Goto, stored, locks, TypeOK, Whereabouts
  <2>5. Replaced(i)'
    BY <1>1 DEF TempCreate, Goto, stored, locks, TypeOK, InHand, PartialKnown, Replaced
  <2> QED
    BY <2>1, <2>2, <2>3, <2>4, <2>5 DEF InHand
<1>2. CASE TempWrite(i)
  <2>1. LocksHeld(i)'
    BY <1>2 DEF TempWrite, Goto, stored, locks, TypeOK, InHand, LocksHeld, Key
  <2>2. PartialKnown(i)'
    BY <1>2 DEF TempWrite, Goto, stored, locks, TypeOK, InHand, PartialKnown, Satisfies
  <2>3. pc'[i] \in {"verify", "lockObject"} \cup ObjectLocked => sha256'[i] \in Contents
    BY <1>2 DEF TempWrite, Goto, stored, locks, TypeOK, InHand
  <2>4. Whereabouts(i)'
    BY <1>2 DEF TempWrite, Goto, stored, locks, TypeOK, Whereabouts
  <2>5. Replaced(i)'
    BY <1>2 DEF TempWrite, Goto, stored, locks, TypeOK, InHand, PartialKnown, Replaced
  <2> QED
    BY <2>1, <2>2, <2>3, <2>4, <2>5 DEF InHand
<1>3. CASE TempRename(i)
  <2>1. LocksHeld(i)'
    BY <1>3 DEF TempRename, Goto, PutMetadata, locks, TypeOK, InHand, LocksHeld, Key
  <2>2. PartialKnown(i)'
    BY <1>3 DEF TempRename, Goto, PutMetadata, locks, TypeOK, InHand, PartialKnown, Satisfies
  <2>3. pc'[i] \in {"verify", "lockObject"} \cup ObjectLocked => sha256'[i] \in Contents
    BY <1>3 DEF TempRename, Goto, PutMetadata, locks, TypeOK, InHand
  <2>4. Whereabouts(i)'
    BY <1>3 DEF TempRename, Goto, PutMetadata, locks, TypeOK, Whereabouts
  <2>5. Replaced(i)'
    BY <1>3 DEF TempRename, Goto, PutMetadata, locks, TypeOK, InHand, PartialKnown, Replaced
  <2> QED
    BY <2>1, <2>2, <2>3, <2>4, <2>5 DEF InHand
<1>4. CASE MetadataSync(i)
  <2>1. LocksHeld(i)'
    BY <1>4 DEF MetadataSync, Return, SyncMetadata, stored, temporaries, TypeOK, InHand, LocksHeld, Key
  <2>2. PartialKnown(i)'
    BY <1>4 DEF MetadataSync, Return, SyncMetadata, stored, temporaries, TypeOK, InHand, PartialKnown, Satisfies
  <2>3. pc'[i] \in {"verify", "lockObject"} \cup ObjectLocked => sha256'[i] \in Contents
    BY <1>4 DEF MetadataSync, Return, SyncMetadata, stored, temporaries, TypeOK, InHand
  <2>4. Whereabouts(i)'
    BY <1>4 DEF MetadataSync, Return, SyncMetadata, stored, temporaries, TypeOK, Whereabouts
  <2>5. Replaced(i)'
    BY <1>4 DEF MetadataSync, Return, SyncMetadata, stored, temporaries, TypeOK, InHand, PartialKnown, Replaced
  <2> QED
    BY <2>1, <2>2, <2>3, <2>4, <2>5 DEF InHand
<1> QED
  BY <1>1, <1>2, <1>3, <1>4 DEF CommitMetadata

\* Every failing step removes what the call has made so far.
LEMMA IoFailsTemps ==
  ASSUME TypeOK, NEW i \in Invocations, InHand(i), Whereabouts(i), Replaced(i), IoFails(i)
  PROVE  InHand(i)' /\ Whereabouts(i)' /\ Replaced(i)'
<1> USE KeyInKeys, SentinelsAssumption DEF DescriptorLocked, ObjectLocked, LookupSteps, FillSteps,
   PublishSteps, MetadataSteps
<1>1. CASE FailPlain(i)
  <2>1. LocksHeld(i)'
    BY <1>1 DEF FailPlain, Return, stored, temporaries, TypeOK, InHand, LocksHeld, Key
  <2>2. PartialKnown(i)'
    BY <1>1 DEF FailPlain, Return, stored, temporaries, TypeOK, InHand, PartialKnown, Satisfies
  <2>3. pc'[i] \in {"verify", "lockObject"} \cup ObjectLocked => sha256'[i] \in Contents
    BY <1>1 DEF FailPlain, Return, stored, temporaries, TypeOK, InHand
  <2>4. Whereabouts(i)'
    BY <1>1 DEF FailPlain, Return, stored, temporaries, TypeOK, Whereabouts
  <2>5. Replaced(i)'
    BY <1>1 DEF FailPlain, Return, stored, temporaries, TypeOK, InHand, PartialKnown, Replaced
  <2> QED
    BY <2>1, <2>2, <2>3, <2>4, <2>5 DEF InHand
<1>2. CASE FailFill(i)
  <2>1. LocksHeld(i)'
    BY <1>2 DEF FailFill, Return, Abort, stored, TypeOK, InHand, LocksHeld, Key
  <2>2. PartialKnown(i)'
    BY <1>2 DEF FailFill, Return, Abort, stored, TypeOK, InHand, PartialKnown, Satisfies
  <2>3. pc'[i] \in {"verify", "lockObject"} \cup ObjectLocked => sha256'[i] \in Contents
    BY <1>2 DEF FailFill, Return, Abort, stored, TypeOK, InHand
  <2>4. Whereabouts(i)'
    BY <1>2 DEF FailFill, Return, Abort, stored, TypeOK, Whereabouts
  <2>5. Replaced(i)'
    BY <1>2 DEF FailFill, Return, Abort, stored, TypeOK, InHand, PartialKnown, Replaced
  <2> QED
    BY <2>1, <2>2, <2>3, <2>4, <2>5 DEF InHand
<1>3. CASE FailMoved(i)
  <2>1. LocksHeld(i)'
    BY <1>3 DEF FailMoved, Return, Abort, stored, TypeOK, InHand, LocksHeld, Key
  <2>2. PartialKnown(i)'
    BY <1>3 DEF FailMoved, Return, Abort, stored, TypeOK, InHand, PartialKnown, Satisfies
  <2>3. pc'[i] \in {"verify", "lockObject"} \cup ObjectLocked => sha256'[i] \in Contents
    BY <1>3 DEF FailMoved, Return, Abort, stored, TypeOK, InHand
  <2>4. Whereabouts(i)'
    BY <1>3 DEF FailMoved, Return, Abort, stored, TypeOK, Whereabouts
  <2>5. Replaced(i)'
    BY <1>3 DEF FailMoved, Return, Abort, stored, TypeOK, InHand, PartialKnown, Replaced
  <2> QED
    BY <2>1, <2>2, <2>3, <2>4, <2>5 DEF InHand
<1>4. CASE FailReplace(i)
  <2>1. LocksHeld(i)'
    BY <1>4 DEF FailReplace, Goto, stored, locks, TypeOK, InHand, LocksHeld, Key
  <2>2. PartialKnown(i)'
    BY <1>4 DEF FailReplace, Goto, stored, locks, TypeOK, InHand, PartialKnown, Satisfies
  <2>3. pc'[i] \in {"verify", "lockObject"} \cup ObjectLocked => sha256'[i] \in Contents
    BY <1>4 DEF FailReplace, Goto, stored, locks, TypeOK, InHand
  <2>4. Whereabouts(i)'
    BY <1>4 DEF FailReplace, Goto, stored, locks, TypeOK, Whereabouts
  <2>5. Replaced(i)'
    BY <1>4 DEF FailReplace, Goto, stored, locks, TypeOK, InHand, PartialKnown, Replaced
  <2> QED
    BY <2>1, <2>2, <2>3, <2>4, <2>5 DEF InHand
<1>5. CASE FailQuarantine(i)
  <2>1. LocksHeld(i)'
    BY <1>5 DEF FailQuarantine, Return, stored, temporaries, TypeOK, InHand, LocksHeld, Key
  <2>2. PartialKnown(i)'
    BY <1>5 DEF FailQuarantine, Return, stored, temporaries, TypeOK, InHand, PartialKnown, Satisfies
  <2>3. pc'[i] \in {"verify", "lockObject"} \cup ObjectLocked => sha256'[i] \in Contents
    BY <1>5 DEF FailQuarantine, Return, stored, temporaries, TypeOK, InHand
  <2>4. Whereabouts(i)'
    BY <1>5 DEF FailQuarantine, Return, stored, temporaries, TypeOK, Whereabouts
  <2>5. Replaced(i)'
    BY <1>5 DEF FailQuarantine, Return, stored, temporaries, TypeOK, InHand, PartialKnown, Replaced
  <2> QED
    BY <2>1, <2>2, <2>3, <2>4, <2>5 DEF InHand
<1>6. CASE FailTemp(i)
  <2>1. LocksHeld(i)'
    BY <1>6 DEF FailTemp, Return, stored, TypeOK, InHand, LocksHeld, Key
  <2>2. PartialKnown(i)'
    BY <1>6 DEF FailTemp, Return, stored, TypeOK, InHand, PartialKnown, Satisfies
  <2>3. pc'[i] \in {"verify", "lockObject"} \cup ObjectLocked => sha256'[i] \in Contents
    BY <1>6 DEF FailTemp, Return, stored, TypeOK, InHand
  <2>4. Whereabouts(i)'
    BY <1>6 DEF FailTemp, Return, stored, TypeOK, Whereabouts
  <2>5. Replaced(i)'
    BY <1>6 DEF FailTemp, Return, stored, TypeOK, InHand, PartialKnown, Replaced
  <2> QED
    BY <2>1, <2>2, <2>3, <2>4, <2>5 DEF InHand
<1> QED
  BY <1>1, <1>2, <1>3, <1>4, <1>5, <1>6 DEF IoFails

\* A failed look at a file is not a way to forget a temporary.
LEMMA MisreadTemps ==
  ASSUME TypeOK, NEW i \in Invocations, InHand(i), Whereabouts(i), Replaced(i), Misread(i)
  PROVE  InHand(i)' /\ Whereabouts(i)' /\ Replaced(i)'
<1> USE KeyInKeys, SentinelsAssumption DEF DescriptorLocked, ObjectLocked, LookupSteps, FillSteps,
   PublishSteps, MetadataSteps
<1>1. CASE LoadMisread(i)
  <2>1. LocksHeld(i)'
    BY <1>1 DEF LoadMisread, Goto, Return, stored, temporaries, locks, TypeOK, InHand, LocksHeld, Key
  <2>2. PartialKnown(i)'
    BY <1>1 DEF LoadMisread, Goto, Return, stored, temporaries, locks, TypeOK, InHand, PartialKnown, Satisfies
  <2>3. pc'[i] \in {"verify", "lockObject"} \cup ObjectLocked => sha256'[i] \in Contents
    BY <1>1 DEF LoadMisread, Goto, Return, stored, temporaries, locks, TypeOK, InHand
  <2>4. Whereabouts(i)'
    BY <1>1 DEF LoadMisread, Goto, Return, stored, temporaries, locks, TypeOK, Whereabouts
  <2>5. Replaced(i)'
    BY <1>1 DEF LoadMisread, Goto, Return, stored, temporaries, locks, TypeOK, InHand, PartialKnown, Replaced
  <2> QED
    BY <2>1, <2>2, <2>3, <2>4, <2>5 DEF InHand
<1>2. CASE PublishMisread(i)
  <2>1. LocksHeld(i)'
    BY <1>2 DEF PublishMisread, Goto, stored, temporaries, locks, TypeOK, InHand, LocksHeld, Key
  <2>2. PartialKnown(i)'
    BY <1>2 DEF PublishMisread, Goto, stored, temporaries, locks, TypeOK, InHand, PartialKnown, Satisfies
  <2>3. pc'[i] \in {"verify", "lockObject"} \cup ObjectLocked => sha256'[i] \in Contents
    BY <1>2 DEF PublishMisread, Goto, stored, temporaries, locks, TypeOK, InHand
  <2>4. Whereabouts(i)'
    BY <1>2 DEF PublishMisread, Goto, stored, temporaries, locks, TypeOK, Whereabouts
  <2>5. Replaced(i)'
    BY <1>2 DEF PublishMisread, Goto, stored, temporaries, locks, TypeOK, InHand, PartialKnown, Replaced
  <2> QED
    BY <2>1, <2>2, <2>3, <2>4, <2>5 DEF InHand
<1> QED
  BY <1>1, <1>2 DEF Misread

\* A killed call leaves its files behind, and nothing is claimed of them.
LEMMA KillTemps ==
  ASSUME TypeOK, NEW i \in Invocations, InHand(i), Whereabouts(i), Replaced(i), Kill(i)
  PROVE  InHand(i)' /\ Whereabouts(i)' /\ Replaced(i)'
<1> USE KeyInKeys, SentinelsAssumption DEF DescriptorLocked, ObjectLocked, LookupSteps, FillSteps,
   PublishSteps, MetadataSteps
<1>1. CASE Kill(i)
  <2>1. LocksHeld(i)'
    BY <1>1 DEF Kill, Return, stored, temporaries, Active, TypeOK, InHand, LocksHeld, Key
  <2>2. PartialKnown(i)'
    BY <1>1 DEF Kill, Return, stored, temporaries, Active, TypeOK, InHand, PartialKnown, Satisfies
  <2>3. pc'[i] \in {"verify", "lockObject"} \cup ObjectLocked => sha256'[i] \in Contents
    BY <1>1 DEF Kill, Return, stored, temporaries, Active, TypeOK, InHand
  <2>4. Whereabouts(i)'
    BY <1>1 DEF Kill, Return, stored, temporaries, Active, TypeOK, Whereabouts
  <2>5. Replaced(i)'
    BY <1>1 DEF Kill, Return, stored, temporaries, Active, TypeOK, InHand, PartialKnown, Replaced
  <2> QED
    BY <2>1, <2>2, <2>3, <2>4, <2>5 DEF InHand
<1> QED
  BY <1>1 DEF Kill

\* Only the holder of an object's lock takes the object from its name.
LEMMA ObjectsGuarded ==
  ASSUME TypeOK, NEW i \in Invocations, InHand(i), Step(i) \/ IoFails(i) \/ Misread(i) \/ Kill(i),
         NEW d \in Contents, objectLock[d] # i
  PROVE  objects'[d] = objects[d]
<1>1. CASE Quarantine(i) \/ Replace(i) \/ Restore(i) \/ Place(i)
  <2>1. pc[i] \in PublishSteps
    BY <1>1 DEF Quarantine, Replace, Restore, Place, Goto, PublishSteps
  <2>2. sha256[i] # d
    BY <2>1 DEF InHand, LocksHeld, ObjectLocked
  <2> QED
    BY <1>1, <2>2 DEF Quarantine, Replace, Restore, Place, PlacePartial, PutObject, TypeOK
<1>2. CASE ~(Quarantine(i) \/ Replace(i) \/ Restore(i) \/ Place(i))
  BY <1>2 DEF Step, Lookup, Start, Lock, Load, Validate, HitReadOnly, Fill, CreatePartial, Copy, Verify,
     LockObject, Move, SyncMoved, PublishObject, Publish, RemoveLosing, DropQuarantine, ReadOnly,
     SyncObject, CommitMetadata, TempCreate, TempWrite, TempRename, MetadataSync, SyncShard,
     SyncMetadata, IoFails, FailPlain, FailFill, FailMoved, FailReplace, FailQuarantine, FailTemp,
     Misread, LoadMisread, PublishMisread, Kill, stored
<1> QED
  BY <1>1, <1>2

\* The temporaries of the others stay where they are.
LEMMA OthersKeepTemporaries ==
  ASSUME TypeOK, NEW i \in Invocations, NEW j \in Invocations \ {i}, OthersAlone(i),
         InHand(j), Whereabouts(j), Replaced(j),
         \A d \in Contents : objectLock[d] # i => objects'[d] = objects[d]
  PROVE  InHand(j)' /\ Whereabouts(j)' /\ Replaced(j)'
<1> USE SentinelsAssumption
<1>0. Same(j) /\ j # i /\ LocksKept(i)
  BY DEF OthersAlone
<1>1. Key(j)' = Key(j) /\ Key(j) \in Keys
  BY <1>0, KeyInKeys DEF Same, Key
<1>2. LocksHeld(j)'
  BY <1>0, <1>1 DEF Same, LocksKept, InHand, LocksHeld, ObjectLocked
<1>3. PartialKnown(j)'
  BY <1>0 DEF Same, InHand, PartialKnown, SizeAccepted
<1>4. Whereabouts(j)'
  BY <1>0 DEF Same, Whereabouts
<1>5. Replaced(j)'
  <2> SUFFICES ASSUME pc[j] = "dropQuarantine" PROVE objects'[sha256[j]] # Absent
    BY <1>0 DEF Same, Replaced
  <2>1. sha256[j] \in Contents /\ objectLock[sha256[j]] = j
    BY DEF InHand, LocksHeld, ObjectLocked, PublishSteps
  <2> QED
    BY <1>0, <2>1 DEF Replaced
<1> QED
  BY <1>0, <1>2, <1>3, <1>4, <1>5 DEF Same, InHand

\* Failed looks at files keep the types, too.
LEMMA MisreadTypes ==
  ASSUME TypeOK, NEW i \in Invocations, Misread(i)
  PROVE  TypeOK'
<1>1. CASE LoadMisread(i)
  BY <1>1, StepNames, ReturnTypes, GotoTypes DEF LoadMisread, TypeOK, stored, temporaries
<1>2. CASE PublishMisread(i)
  BY <1>2, StepNames, GotoTypes DEF PublishMisread, TypeOK, stored, temporaries
<1> QED
  BY <1>1, <1>2 DEF Misread

\* A power loss ends every call; damage from outside takes no object away.
LEMMA DisasterTemps ==
  ASSUME TypeOK, TemporariesInvariant, (\E d \in Contents : Rot(d)) \/ PowerLoss
  PROVE  TemporariesInvariant'
<1> SUFFICES ASSUME NEW i \in Invocations PROVE InHand(i)' /\ Whereabouts(i)' /\ Replaced(i)'
  BY DEF TemporariesInvariant
<1>0. InHand(i) /\ Whereabouts(i) /\ Replaced(i)
  BY DEF TemporariesInvariant
<1>1. ASSUME NEW d \in Contents, Rot(d) PROVE InHand(i)' /\ Whereabouts(i)' /\ Replaced(i)'
  <2>1. UNCHANGED <<partial, quarantine, metadataTemp, descriptorLock, objectLock, pc, req, sha256, result>>
    BY <1>1 DEF Rot, temporaries, locks
  <2>2. InHand(i)'
    BY <1>0, <2>1 DEF InHand, LocksHeld, PartialKnown, SizeAccepted, Key
  <2>3. Whereabouts(i)'
    BY <1>0, <2>1 DEF Whereabouts
  <2>4. Replaced(i)'
    BY <1>0, <1>1, <2>1, SentinelsAssumption DEF Replaced, Rot, Intact, TypeOK
  <2> QED
    BY <2>2, <2>3, <2>4
<1>2. CASE PowerLoss
  <2>1. pc'[i] \in {"idle", "done"} /\ UNCHANGED <<partial, quarantine, metadataTemp, sha256>>
    BY <1>2 DEF PowerLoss, Active, temporaries
  <2>2. InHand(i)' /\ Replaced(i)'
    BY <2>1 DEF InHand, LocksHeld, PartialKnown, Replaced, DescriptorLocked, ObjectLocked,
                LookupSteps, FillSteps, PublishSteps, MetadataSteps
  <2>3. pc'[i] = "done" /\ result'[i] # "killed" => pc[i] = "done" /\ result'[i] = result[i]
    BY <1>2 DEF PowerLoss, Active
  <2>4. pc'[i] = "idle" => pc[i] = "idle"
    BY <1>2 DEF PowerLoss, Active
  <2>5. Whereabouts(i)'
    BY <1>0, <2>1, <2>3, <2>4 DEF Whereabouts
  <2> QED
    BY <2>2, <2>5
<1> QED
  BY <1>1, <1>2

\* The types and the whereabouts of the temporaries are inductive, whatever fails.
LEMMA TemporariesInductive ==
  TypeOK /\ TemporariesInvariant /\ [Next]_vars => TypeOK' /\ TemporariesInvariant'
<1> SUFFICES ASSUME TypeOK, TemporariesInvariant, [Next]_vars
             PROVE  TypeOK' /\ TemporariesInvariant'
  OBVIOUS
<1>1. ASSUME NEW i \in Invocations, Step(i) \/ IoFails(i) \/ Misread(i) \/ Kill(i)
      PROVE  TypeOK' /\ TemporariesInvariant'
  <2>1. InHand(i) /\ Whereabouts(i) /\ Replaced(i)
    BY DEF TemporariesInvariant
  <2>2. TypeOK'
    BY <1>1, <2>1, LookupTypes, FillTypes, PublishTypes, MetadataTypes, FailureTypes, MisreadTypes
       DEF Step
  <2>3. OthersAlone(i)
    BY <1>1, LookupAlone, FillAlone, PublishObjectAlone, CommitMetadataAlone, IoFailsAlone,
       MisreadAlone, KillAlone DEF Step
  <2>4. InHand(i)' /\ Whereabouts(i)' /\ Replaced(i)'
    BY <1>1, <2>1, LookupTemps, FillTemps, PublishObjectTemps, CommitMetadataTemps, IoFailsTemps,
       MisreadTemps, KillTemps DEF Step
  <2>5. \A d \in Contents : objectLock[d] # i => objects'[d] = objects[d]
    BY <1>1, <2>1, ObjectsGuarded
  <2>6. ASSUME NEW j \in Invocations \ {i} PROVE InHand(j)' /\ Whereabouts(j)' /\ Replaced(j)'
    BY <2>3, <2>5, OthersKeepTemporaries DEF TemporariesInvariant
  <2> QED
    BY <2>2, <2>4, <2>6 DEF TemporariesInvariant
<1>2. CASE (\E d \in Contents : Rot(d)) \/ PowerLoss
  BY <1>2, DisasterTypes, DisasterTemps
<1>3. CASE UNCHANGED vars
  <2>1. UNCHANGED <<objects, objectImages, metadata, metadataImages, partial, quarantine,
                    metadataTemp, descriptorLock, objectLock, pc, req, sha256, result, rotted>>
    BY <1>3 DEF vars, stored, temporaries, locks
  <2>2. TypeOK'
    BY <2>1 DEF TypeOK
  <2>3. ASSUME NEW i \in Invocations PROVE InHand(i)' /\ Whereabouts(i)' /\ Replaced(i)'
    <3>1. InHand(i) /\ Whereabouts(i) /\ Replaced(i)
      BY DEF TemporariesInvariant
    <3> QED
      BY <2>1, <3>1 DEF InHand, LocksHeld, PartialKnown, SizeAccepted, Key, Whereabouts, Replaced
  <2> QED
    BY <2>2, <2>3 DEF TemporariesInvariant
<1> QED
  BY <1>1, <1>2, <1>3 DEF Next

\* No call has begun.
LEMMA TemporariesInitially == Init => TypeOK /\ TemporariesInvariant
<1>1. Init => TypeOK
  BY Initially
<1>2. Init => TemporariesInvariant
  <2> SUFFICES ASSUME Init, NEW i \in Invocations
               PROVE  InHand(i) /\ Whereabouts(i) /\ Replaced(i)
    BY DEF TemporariesInvariant
  <2>1. /\ pc[i] = "idle"
        /\ partial[i] = Absent /\ metadataTemp[i] = Absent /\ quarantine[i] = Absent
    BY DEF Init
  <2>2. LocksHeld(i)
    BY <2>1 DEF LocksHeld, DescriptorLocked, ObjectLocked, LookupSteps, FillSteps, PublishSteps,
                MetadataSteps
  <2>3. PartialKnown(i)
    BY <2>1 DEF PartialKnown
  <2>4. InHand(i)
    BY <2>1, <2>2, <2>3 DEF InHand, ObjectLocked, PublishSteps, MetadataSteps
  <2>5. Whereabouts(i) /\ Replaced(i)
    BY <2>1 DEF Whereabouts, Replaced
  <2> QED
    BY <2>4, <2>5
<1> QED
  BY <1>1, <1>2

\* Type correctness, whatever fails.
THEOREM TypeCorrect == Spec => []TypeOK
BY TemporariesInitially, TemporariesInductive, PTL DEF Spec

\* No error path of commit_artifact forgets a temporary, whatever fails.
THEOREM TemporariesRemoved == Spec => []FailuresLeaveNoTemporaries
<1>1. TemporariesInvariant => FailuresLeaveNoTemporaries
  BY DEF TemporariesInvariant, Whereabouts, FailuresLeaveNoTemporaries
<1> QED
  BY <1>1, TemporariesInitially, TemporariesInductive, PTL DEF Spec

\* A failure of publish_object_with_fs leaves the old bytes or the new under the name,
\* unless it is reported as ReplacementRecovery.
THEOREM ObjectBesideQuarantine == Spec => QuarantineBesideObject
<1> DEFINE Beside(i) ==
      pc[i] # "done" /\ pc'[i] = "done" /\ result'[i] = "io" /\ quarantine'[i] # Absent =>
        objects'[sha256[i]] # Absent
<1>1. TypeOK /\ TemporariesInvariant /\ [Next]_vars => \A i \in Invocations : Beside(i)
  <2> SUFFICES ASSUME TypeOK, TemporariesInvariant, [Next]_vars, NEW i \in Invocations,
                      pc[i] # "done", pc'[i] = "done", result'[i] = "io", quarantine'[i] # Absent
               PROVE  objects'[sha256[i]] # Absent
    OBVIOUS
  <2>0. InHand(i) /\ Whereabouts(i) /\ Replaced(i)
    BY DEF TemporariesInvariant
  <2>1. Step(i) \/ IoFails(i) \/ Misread(i) \/ Kill(i)
    <3>1. ASSUME NEW j \in Invocations, Step(j) \/ IoFails(j) \/ Misread(j) \/ Kill(j) PROVE j = i
      <4>1. OthersAlone(j)
        BY <3>1, LookupAlone, FillAlone, PublishObjectAlone, CommitMetadataAlone, IoFailsAlone,
           MisreadAlone, KillAlone DEF Step
      <4> QED
        BY <4>1 DEF OthersAlone, Same
    <3>2. ~PowerLoss /\ ~(\E d \in Contents : Rot(d)) /\ ~(UNCHANGED vars)
      BY DEF PowerLoss, Active, Rot, vars, TypeOK
    <3> QED
      BY <3>1, <3>2 DEF Next
  <2>2. quarantine'[i] # Absent /\ pc[i] \notin {"restore", "dropQuarantine"} => FALSE
    <3> SUFFICES ASSUME pc[i] \notin {"restore", "dropQuarantine"} PROVE FALSE
      OBVIOUS
    <3>1. \/ Start(i) \/ MetadataSync(i) \/ Load(i) \/ Validate(i) \/ HitReadOnly(i) \/ Copy(i) \/ Verify(i)
          \/ FailPlain(i) \/ FailFill(i) \/ FailMoved(i) \/ FailTemp(i) \/ LoadMisread(i) \/ Kill(i)
      BY <2>1 DEF Step, Lookup, Lock, Fill, CreatePartial, LockObject, Move, SyncMoved, PublishObject,
         Publish, RemoveLosing, Quarantine, Replace, DropQuarantine, Restore, Place, ReadOnly,
         SyncObject, CommitMetadata, TempCreate, TempWrite, TempRename, IoFails, FailReplace,
         FailQuarantine, Misread, PublishMisread, Goto, TypeOK
    <3>2. quarantine' = quarantine
      BY <3>1 DEF Start, MetadataSync, Load, Validate, HitReadOnly, Copy, Verify, FailPlain, FailFill,
         FailMoved, FailTemp, LoadMisread, Kill, temporaries
    <3>3. pc[i] # "replace"
      BY <3>1 DEF Start, MetadataSync, Load, Validate, HitReadOnly, Copy, Verify, FailPlain, FailFill,
         FailMoved, FailTemp, LoadMisread, Kill, Return, TypeOK
    <3> QED
      BY <2>0, <3>2, <3>3 DEF Whereabouts
  <2>3. CASE pc[i] = "restore"
    <3>1. Restore(i) \/ FailQuarantine(i) \/ Kill(i)
      BY <2>1, <2>3 DEF Step, Lookup, Start, Lock, Load, Validate, HitReadOnly, Fill, CreatePartial, Copy,
         Verify, LockObject, Move, SyncMoved, PublishObject, Publish, RemoveLosing, Quarantine, Replace,
         DropQuarantine, Place, ReadOnly, SyncObject, CommitMetadata, TempCreate, TempWrite, TempRename,
         MetadataSync, IoFails, FailPlain, FailFill, FailMoved, FailReplace, FailTemp, Misread,
         LoadMisread, PublishMisread, Goto
    <3>2. CASE Restore(i)
      BY <3>2 DEF Restore, TypeOK
    <3>3. ~FailQuarantine(i) /\ ~Kill(i)
      BY <2>3 DEF FailQuarantine, Kill, Return, TypeOK
    <3> QED
      BY <3>1, <3>2, <3>3
  <2>4. CASE pc[i] = "dropQuarantine"
    <3>1. FailQuarantine(i) \/ DropQuarantine(i) \/ Kill(i)
      BY <2>1, <2>4 DEF Step, Lookup, Start, Lock, Load, Validate, HitReadOnly, Fill, CreatePartial, Copy,
         Verify, LockObject, Move, SyncMoved, PublishObject, Publish, RemoveLosing, Quarantine, Replace,
         Restore, Place, ReadOnly, SyncObject, CommitMetadata, TempCreate, TempWrite, TempRename,
         MetadataSync, IoFails, FailPlain, FailFill, FailMoved, FailReplace, FailTemp, Misread,
         LoadMisread, PublishMisread, Goto
    <3>2. ~DropQuarantine(i) /\ ~Kill(i)
      BY <2>4 DEF DropQuarantine, Kill, Return, Goto, TypeOK
    <3>3. objects' = objects
      BY <3>1, <3>2 DEF FailQuarantine, stored
    <3> QED
      BY <2>0, <2>4, <3>3 DEF Replaced
  <2> QED
    BY <2>2, <2>3, <2>4
<1> QED
  BY <1>1, TemporariesInitially, TemporariesInductive, PTL DEF Spec, QuarantineBesideObject

(***************************************************************************)
(* The store implements the index                                          *)
(***************************************************************************)

\* What the caller may be told at the end of a step: what its descriptor is bound to.
Told(i) ==
  \/ result'[i] \in {"none", "killed"}
  \/ result'[i] = "miss" /\ metadata[Key(i)] = Absent
  \/ result'[i] \in {"hit", "stored"} /\ metadata[Key(i)] = sha256'[i]
  \/ result'[i] \notin {"none", "killed", "miss", "hit", "stored"}

\* A step that leaves the metadata's names alone.
Reads(i) ==
  UNCHANGED <<metadata, req>> /\ pc[i] # "done" /\ Told(i) /\ MetadataKnown(i)'

\* load_hit reads the binding under the lock of the descriptor.
LEMMA LookupReads ==
  ASSUME TypeOK, NEW i \in Invocations, Unanswered(i), MetadataKnown(i), Lookup(i)
  PROVE  Reads(i) /\ UNCHANGED metadataImages
<1>1. CASE Start(i)
  BY <1>1 DEF Start, Goto, Return, stored, temporaries, locks, Reads, Told, MetadataKnown, Unanswered, Key,
     FillSteps, PublishSteps, MetadataSteps, TypeOK
<1>2. CASE Lock(i)
  BY <1>2 DEF Lock, stored, temporaries, Reads, Told, MetadataKnown, Unanswered, Key,
     FillSteps, PublishSteps, MetadataSteps, TypeOK
<1>3. CASE Load(i)
  BY <1>3 DEF Load, Goto, Return, stored, temporaries, locks, Reads, Told, MetadataKnown, Unanswered, Key,
     FillSteps, PublishSteps, MetadataSteps, TypeOK
<1>4. CASE Validate(i)
  BY <1>4 DEF Validate, Goto, Return, stored, temporaries, locks, Reads, Told, MetadataKnown, Unanswered, Key,
     FillSteps, PublishSteps, MetadataSteps, TypeOK
<1>5. CASE HitReadOnly(i)
  BY <1>5 DEF HitReadOnly, Return, stored, temporaries, Reads, Told, MetadataKnown, Unanswered, Key,
     FillSteps, PublishSteps, MetadataSteps, TypeOK
<1> QED
  BY <1>1, <1>2, <1>3, <1>4, <1>5 DEF Lookup

\* commit_miss works for a descriptor that stays unbound.
LEMMA FillReads ==
  ASSUME TypeOK, NEW i \in Invocations, Unanswered(i), MetadataKnown(i), Fill(i)
  PROVE  Reads(i) /\ UNCHANGED metadataImages
<1>1. CASE CreatePartial(i)
  BY <1>1 DEF CreatePartial, Goto, stored, locks, Reads, Told, MetadataKnown, Unanswered, Key,
     FillSteps, PublishSteps, MetadataSteps, TypeOK
<1>2. CASE Copy(i)
  BY <1>2 DEF Copy, Goto, Return, Abort, stored, locks, Reads, Told, MetadataKnown, Unanswered, Key,
     FillSteps, PublishSteps, MetadataSteps, TypeOK
<1>3. CASE Verify(i)
  BY <1>3 DEF Verify, Goto, Return, Abort, stored, locks, Reads, Told, MetadataKnown, Unanswered, Key,
     FillSteps, PublishSteps, MetadataSteps, TypeOK
<1>4. CASE LockObject(i)
  BY <1>4 DEF LockObject, stored, temporaries, Reads, Told, MetadataKnown, Unanswered, Key,
     FillSteps, PublishSteps, MetadataSteps, TypeOK
<1>5. CASE Move(i)
  BY <1>5 DEF Move, Goto, stored, temporaries, locks, Reads, Told, MetadataKnown, Unanswered, Key,
     FillSteps, PublishSteps, MetadataSteps, TypeOK
<1>6. CASE SyncMoved(i)
  BY <1>6 DEF SyncMoved, Goto, SyncShard, temporaries, locks, Reads, Told, MetadataKnown, Unanswered, Key,
     FillSteps, PublishSteps, MetadataSteps, TypeOK
<1> QED
  BY <1>1, <1>2, <1>3, <1>4, <1>5, <1>6 DEF Fill

\* So does the publication of the object.
LEMMA PublishObjectReads ==
  ASSUME TypeOK, NEW i \in Invocations, Unanswered(i), MetadataKnown(i), PublishObject(i)
  PROVE  Reads(i) /\ UNCHANGED metadataImages
<1>1. CASE Publish(i)
  BY <1>1 DEF Publish, Goto, stored, temporaries, locks, Reads, Told, MetadataKnown, Unanswered, Key,
     FillSteps, PublishSteps, MetadataSteps, TypeOK
<1>2. CASE RemoveLosing(i)
  BY <1>2 DEF RemoveLosing, Goto, stored, locks, Reads, Told, MetadataKnown, Unanswered, Key,
     FillSteps, PublishSteps, MetadataSteps, TypeOK
<1>3. CASE Quarantine(i)
  BY <1>3 DEF Quarantine, Goto, PutObject, locks, Reads, Told, MetadataKnown, Unanswered, Key,
     FillSteps, PublishSteps, MetadataSteps, TypeOK
<1>4. CASE Replace(i)
  BY <1>4 DEF Replace, Goto, PutObject, PlacePartial, locks, Reads, Told, MetadataKnown, Unanswered, Key,
     FillSteps, PublishSteps, MetadataSteps, TypeOK
<1>5. CASE DropQuarantine(i)
  BY <1>5 DEF DropQuarantine, Goto, stored, locks, Reads, Told, MetadataKnown, Unanswered, Key,
     FillSteps, PublishSteps, MetadataSteps, TypeOK
<1>6. CASE Restore(i)
  BY <1>6 DEF Restore, Return, PutObject, Reads, Told, MetadataKnown, Unanswered, Key,
     FillSteps, PublishSteps, MetadataSteps, TypeOK
<1>7. CASE Place(i)
  BY <1>7 DEF Place, Goto, PutObject, PlacePartial, locks, Reads, Told, MetadataKnown, Unanswered, Key,
     FillSteps, PublishSteps, MetadataSteps, TypeOK
<1>8. CASE ReadOnly(i)
  BY <1>8 DEF ReadOnly, Goto, stored, temporaries, locks, Reads, Told, MetadataKnown, Unanswered, Key,
     FillSteps, PublishSteps, MetadataSteps, TypeOK
<1>9. CASE SyncObject(i)
  BY <1>9 DEF SyncObject, Goto, SyncShard, temporaries, locks, Reads, Told, MetadataKnown, Unanswered, Key,
     FillSteps, PublishSteps, MetadataSteps, TypeOK
<1> QED
  BY <1>1, <1>2, <1>3, <1>4, <1>5, <1>6, <1>7, <1>8, <1>9 DEF PublishObject

\* A failure is reported as one.
LEMMA IoFailsReads ==
  ASSUME TypeOK, NEW i \in Invocations, Unanswered(i), MetadataKnown(i), IoFails(i)
  PROVE  Reads(i) /\ UNCHANGED metadataImages
<1>1. CASE FailPlain(i)
  BY <1>1 DEF FailPlain, Return, stored, temporaries, Reads, Told, MetadataKnown, Unanswered, Key,
     FillSteps, PublishSteps, MetadataSteps, TypeOK
<1>2. CASE FailFill(i)
  BY <1>2 DEF FailFill, Return, Abort, stored, Reads, Told, MetadataKnown, Unanswered, Key,
     FillSteps, PublishSteps, MetadataSteps, TypeOK
<1>3. CASE FailMoved(i)
  BY <1>3 DEF FailMoved, Return, Abort, stored, Reads, Told, MetadataKnown, Unanswered, Key,
     FillSteps, PublishSteps, MetadataSteps, TypeOK
<1>4. CASE FailReplace(i)
  BY <1>4 DEF FailReplace, Goto, stored, locks, Reads, Told, MetadataKnown, Unanswered, Key,
     FillSteps, PublishSteps, MetadataSteps, TypeOK
<1>5. CASE FailQuarantine(i)
  BY <1>5 DEF FailQuarantine, Return, stored, temporaries, Reads, Told, MetadataKnown, Unanswered, Key,
     FillSteps, PublishSteps, MetadataSteps, TypeOK
<1>6. CASE FailTemp(i)
  BY <1>6 DEF FailTemp, Return, stored, Reads, Told, MetadataKnown, Unanswered, Key,
     FillSteps, PublishSteps, MetadataSteps, TypeOK
<1> QED
  BY <1>1, <1>2, <1>3, <1>4, <1>5, <1>6 DEF IoFails

\* A killed call answers nothing.
LEMMA KillReads ==
  ASSUME TypeOK, NEW i \in Invocations, Unanswered(i), MetadataKnown(i), Kill(i)
  PROVE  Reads(i) /\ UNCHANGED metadataImages
BY DEF Kill, Return, stored, temporaries, Active, Reads, Told, MetadataKnown, Unanswered, Key, FillSteps,
   PublishSteps, MetadataSteps, TypeOK

\* commit_metadata before the rename, and the sync after it.
LEMMA CommitMetadataReads ==
  ASSUME TypeOK, NEW i \in Invocations, Unanswered(i), MetadataKnown(i), CommitMetadata(i), ~TempRename(i)
  PROVE  /\ Reads(i)
         /\ \/ UNCHANGED metadataImages
            \/ metadataImages' = [metadataImages EXCEPT ![Key(i)] = {metadata[Key(i)]}]
<1>1. CASE TempCreate(i)
  BY <1>1 DEF TempCreate, Goto, stored, locks, Reads, Told, MetadataKnown, Unanswered, Key,
     FillSteps, PublishSteps, MetadataSteps, TypeOK
<1>2. CASE TempWrite(i)
  BY <1>2 DEF TempWrite, Goto, stored, locks, Reads, Told, MetadataKnown, Unanswered, Key,
     FillSteps, PublishSteps, MetadataSteps, TypeOK
<1>3. CASE MetadataSync(i)
  BY <1>3 DEF MetadataSync, SyncMetadata, Return, Reads, Told, MetadataKnown, Unanswered, Key,
     FillSteps, PublishSteps, MetadataSteps, TypeOK
<1> QED
  BY <1>1, <1>2, <1>3 DEF CommitMetadata

\* What an invocation wants and is answered depends on its own state only.
LEMMA AnswersOfOne ==
  ASSUME TypeOK, NEW i \in Invocations, OthersAlone(i), req' = req
  PROVE  /\ Wants' = Wants
         /\ Answers' = [Answers EXCEPT ![i] = Answer(i)']
<1>1. Wants' = Wants
  BY DEF Wants, Key
<1>2. \A j \in Invocations \ {i} : Answer(j)' = Answer(j)
  BY DEF OthersAlone, Same, Answer
<1> QED
  BY <1>1, <1>2 DEF Answers

\* A step that leaves the names alone is a reply of the index, or none of its steps.
LEMMA ReadsSimulated ==
  ASSUME TypeOK, NEW i \in Invocations, Unanswered(i), OthersAlone(i), Reads(i), TypeOK',
         (result[i] \in {"hit", "stored"} => sha256[i] \in Contents)'
  PROVE  [Index!Next]_Index!vars
<1>1. /\ Wants' = Wants /\ Answers' = [Answers EXCEPT ![i] = Answer(i)'] /\ metadata' = metadata
      /\ Wants[i] = Key(i) /\ Answers[i] = <<"none", Absent>>
  BY AnswersOfOne DEF Reads, Wants, Answers, Answer, Unanswered
<1>2. CASE result'[i] \in {"none", "killed"}
  <2>1. Answer(i)' = <<"none", Absent>>
    BY <1>2 DEF Answer
  <2>2. Answers' = Answers
    BY <1>1, <2>1 DEF Answers
  <2> QED
    BY <1>1, <2>2 DEF Index!vars
<1>3. CASE result'[i] = "miss"
  <2>1. Answer(i)' = <<"miss", Absent>> /\ metadata[Key(i)] = Absent
    BY <1>3 DEF Answer, Reads, Told
  <2>2. Index!Missed(i)
    BY <1>1, <2>1 DEF Index!Missed, Index!Reply
  <2> QED
    BY <2>2 DEF Index!Next
<1>4. CASE result'[i] \in {"hit", "stored"}
  <2>1. Answer(i)' = <<"found", sha256'[i]>> /\ metadata[Key(i)] = sha256'[i] /\ sha256'[i] # Absent
    BY <1>4, SentinelsAssumption DEF Answer, Reads, Told
  <2>2. Index!Found(i)
    BY <1>1, <2>1 DEF Index!Found, Index!Reply
  <2> QED
    BY <2>2 DEF Index!Next
<1>5. CASE result'[i] \notin {"none", "killed", "miss", "hit", "stored"}
  <2>1. Answer(i)' = <<"failed", Absent>>
    BY <1>5 DEF Answer
  <2>2. Index!Failed(i)
    BY <1>1, <2>1 DEF Index!Failed, Index!Reply
  <2> QED
    BY <2>2 DEF Index!Next
<1> QED
  BY <1>2, <1>3, <1>4, <1>5

\* The rename of commit_metadata binds the descriptor, which was unbound.
LEMMA RenameBinds ==
  ASSUME TypeOK, NEW i \in Invocations, Knows(i), MetadataKnown(i), OthersAlone(i), TempRename(i)
  PROVE  /\ Index!Bind(Key(i), sha256[i])
         /\ metadata' = [metadata EXCEPT ![Key(i)] = sha256[i]]
         /\ metadataImages' = [metadataImages EXCEPT ![Key(i)] = @ \cup {sha256[i]}]
         /\ MetadataKnown(i)'
<1>1. /\ pc[i] = "tempRename" /\ pc' = [pc EXCEPT ![i] = "metadataSync"]
      /\ UNCHANGED <<req, result, sha256>>
      /\ PutMetadata(Key(i), metadataTemp[i].doc, metadataTemp[i].synced)
  BY DEF TempRename, Goto
<1>2. metadataTemp[i] = [doc |-> sha256[i], synced |-> TRUE] /\ Satisfies(sha256[i], req[i])
  BY <1>1 DEF Knows, PartialKnown, DigestKnown, ObjectLocked, MetadataSteps
<1>3. /\ metadata' = [metadata EXCEPT ![Key(i)] = sha256[i]]
      /\ metadataImages' = [metadataImages EXCEPT ![Key(i)] = @ \cup {sha256[i]}]
  BY <1>1, <1>2 DEF PutMetadata
<1>4. metadata[Key(i)] = Absent
  BY <1>1 DEF MetadataKnown
<1>5. SatisfiesKey(sha256[i], Key(i))
  BY <1>2, KeySatisfied
<1>6. Wants' = Wants /\ Answers' = Answers
  BY <1>1 DEF Wants, Key, Answers, Answer
<1>7. Index!Bind(Key(i), sha256[i])
  BY <1>3, <1>4, <1>5, <1>6 DEF Index!Bind
<1>8. MetadataKnown(i)'
  BY <1>1, <1>3, KeyInKeys DEF MetadataKnown, Key, FillSteps, PublishSteps, TypeOK
<1> QED
  BY <1>3, <1>7, <1>8

\* Nobody else rebinds a descriptor whose lock is held.
LEMMA OthersKeepBinding ==
  ASSUME TypeOK, NEW i \in Invocations, NEW j \in Invocations \ {i}, OthersAlone(i),
         LocksHeld(i), LocksHeld(j), MetadataKnown(j),
         \/ metadata' = metadata
         \/ /\ pc[i] \in MetadataSteps
            /\ \A k \in Keys \ {Key(i)} : metadata'[k] = metadata[k]
  PROVE  MetadataKnown(j)'
<1>1. pc'[j] = pc[j] /\ sha256'[j] = sha256[j] /\ Key(j)' = Key(j)
  BY DEF OthersAlone, Same, Key
<1>2. CASE metadata' = metadata
  BY <1>1, <1>2 DEF MetadataKnown
<1>3. CASE /\ pc[i] \in MetadataSteps
           /\ \A k \in Keys \ {Key(i)} : metadata'[k] = metadata[k]
  <2>1. CASE pc[j] \in DescriptorLocked
    <3>1. descriptorLock[Key(i)] = i /\ descriptorLock[Key(j)] = j
      BY <1>3, <2>1 DEF LocksHeld, DescriptorLocked
    <3>2. Key(j) # Key(i) /\ Key(j) \in Keys
      BY <3>1, KeyInKeys
    <3> QED
      BY <1>1, <1>3, <3>2 DEF MetadataKnown
  <2>2. CASE pc[j] \notin DescriptorLocked
    BY <1>1, <2>2 DEF MetadataKnown, DescriptorLocked, LookupSteps, FillSteps, PublishSteps, MetadataSteps
  <2> QED
    BY <2>1, <2>2
<1> QED
  BY <1>2, <1>3

\* A step of a call keeps the invariant of the index and is one of its steps.
LEMMA CallImplements ==
  ASSUME TypeOK, StoreInvariant, IndexInvariant, TypeOK', StoreInvariant', NEW i \in Invocations,
         Step(i) \/ IoFails(i) \/ Kill(i)
  PROVE  IndexInvariant' /\ [Index!Next]_Index!vars
<1>1. Knows(i) /\ Unanswered(i) /\ LocksHeld(i) /\ MetadataKnown(i)
  BY DEF StoreInvariant, Knows, IndexInvariant
<1>2. OthersAlone(i)
  BY LookupAlone, FillAlone, PublishObjectAlone, CommitMetadataAlone, IoFailsAlone, KillAlone DEF Step
<1>3. Key(i) \in Keys /\ metadata \in [Keys -> Contents \cup {Absent, Torn}]
      /\ metadataImages \in [Keys -> SUBSET (Contents \cup {Absent, Torn})]
  BY KeyInKeys DEF TypeOK
<1>4. ASSUME NEW j \in Invocations \ {i},
             metadata' = metadata \/ (pc[i] \in MetadataSteps
                                      /\ \A k \in Keys \ {Key(i)} : metadata'[k] = metadata[k])
      PROVE  MetadataKnown(j)'
  BY <1>1, <1>2, <1>4, OthersKeepBinding DEF StoreInvariant, Knows, IndexInvariant
<1>5. CASE TempRename(i)
  <2>1. /\ Index!Bind(Key(i), sha256[i])
        /\ metadata' = [metadata EXCEPT ![Key(i)] = sha256[i]]
        /\ metadataImages' = [metadataImages EXCEPT ![Key(i)] = @ \cup {sha256[i]}]
        /\ MetadataKnown(i)'
    BY <1>1, <1>2, <1>5, RenameBinds
  <2>2. pc[i] = "tempRename" /\ pc[i] \in MetadataSteps
    BY <1>5 DEF TempRename, Goto, MetadataSteps
  <2>3. sha256[i] \in Contents /\ metadata[Key(i)] = Absent
    BY <1>1, <2>2 DEF MetadataKnown, Knows, DigestKnown, ObjectLocked
  <2>4. \A k \in Keys \ {Key(i)} : metadata'[k] = metadata[k] /\ metadataImages'[k] = metadataImages[k]
    BY <1>3, <2>1
  <2>5. MetadataSettled'
    <3>1. metadataImages[Key(i)] \subseteq {Absent}
      BY <1>3, <2>3 DEF IndexInvariant, MetadataSettled
    <3>2. metadataImages'[Key(i)] \subseteq {Absent, metadata'[Key(i)]}
      BY <1>3, <2>1, <3>1
    <3> QED
      BY <2>4, <3>2 DEF IndexInvariant, MetadataSettled
  <2>6. IndexInvariant'
    BY <1>4, <2>1, <2>2, <2>4, <2>5 DEF IndexInvariant
  <2> QED
    BY <1>3, <2>1, <2>3, <2>6 DEF Index!Next
<1>6. CASE ~TempRename(i)
  <2>1. Reads(i) /\ \/ UNCHANGED metadataImages
                    \/ metadataImages' = [metadataImages EXCEPT ![Key(i)] = {metadata[Key(i)]}]
    BY <1>1, <1>6, LookupReads, FillReads, PublishObjectReads, CommitMetadataReads, IoFailsReads,
       KillReads DEF Step
  <2>2. metadata' = metadata /\ MetadataKnown(i)'
    BY <2>1 DEF Reads
  <2>3. MetadataSettled'
    BY <1>3, <2>1, <2>2 DEF IndexInvariant, MetadataSettled
  <2>4. IndexInvariant'
    BY <1>4, <2>2, <2>3 DEF IndexInvariant
  <2>5. (result[i] \in {"hit", "stored"} => sha256[i] \in Contents)'
    BY DEF StoreInvariant, Knows, ObjectKnown
  <2> QED
    BY <1>1, <1>2, <2>1, <2>4, <2>5, ReadsSimulated
<1> QED
  BY <1>5, <1>6

\* A power loss forgets bindings and answers nobody.
LEMMA PowerLossForgets ==
  ASSUME TypeOK, StoreInvariant, IndexInvariant, PowerLoss, TypeOK'
  PROVE  IndexInvariant' /\ [Index!Next]_Index!vars
<1>1. /\ MayLosePower /\ UNCHANGED <<req, sha256>>
      /\ \A k \in Keys : metadata'[k] \in metadataImages[k] /\ metadataImages'[k] = {metadata'[k]}
      /\ \A i \in Invocations : /\ Active(i) => pc'[i] = "done" /\ result'[i] = "killed"
                                /\ ~Active(i) => pc'[i] = pc[i] /\ result'[i] = result[i]
  BY DEF PowerLoss
<1>2. \A i \in Invocations : Answer(i)' = Answer(i)
  <2> SUFFICES ASSUME NEW i \in Invocations PROVE Answer(i)' = Answer(i)
    OBVIOUS
  <2>1. CASE Active(i)
    <3>1. result[i] = "none" /\ result'[i] = "killed"
      BY <1>1, <2>1 DEF Active, StoreInvariant, Knows, Unanswered
    <3> QED
      BY <3>1 DEF Answer
  <2>2. CASE ~Active(i)
    BY <1>1, <2>2 DEF Answer
  <2> QED
    BY <2>1, <2>2
<1>3. Answers' = Answers /\ Wants' = Wants
  BY <1>1, <1>2 DEF Answers, Wants, Key
<1>4. \A i \in Invocations : MetadataKnown(i)'
  BY <1>1 DEF MetadataKnown, Active, FillSteps, PublishSteps
<1>5. IndexInvariant'
  BY <1>1, <1>4 DEF IndexInvariant, MetadataSettled
<1>6. Index!Forget
  <2> DEFINE kept == {k \in Keys : metadata'[k] = metadata[k]}
  <2>1. \A k \in Keys : metadata'[k] = IF k \in kept THEN metadata[k] ELSE Absent
    BY <1>1 DEF IndexInvariant, MetadataSettled
  <2>2. metadata' = [k \in Keys |-> IF k \in kept THEN metadata[k] ELSE Absent]
    BY <2>1 DEF TypeOK
  <2> QED
    BY <1>1, <1>3, <2>2 DEF Index!Forget
<1> QED
  BY <1>5, <1>6 DEF Index!Next

\* Damage to an object is no matter of the index.
LEMMA RotUnseen ==
  ASSUME IndexInvariant, NEW d \in Contents, Rot(d)
  PROVE  IndexInvariant' /\ [Index!Next]_Index!vars
<1>1. UNCHANGED <<metadata, metadataImages, pc, req, sha256, result>>
  BY DEF Rot
<1>2. Answers' = Answers /\ Wants' = Wants
  BY <1>1 DEF Answers, Answer, Wants, Key
<1>3. IndexInvariant'
  BY <1>1 DEF IndexInvariant, MetadataSettled, MetadataKnown, Key
<1> QED
  BY <1>1, <1>2, <1>3 DEF Index!vars

\* The store implements the index, as long as no look at a file fails.
THEOREM ImplementsIndex == ASSUME ~MayMisread PROVE Spec => ImplementsArtifactIndex
<1>1. Init => IndexInvariant /\ Index!Init
  <2> SUFFICES ASSUME Init PROVE IndexInvariant /\ Index!Init
    OBVIOUS
  <2>1. \A i \in Invocations : Answer(i) = <<"none", Absent>> /\ Key(i) \in Keys /\ MetadataKnown(i)
    BY KeyInKeys, Initially DEF Init, Answer, MetadataKnown, FillSteps, PublishSteps
  <2>2. Answers = [i \in Invocations |-> <<"none", Absent>>] /\ Wants \in [Invocations -> Keys]
    BY <2>1 DEF Answers, Wants
  <2> QED
    BY <2>1, <2>2 DEF Init, Index!Init, IndexInvariant, MetadataSettled
<1>2. ASSUME TypeOK, StoreInvariant, IndexInvariant, [Next]_vars
      PROVE  IndexInvariant' /\ [Index!Next]_Index!vars
  <2>1. TypeOK' /\ StoreInvariant'
    BY <1>2, Inductive
  <2>2. \A i \in Invocations : ~Misread(i)
    BY DEF Misread, LoadMisread, PublishMisread
  <2>3. CASE \E i \in Invocations : Step(i) \/ IoFails(i) \/ Kill(i)
    BY <1>2, <2>1, <2>3, CallImplements
  <2>4. CASE \E d \in Contents : Rot(d)
    BY <1>2, <2>4, RotUnseen
  <2>5. CASE PowerLoss
    BY <1>2, <2>1, <2>5, PowerLossForgets
  <2>6. CASE UNCHANGED vars
    BY <1>2, <2>6 DEF vars, stored, temporaries, locks, IndexInvariant, MetadataSettled, MetadataKnown,
       Key, Index!vars, Answers, Answer, Wants
  <2> QED
    BY <1>2, <2>2, <2>3, <2>4, <2>5, <2>6 DEF Next
<1> QED
  BY <1>1, <1>2, InvariantHolds, PTL DEF Spec, ImplementsArtifactIndex, Index!Spec
=============================================================================
