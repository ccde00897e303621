------------------------------ MODULE GitCache ------------------------------
(***************************************************************************)
(* The Git source cache of rsolve-provider (source_control/): processes    *)
(* acquire one subdirectory of one repository at a selector or a pinned    *)
(* commit.  Under the exclusive repository lock a call resolves the        *)
(* selector against the remote's advertisement, fetches the exact commit   *)
(* into the owned bare repository and resolves again; under a shared       *)
(* repository lock and the source's own lock it publishes the files of the *)
(* tree as an immutable view, which later calls validate and reuse.        *)
(*                                                                         *)
(* A path is a sequence of bytes, a blob a value.  The lock inside         *)
(* publish_with_binding is only taken by the holder of the source lock of  *)
(* the same view and is left out.                                          *)
(***************************************************************************)
EXTENDS Integers, Sequences, FiniteSets, SequencesExt

CONSTANTS Calls,        \* processes acquiring a source
          Requests,     \* what they ask: [kind, oid, offline, subdirectory]
          Trees,        \* [oid |-> files of the commit], files: path -> blob
          Unsupported,  \* the blobs whose mode is a symlink or a gitlink
          Lower,        \* to_ascii_lowercase on bytes
          Slash,        \* the byte that separates the components of a path
          Description,  \* the path of DESCRIPTION
          Mismatched,   \* the DESCRIPTIONs that do not fit the requirement
          OtherFormat,  \* the object ids of the hash format the remote has not
          Movements,    \* the values the remote's references go through
          MaxFaults,    \* bound on deaths, failures and damage
          None          \* no value

Commits == DOMAIN Trees

VARIABLES refs,      \* the remote's references: HEAD, branch, tag, tag^{}
          moved,     \* how many of Movements have happened
          objects,   \* the commits in repository.git
          format,    \* the hash format of repository.git, or None
          origin,    \* origin.toml: "absent", "partial" or "written"
          staging,   \* .<view>.partial: key -> None or [files, synced]
          views,     \* the views: key -> None or [files, synced, digest,
                     \*   marker: source.toml is readable, durable]
          writer,    \* the holder of the exclusive repository lock, or None
          readers,   \* the holders of the shared repository lock
          sources,   \* the holder of each source lock, or None
          call,      \* the state of each call
          faults     \* the faults so far

vars == <<refs, moved, objects, format, origin, staging, views, writer,
          readers, sources, call, faults>>

(* ---------------------------------------------------------------- paths *)
LowerPath(path) == [i \in DOMAIN path |-> Lower[path[i]]]

Less(a, b) ==
    \E n \in 0 .. Len(a) :
        /\ n <= Len(b)
        /\ SubSeq(a, 1, n) = SubSeq(b, 1, n)
        /\ IF n = Len(a) THEN Len(b) > n ELSE n < Len(b) /\ a[n + 1] < b[n + 1]

is_path_prefix(prefix, path) == prefix = path \/ IsPrefix(Append(prefix, Slash), path)

Greatest(S) == {x \in S : \A y \in S : y = x \/ Less(y, x)}
Least(S) == {x \in S : \A y \in S : y = x \/ Less(x, y)}

\* Only the neighbours of the key in the order of the set are looked at.
Collides(seen, key) ==
    \/ \E e \in Greatest({x \in seen : x = key \/ Less(x, key)}) : is_path_prefix(e, key)
    \/ \E e \in Least({x \in seen : x = key \/ Less(key, x)}) : is_path_prefix(key, e)

\* No component is empty.
validate_path(path) ==
    /\ path # <<>> /\ path[Len(path)] # Slash
    /\ \A i \in DOMAIN path : path[i] = Slash => i > 1 /\ path[i - 1] # Slash

check_path(seen, path) == validate_path(path) /\ ~Collides(seen, LowerPath(path))

\* TreeBuilder.add over the entries in some order.
Accepts(order) ==
    \A i \in DOMAIN order :
        check_path({LowerPath(order[j]) : j \in 1 .. (i - 1)}, order[i])

Sorted(paths) == SortSeq(SetToSeq(paths), Less)
Orders(paths) == {o \in [1 .. Cardinality(paths) -> paths] :
                     {o[i] : i \in DOMAIN o} = paths}

(* ------------------------------------------------------------ selectors *)
\* The references a selector asks for; a peeled tag hides the tag.
Wanted(at, kind) ==
    LET tag == IF at["peeled"] # None THEN {"peeled"} ELSE {"tag"}
    IN  CASE kind = "default" -> {"HEAD"}
          [] kind = "branch"  -> {"branch"}
          [] kind = "tag"     -> tag
          [] OTHER            -> {"branch"} \cup tag

Matches(at, kind) == {r \in Wanted(at, kind) : at[r] # None}

is_full_oid_selector(request) == request.kind \in {"pinned", "oid"}

\* None when the selector names nothing, or two references.
resolve(at, request) ==
    IF is_full_oid_selector(request) THEN request.oid
    ELSE LET m == Matches(at, request.kind)
         IN IF Cardinality(m) = 1 THEN at[CHOOSE r \in m : TRUE] ELSE None

(* --------------------------------------------------------------- states *)
Keys == Commits \X {r.subdirectory : r \in Requests}
NoCall == [pc |-> "idle", request |-> None, commit |-> None, since |-> {},
           todo |-> {}, facts |-> None, description |-> None]

\* The files below the subdirectory, their paths relative to it.
Subtree(oid, subdirectory) ==
    LET n == Len(subdirectory)
        files == Trees[oid]
        below == {p \in DOMAIN files : IsPrefix(subdirectory, p)}
    IN  [q \in {SubSeq(p, n + 1, Len(p)) : p \in below} |-> files[subdirectory \o q]]

Key(c) == <<call[c].commit, call[c].request.subdirectory>>

Init ==
    /\ refs = Movements[1] /\ moved = 1
    /\ objects = {} /\ format = None /\ origin = "absent"
    /\ staging = [k \in Keys |-> None] /\ views = [k \in Keys |-> None]
    /\ writer = None /\ readers = {} /\ sources = [k \in Keys |-> None]
    /\ call = [c \in Calls |-> NoCall]
    /\ faults = 0

Goto(c, pc) == call' = [call EXCEPT ![c].pc = pc]
disk == <<objects, format, origin, staging, views>>
remote == <<refs, moved>>
locks == <<writer, readers, sources>>

Release(c) ==
    /\ writer' = IF writer = c THEN None ELSE writer
    /\ readers' = readers \ {c}
    /\ sources' = [k \in Keys |-> IF sources[k] = c THEN None ELSE sources[k]]

Fail(c) ==
    /\ Release(c)
    /\ call' = [call EXCEPT ![c] = [NoCall EXCEPT !.pc = "failed"]]

(* -------------------------------------------- under the repository lock *)
\* origin.toml says which format the repository has.
validate_origin(r) ==
    origin = "written" /\ is_full_oid_selector(r) => r.oid \notin OtherFormat

\* Wait for the lock, then look at origin.toml.
Acquire(c) ==
    /\ call[c].pc = "idle" /\ writer = None /\ readers = {}
    /\ \E r \in Requests :
          IF validate_origin(r)
          THEN /\ call' = [call EXCEPT ![c].request = r,
                                       ![c].pc = IF r.offline THEN "local" ELSE "resolve"]
               /\ writer' = c /\ UNCHANGED <<readers, sources>>
          ELSE Fail(c)
    /\ UNCHANGED <<remote, disk, faults>>

\* Offline, only a full object id can be resolved, from what was fetched.
Local(c) ==
    /\ call[c].pc = "local"
    /\ LET r == call[c].request
       IN IF is_full_oid_selector(r) /\ r.oid \in objects \cap Commits /\ origin = "written"
          THEN /\ call' = [call EXCEPT ![c].commit = r.oid, ![c].pc = "shared"]
               /\ Release(c)
          ELSE Fail(c)
    /\ UNCHANGED <<remote, disk, faults>>

Resolve(c) ==
    /\ call[c].pc = "resolve"
    /\ LET oid == resolve(refs, call[c].request)
       IN IF oid = None THEN Fail(c)
          ELSE /\ call' = [call EXCEPT ![c].commit = oid, ![c].pc = "fetch"]
               /\ UNCHANGED locks
    /\ UNCHANGED <<remote, disk, faults>>

Format(oid) == IF oid \in OtherFormat THEN "other" ELSE "own"

\* git init --bare keeps the format of a repository that exists; then the
\* fetch of the exact object and verify_local_commit.
Fetch(c) ==
    /\ call[c].pc = "fetch"
    /\ LET oid == call[c].commit
           found == format' = "own" /\ Format(oid) = "own"
       IN /\ format' = IF format = None THEN Format(oid) ELSE format
          /\ objects' = IF found THEN objects \cup {oid} ELSE objects
          /\ IF found /\ oid \in Commits
             THEN /\ call' = [call EXCEPT ![c].since = {resolve(refs, call[c].request)},
                                          ![c].pc = IF is_full_oid_selector(call[c].request)
                                                    THEN "origin" ELSE "stable"]
                  /\ UNCHANGED locks
             ELSE Fail(c)
    /\ UNCHANGED <<remote, origin, staging, views, faults>>

SelectorNotVerified(c) == TRUE

verify_selector_stable(c) == resolve(refs, call[c].request) = call[c].commit

Stable(c) ==
    /\ call[c].pc = "stable"
    /\ IF verify_selector_stable(c) THEN Goto(c, "origin") /\ UNCHANGED locks ELSE Fail(c)
    /\ UNCHANGED <<remote, disk, faults>>

\* write_origin: an existing file must say the same; a new one is written
\* beside and renamed.
WriteOrigin(c) ==
    /\ call[c].pc = "origin"
    /\ IF origin = "written"
       THEN Goto(c, "shared") /\ Release(c) /\ UNCHANGED origin
       ELSE Goto(c, "rename_origin") /\ origin' = "partial" /\ UNCHANGED locks
    /\ UNCHANGED <<remote, objects, format, staging, views, faults>>

RenameOrigin(c) ==
    /\ call[c].pc = "rename_origin"
    /\ origin' = "written"
    /\ Goto(c, "shared") /\ Release(c)
    /\ UNCHANGED <<remote, objects, format, staging, views, faults>>

(* ------------------------------------------------ under the source lock *)
LockShared(c) ==
    /\ call[c].pc = "shared" /\ writer = None
    /\ readers' = readers \cup {c}
    /\ Goto(c, "source")
    /\ UNCHANGED <<remote, disk, writer, sources, faults>>

LockSource(c) ==
    /\ call[c].pc = "source" /\ sources[Key(c)] = None
    /\ sources' = [sources EXCEPT ![Key(c)] = c]
    /\ Goto(c, "read")
    /\ UNCHANGED <<remote, disk, writer, readers, faults>>

Supported(files) ==
    /\ DOMAIN files # {}
    /\ \A p \in DOMAIN files : files[p] \notin Unsupported
    /\ Accepts(Sorted(DOMAIN files))

\* Offline the view must exist; online the whole tree is read, view or not.
ReadTree(c) ==
    /\ call[c].pc = "read"
    /\ LET files == Subtree(Key(c)[1], Key(c)[2])
           exists == views[Key(c)] # None
       IN IF IF call[c].request.offline THEN exists ELSE Supported(files)
          THEN /\ call' = [call EXCEPT ![c].pc = IF exists THEN "validate" ELSE "stage",
                                       ![c].todo = IF exists THEN {} ELSE DOMAIN files]
               /\ UNCHANGED locks
          ELSE Fail(c)
    /\ UNCHANGED <<remote, disk, faults>>

\* remove_tree_bounded: what a killed process left is removed first.
RemoveStaging(c) ==
    /\ call[c].pc = "stage"
    /\ staging' = [staging EXCEPT ![Key(c)] = None]
    /\ Goto(c, "create")
    /\ UNCHANGED <<remote, objects, format, origin, views, locks, faults>>

CreateStaging(c) ==
    /\ call[c].pc = "create"
    /\ staging' = [staging EXCEPT ![Key(c)] = [files |-> <<>>, synced |-> FALSE]]
    /\ Goto(c, "write")
    /\ UNCHANGED <<remote, objects, format, origin, views, locks, faults>>

\* One file, created, written and synced.
WriteFile(c) ==
    /\ call[c].pc = "write"
    /\ \E p \in call[c].todo :
          /\ \A q \in call[c].todo : q = p \/ Less(p, q)
          /\ staging' = [staging EXCEPT ![Key(c)].files =
                            [q \in DOMAIN @ \cup {p} |->
                                IF q = p THEN Subtree(Key(c)[1], Key(c)[2])[p] ELSE @[q]]]
          /\ call' = [call EXCEPT ![c].todo = @ \ {p},
                                  ![c].pc = IF call[c].todo = {p} THEN "sync" ELSE "write"]
    /\ UNCHANGED <<remote, objects, format, origin, views, locks, faults>>

SkipSync(c) ==
    /\ call[c].pc = "sync"
    /\ Goto(c, "publish")
    /\ UNCHANGED <<remote, disk, locks, faults>>

\* The directories of the tree, source.toml and the staging directory.
Sync(c) ==
    /\ call[c].pc = "sync"
    /\ staging' = [staging EXCEPT ![Key(c)].synced = TRUE]
    /\ Goto(c, "publish")
    /\ UNCHANGED <<remote, objects, format, origin, views, locks, faults>>

\* rename_noreplace; the marker has the digest of the entries of the tree.
Publish(c) ==
    /\ call[c].pc = "publish"
    /\ views' = [views EXCEPT ![Key(c)] =
                    [files |-> staging[Key(c)].files, synced |-> staging[Key(c)].synced,
                     digest |-> Subtree(Key(c)[1], Key(c)[2]),
                     marker |-> TRUE, durable |-> FALSE]]
    /\ staging' = [staging EXCEPT ![Key(c)] = None]
    /\ Goto(c, "durable")
    /\ UNCHANGED <<remote, objects, format, origin, locks, faults>>

SyncParent(c) ==
    /\ call[c].pc = "durable"
    /\ views' = [views EXCEPT ![Key(c)].durable = TRUE]
    /\ Goto(c, "validate")
    /\ UNCHANGED <<remote, objects, format, origin, staging, locks, faults>>

\* SourceMarker::parse takes what SourceMarker::write wrote, and only that.
parse(view) == IF view.marker THEN view.digest ELSE None

\* validate_existing_view_cap reads the files in whatever order the
\* directory lists them; the result is a handle that remembers them.
Validate(c) ==
    /\ call[c].pc = "validate"
    /\ LET v == views[Key(c)]
       IN \E order \in Orders(DOMAIN v.files) :
            IF parse(v) # None /\ Accepts(order) /\ v.files = parse(v)
            THEN /\ call' = [call EXCEPT ![c].facts = v.files, ![c].pc = "acquired"]
                 /\ Release(c)
            ELSE Fail(c)
    /\ UNCHANGED <<remote, disk, faults>>

ReadUnchecked(c, path) ==
    LET now == IF views[Key(c)] = None THEN <<>> ELSE views[Key(c)].files
    IN  IF path \in DOMAIN now THEN now[path] ELSE None

\* read_validated_file compares what it reads with the remembered entry.
read_validated_file(c, path) ==
    LET now == IF views[Key(c)] = None THEN <<>> ELSE views[Key(c)].files
    IN  IF /\ path \in DOMAIN call[c].facts /\ path \in DOMAIN now
           /\ now[path] = call[c].facts[path]
        THEN now[path] ELSE None

\* The package and the version must be the expected ones.
project_description(c) ==
    LET d == read_validated_file(c, Description)
    IN  IF d \in Mismatched THEN None ELSE d

Describe(c) ==
    /\ call[c].pc = "acquired"
    /\ call' = [call EXCEPT ![c].description = project_description(c), ![c].pc = "described"]
    /\ UNCHANGED <<remote, disk, locks, faults>>

(* --------------------------------------------------------------- faults *)
\* A git command fails: transport, credentials, output beyond its limit, or an
\* object that cannot be read.
CommandFails(c) ==
    /\ call[c].pc \in {"local", "resolve", "fetch", "stable", "read"}
    /\ faults < MaxFaults /\ faults' = faults + 1
    /\ Fail(c)
    /\ UNCHANGED <<remote, disk>>

\* A file or a directory cannot be read or written; origin.toml may be in
\* place when its directory cannot be synced.
WriteFails(c) ==
    /\ call[c].pc \in {"origin", "rename_origin", "stage", "create", "write", "sync",
                       "publish", "durable", "validate"}
    /\ faults < MaxFaults /\ faults' = faults + 1
    /\ Fail(c)
    /\ origin' \in {origin} \cup (IF call[c].pc = "rename_origin" THEN {"written"} ELSE {})
    /\ UNCHANGED <<remote, objects, format, staging, views>>

\* The process is killed; the operating system releases its locks.
Die(c) ==
    /\ call[c].pc \notin {"idle", "failed", "described"}
    /\ faults < MaxFaults /\ faults' = faults + 1
    /\ Release(c) /\ call' = [call EXCEPT ![c] = NoCall]
    /\ UNCHANGED <<remote, disk>>

\* The machine stops: every process dies, a rename whose directory was not
\* synced may be undone and files whose directories were not are lost.
Crash ==
    /\ faults < MaxFaults /\ faults' = faults + 1
    /\ \E k \in Keys : views[k] # None /\ ~views[k].durable
    /\ \E undone \in SUBSET {k \in Keys : views[k] # None /\ ~views[k].durable} :
          views' = [k \in Keys |->
                      IF k \in undone \/ views[k] = None THEN None
                      ELSE [views[k] EXCEPT !.files = IF views[k].synced THEN @ ELSE <<>>]]
    /\ staging' = [k \in Keys |-> IF staging[k] = None THEN None
                                  ELSE [files |-> <<>>, synced |-> FALSE]]
    /\ call' = [c \in Calls |-> IF call[c].pc \in {"failed", "described"}
                                 THEN call[c] ELSE NoCall]
    /\ writer' = None /\ readers' = {} /\ sources' = [k \in Keys |-> None]
    /\ UNCHANGED <<remote, objects, format, origin>>

\* A file of a view, or its marker, is changed by something else.
Damage(k) ==
    /\ views[k] # None /\ faults < MaxFaults /\ faults' = faults + 1
    /\ \/ \E p \in DOMAIN views[k].files : views' = [views EXCEPT ![k].files[p] = -1]
       \/ views' = [views EXCEPT ![k].marker = FALSE]
    /\ UNCHANGED <<remote, objects, format, origin, staging, locks, call>>

\* Somebody pushes.
Move ==
    /\ moved < Len(Movements)
    /\ \E c \in Calls : call[c].pc \notin {"failed", "described"}
    /\ moved' = moved + 1 /\ refs' = Movements[moved + 1]
    /\ call' = [c \in Calls |->
                  IF call[c].pc = "stable"
                  THEN [call[c] EXCEPT !.since = @ \cup {resolve(refs', call[c].request)}]
                  ELSE call[c]]
    /\ UNCHANGED <<disk, locks, faults>>

Finished ==
    /\ \A c \in Calls : call[c].pc \in {"failed", "described"}
    /\ UNCHANGED vars

Step(c) ==
    \/ Acquire(c) \/ Local(c) \/ Resolve(c) \/ Fetch(c) \/ Stable(c)
    \/ WriteOrigin(c) \/ RenameOrigin(c) \/ LockShared(c) \/ LockSource(c)
    \/ ReadTree(c) \/ RemoveStaging(c) \/ CreateStaging(c) \/ WriteFile(c) \/ Sync(c)
    \/ Publish(c) \/ SyncParent(c) \/ Validate(c) \/ Describe(c)
    \/ CommandFails(c) \/ WriteFails(c) \/ Die(c)

Next == (\E c \in Calls : Step(c)) \/ (\E k \in Keys : Damage(k)) \/ Crash \/ Move \/ Finished

Spec == Init /\ [][Next]_vars

(* ----------------------------------------------------------- properties *)
\* A view that can be opened holds every file of the commit it is named
\* after and nothing else, unless something outside changed it: no process
\* killed while publishing, no staging directory it left and no loss of power
\* leaves part of a tree under a view's name (publish_with_binding).
ViewsAreWhole ==
    \A k \in Keys :
        views[k] # None => /\ DOMAIN views[k].files = DOMAIN Subtree(k[1], k[2])
                           /\ \A p \in DOMAIN views[k].files :
                                 views[k].files[p] \in {Subtree(k[1], k[2])[p], -1}

\* The commit an online call answers with for a mutable selector was named by
\* that selector at some moment after it had been fetched: a branch that moved
\* between its resolution and the fetch is reported, not silently answered
\* with the older commit (verify_selector_stable).
AnswersAreStable ==
    \A c \in Calls :
        call[c].pc \in {"acquired", "described"} /\ ~call[c].request.offline
            => call[c].commit \in call[c].since

\* Whatever happens to the files of a view after it was validated, the
\* DESCRIPTION that is projected from it is the one of the commit.
DescriptionIsTheCommits ==
    \A c \in Calls :
        call[c].pc = "described" /\ call[c].description # None
            => call[c].description = Subtree(Key(c)[1], Key(c)[2])[Description]

\* No published view holds two paths that are one path, or one inside the
\* other, when letter case is ignored.
CollisionsAreRejected ==
    \A k \in Keys : views[k] # None =>
        \A p, q \in DOMAIN views[k].files :
            p # q => ~is_path_prefix(LowerPath(p), LowerPath(q))
=============================================================================
