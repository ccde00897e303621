---------------------------- MODULE BoundedCopy ----------------------------
(***************************************************************************)
(* The loop of copy_compressed_input: it copies a stream to the partial    *)
(* file of a commit, and decides whether the stream has an acceptable      *)
(* length, without ever asking for more than one byte beyond its bound.    *)
(*                                                                         *)
(* A reader may return fewer bytes than it is asked for.  Sizes are u64    *)
(* and saturate at MaxSize.                                                *)
(***************************************************************************)
EXTENDS Integers

CONSTANTS
  Lengths,    \* the lengths a stream may have
  Expected,   \* the declared sizes, and None
  HardLimit,  \* the bound of a stream without a declared size
  Buffer,     \* the capacity of one read, 64 KiB in the code
  MaxSize,    \* u64::MAX
  None        \* no declared size

VARIABLES
  length,    \* the length of the stream
  expected,  \* the declared size
  size,      \* the bytes counted
  consumed,  \* the bytes the reader delivered, all of which were written and hashed
  outcome    \* "none" while the loop runs

vars == <<length, expected, size, consumed, outcome>>

Least(a, b) == IF a <= b THEN a ELSE b

Limit == IF expected = None THEN HardLimit ELSE expected

AtLimit == size >= Limit

Capacity == IF AtLimit THEN 1 ELSE Least(Limit - size, Buffer)

Init ==
  /\ length \in Lengths
  /\ expected \in Expected
  /\ size = 0
  /\ consumed = 0
  /\ outcome = "none"

\* Mutant: a stream that ends early is accepted.
EndOfStreamAccepted ==
  /\ outcome = "none"
  /\ consumed = length
  /\ outcome' = "ok"
  /\ UNCHANGED <<length, expected, size, consumed>>

\* The reader returns no byte: a declared size must have been met.
EndOfStream ==
  /\ outcome = "none"
  /\ consumed = length
  /\ outcome' = IF expected \in {None, size} THEN "ok" ELSE "mismatch"
  /\ UNCHANGED <<length, expected, size, consumed>>

\* The reader returns some bytes; a byte beyond the bound ends the copy.
ReadBytes ==
  /\ outcome = "none"
  /\ \E read \in 1..Least(Capacity, length - consumed) :
        /\ consumed' = consumed + read
        /\ size' = Least(size + read, MaxSize)
  /\ outcome' = IF ~AtLimit THEN "none" ELSE IF expected = None THEN "tooLarge" ELSE "mismatch"
  /\ UNCHANGED <<length, expected>>

Next == EndOfStream \/ ReadBytes

Spec == Init /\ [][Next]_vars

\* The loop runs until it returns; the reader always answers.
FairSpec == Spec /\ WF_vars(Next)

\* Why the loop is right: while it runs, it has not passed its bound; when it ends
\* it has seen either the end of the stream or one byte beyond the bound.
CopyInvariant ==
  /\ outcome = "none" => size = consumed /\ consumed <= Limit
  /\ outcome = "ok" => size = consumed /\ consumed = length /\ consumed <= Limit
                        /\ expected \in {None, size}
  /\ outcome = "mismatch" => expected # None /\ consumed <= Limit + 1
                              /\ length # expected
  /\ outcome = "tooLarge" => expected = None /\ consumed = Limit + 1

(***************************************************************************)
(* Properties                                                              *)
(***************************************************************************)

\* Types of the variables.
TypeOK ==
  /\ length \in Lengths /\ expected \in Expected
  /\ size \in 0..MaxSize /\ consumed \in 0..length
  /\ outcome \in {"none", "ok", "mismatch", "tooLarge"}

\* However the reader cuts the stream, copy_compressed_input consumes at most one
\* byte beyond its bound.
BoundedConsumption == consumed <= Limit + 1

\* The outcome depends on the length of the stream alone: exactly the declared size,
\* or at most the limit, is accepted, and then the whole stream was copied and
\* counted.
OutcomeIsTheReference ==
  outcome # "none" =>
    /\ outcome = "ok" <=> (IF expected = None THEN length <= HardLimit ELSE length = expected)
    /\ outcome = "tooLarge" <=> expected = None /\ length > HardLimit
    /\ outcome = "ok" => consumed = length /\ size = length

=============================================================================
