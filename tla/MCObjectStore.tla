--------------------------- MODULE MCObjectStore ---------------------------
(***************************************************************************)
(* Instances of ObjectStore for TLC.                                       *)
(***************************************************************************)
EXTENDS ObjectStoreInvariant, TLC

CONSTANTS b1, b2, b3, m1, m2, pkg, other, url1, url2

\* Two archives whose MD5 digests collide, of different packages, and a longer
\* stream that is no archive.
contentA == [bytes |-> b1, md5 |-> m1, size |-> 2, archive |-> pkg]
contentB == [bytes |-> b2, md5 |-> m1, size |-> 2, archive |-> other]
contentBad == [bytes |-> b3, md5 |-> m2, size |-> 3, archive |-> Unreadable]

MCOneContent == {contentA}
MCContents == {contentA, contentB, contentBad}

Request(op, locator, checksums, size, expectation) ==
  [op |-> op, locator |-> locator, checksums |-> checksums, size |-> size,
   expectation |-> expectation]

Md5(v) == [algorithm |-> "md5", value |-> v]
Sha256(v) == [algorithm |-> "sha256", value |-> v]

\* Two descriptors of the same archive, a probe of the first, and a probe that differs
\* from it only in the identity it expects.
MCSharedObject ==
  {Request("commit", url1, {}, None, None), Request("probe", url1, {}, None, None),
   Request("probe", url1, {}, None, other), Request("commit", url2, {Sha256(b1)}, 2, pkg)}

\* Declarations that are refused, and that a stream may fail to meet.
MCDeclarations ==
  {Request("commit", url1, {Md5(m1), Md5(m2)}, None, pkg),
   Request("commit", url1, {[algorithm |-> "sha512", value |-> m1]}, None, pkg),
   Request("commit", url1, {Sha256(b2), Md5(m1)}, 2, None),
   Request("commit", url1, {}, None, None), Request("commit", url2, {}, 2, pkg),
   Request("commit", url2, {}, 3, None), Request("probe", url2, {}, 2, pkg)}

Symmetry == Permutations(Invocations)
=============================================================================
