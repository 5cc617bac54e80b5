------------------------------- MODULE Lists -------------------------------
(***************************************************************************)
(* The operators on sequences that the media modules need, by the names    *)
(* that SequencesExt gives them.  They are here, as folds, because MCMedia *)
(* has many instances and each brings every definition that its module     *)
(* extends; with all of SequencesExt its proofs take half as long again.   *)
(***************************************************************************)
EXTENDS Integers, Sequences, Folds

Last(s) == s[Len(s)]
Elements(s) == {s[i] : i \in DOMAIN s}

First(S) == CHOOSE i \in S : \A j \in S : i <= j
Final(S) == CHOOSE i \in S : \A j \in S : j <= i

\* The elements of s from the first on.
FoldLeft(op(_, _), base, s) ==
    MapThenFoldSet(LAMBDA x, y : op(y, x), base, LAMBDA i : s[i], Final, DOMAIN s)

\* Sequences one behind the other.
FlattenSeq(ss) == MapThenFoldSet(LAMBDA s, t : s \o t, <<>>, LAMBDA i : ss[i], First, DOMAIN ss)
=============================================================================
