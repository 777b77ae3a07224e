-------------------------------- MODULE Sums --------------------------------
(***************************************************************************)
(* The sums the properties compare counters with: of a natural number per  *)
(* connection, or per frame of a channel.  A sum is the cardinality of a   *)
(* set of numbered units, so that the theorems about finite sets apply to  *)
(* it, which a fold's recursive definition would keep them from.           *)
(***************************************************************************)
EXTENDS Integers, FiniteSets

\* The units counted by f: f[x] of them for each x in S.
Units(f, S) == UNION {{x} \X (1..f[x]) : x \in S}

SumOver(f, S) == Cardinality(Units(f, S))

\* The sum of the numbers in a sequence.
SumSeq(seq) == SumOver(seq, DOMAIN seq)
=============================================================================
