------------------------------- MODULE Vectors -------------------------------
(***************************************************************************)
(* What the code does with Rust's vectors, over sets instead of closures.  *)
(***************************************************************************)
EXTENDS Naturals, Sequences

\* Vec::retain, Iterator::filter: the members of s that are in S, in their order.
Retain(s, S) ==
  LET kept[n \in 0 .. Len(s)] ==
        IF n = 0 THEN <<>>
        ELSE IF s[n] \in S THEN Append(kept[n - 1], s[n]) ELSE kept[n - 1]
  IN  kept[Len(s)]
==============================================================================
