----------------------------- MODULE SeqFilter -----------------------------
(***************************************************************************)
(* Filtering a list, as the list comprehensions of the Python code do: the *)
(* elements that are in a set, in the order they had.  It is SelectSeq on  *)
(* a set, written as a recursive function so that it can be proved about.  *)
(***************************************************************************)
EXTENDS Naturals, Sequences

Entries(s) == {s[i] : i \in DOMAIN s}

Kept(s, T) ==
    LET kept[i \in 0..Len(s)] ==
          IF i = 0 THEN << >>
          ELSE IF s[i] \in T THEN Append(kept[i - 1], s[i]) ELSE kept[i - 1]
    IN  kept[Len(s)]

\* s[-n:] and s[:n] of Python.
LastOf(s, n) == IF Len(s) <= n THEN s ELSE SubSeq(s, Len(s) - n + 1, Len(s))
FirstOf(s, n) == IF Len(s) <= n THEN s ELSE SubSeq(s, 1, n)

=============================================================================
