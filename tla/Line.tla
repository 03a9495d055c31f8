-------------------------------- MODULE Line --------------------------------
(***************************************************************************)
(* The queue of a tokio mutex: callers are served in the order in which    *)
(* they asked, and one whose future is dropped leaves from wherever it is. *)
(***************************************************************************)
EXTENDS Naturals, Sequences

(* A waiter is in line at one place only. *)
Without(s, t) ==
  IF \E i \in DOMAIN s : s[i] = t
  THEN LET i == CHOOSE i \in DOMAIN s : s[i] = t
       IN  SubSeq(s, 1, i - 1) \o SubSeq(s, i + 1, Len(s))
  ELSE s

=============================================================================
