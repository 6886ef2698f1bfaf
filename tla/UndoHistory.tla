---------------------------- MODULE UndoHistory ----------------------------
(***************************************************************************)
(* What an undo/redo history promises, whatever it stores: a line of       *)
(* versions of a document, of which cur is the one on screen.  Undo goes   *)
(* to the version just before, redo to the version just after, and a new   *)
(* edit forgets every version after cur.  The oldest version is dropped    *)
(* when more than Limit would have to be kept.                             *)
(*                                                                         *)
(* Editing.tla refines this specification.                                 *)
(***************************************************************************)
EXTENDS Naturals, Sequences

CONSTANTS Docs, Limit
VARIABLES past, cur, future

hvars == <<past, cur, future>>

Newest(s) == s[Len(s)]
Bounded(s) == IF Len(s) > Limit THEN Tail(s) ELSE s

Init == past = <<>> /\ cur \in Docs /\ future = <<>>

\* An edit that becomes an undo step of its own.
Edit ==
  /\ past' = Bounded(Append(past, cur))
  /\ cur' \in Docs
  /\ future' = <<>>

\* An edit that joins the newest step (a burst of keystrokes).
Amend ==
  /\ past # <<>> /\ future = <<>>
  /\ cur' \in Docs
  /\ UNCHANGED <<past, future>>

Undo ==
  /\ past # <<>>
  /\ cur' = Newest(past)
  /\ past' = SubSeq(past, 1, Len(past) - 1)
  /\ future' = <<cur>> \o future

Redo ==
  /\ future # <<>>
  /\ cur' = Head(future)
  /\ future' = Tail(future)
  /\ past' = Append(past, cur)

\* Abandoning an edit in progress: back to version k, and nothing of the
\* versions after it is left to redo.
Abandon(k) ==
  /\ future = <<>>
  /\ cur' = past[k]
  /\ past' = SubSeq(past, 1, k - 1)
  /\ UNCHANGED future

\* Abandoning an edit and undoing the step before it, in one gesture.
AbandonAndUndo(k) ==
  /\ future = <<>> /\ k > 1
  /\ cur' = past[k - 1]
  /\ past' = SubSeq(past, 1, k - 2)
  /\ future' = <<past[k]>>

Next ==
  \/ Edit
  \/ Amend
  \/ Undo
  \/ Redo
  \/ \E k \in DOMAIN past : Abandon(k) \/ AbandonAndUndo(k)

Spec == Init /\ [][Next]_hvars
=============================================================================
