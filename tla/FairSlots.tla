----------------------------- MODULE FairSlots -----------------------------
(***************************************************************************)
(* What the admission controller promises ("Fair active limit with a       *)
(* bounded FIFO and idempotent lease release"): at most Slots clients run, *)
(* at most Places wait in line, a free slot and a waiting client never     *)
(* exist together, and slots are granted in the order of the line.  There  *)
(* is no counter and no per-client flag here, only who runs and who waits. *)
(***************************************************************************)
EXTENDS Integers, Sequences, FiniteSets

CONSTANTS Client, Slots, Places

VARIABLES running, line, gone

vars == <<running, line, gone>>

InLine == {line[i] : i \in DOMAIN line}

New(c) == c \notin running /\ c \notin InLine /\ c \notin gone

FreeSlot == Cardinality(running) < Slots

Init == running = {} /\ line = <<>> /\ gone = {}

Enter(c) ==
    /\ New(c)
    /\ line = <<>>
    /\ FreeSlot
    /\ running' = running \cup {c}
    /\ UNCHANGED <<line, gone>>

Join(c) ==
    /\ New(c)
    /\ ~FreeSlot
    /\ Len(line) < Places
    /\ line' = Append(line, c)
    /\ UNCHANGED <<running, gone>>

\* The client at place i gives up; those behind it move up.
GiveUp(i) ==
    /\ line' = SubSeq(line, 1, i - 1) \o SubSeq(line, i + 1, Len(line))
    /\ gone' = gone \cup {line[i]}
    /\ UNCHANGED running

LeaveLast(c) ==
    /\ c \in running
    /\ line = <<>>
    /\ running' = running \ {c}
    /\ gone' = gone \cup {c}
    /\ UNCHANGED line

LeaveTo(c) ==
    /\ c \in running
    /\ line # <<>>
    /\ running' = (running \ {c}) \cup {line[1]}
    /\ line' = Tail(line)
    /\ gone' = gone \cup {c}

\* Who is gone may be forgotten, and come again as somebody new.
Return(c) ==
    /\ c \in gone
    /\ gone' = gone \ {c}
    /\ UNCHANGED <<running, line>>

Next ==
    \/ \E c \in Client :
          Enter(c) \/ Join(c) \/ LeaveLast(c) \/ LeaveTo(c) \/ Return(c)
    \/ \E i \in DOMAIN line : GiveUp(i)

Spec == Init /\ [][Next]_vars

=============================================================================
