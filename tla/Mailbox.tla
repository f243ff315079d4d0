-------------------------------- MODULE Mailbox --------------------------------
(* What link.Run calls a latest-wins queue: a place for one document, where a  *)
(* newer document replaces one that was not taken yet.                         *)
EXTENDS Naturals

CONSTANTS Docs,   \* documents, numbered in the order they are submitted
          None

VARIABLES box,    \* the document waiting, or None
          taken   \* the last document taken, or None

vars == <<box, taken>>

Init == box = None /\ taken = None

Put == box' \in Docs /\ box' > box /\ box' > taken /\ UNCHANGED taken

Take ==
  /\ box # None
  /\ taken' = box /\ box' = None

\* The process ends: what was waiting is gone, and submitted again by its
\* successor's session.
Lose == box' = None /\ taken' = None

Next == Put \/ Take \/ Lose

Spec == Init /\ [][Next]_vars
===============================================================================
