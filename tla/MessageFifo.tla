------------------------------ MODULE MessageFifo ------------------------------
(***************************************************************************)
(* What a wMessageQueue (winpr/include/winpr/collections.h) promises its   *)
(* producers and its worker, without saying how: messages come out in the  *)
(* order in which they went in, none is lost, invented or handed over      *)
(* twice, nothing goes in after the quit message, and MessageQueue_Clear   *)
(* makes the queue as good as new.                                         *)
(***************************************************************************)
EXTENDS Sequences

CONSTANTS Messages,  \* the messages of the producers
          Quit       \* the message with the id WMQ_QUIT

VARIABLES contents,  \* the messages in the queue
          closed,    \* the quit message was posted
          out        \* the message last copied to the worker

vars == <<contents, closed, out>>

Init == contents = <<>> /\ closed = FALSE /\ out \notin Messages \cup {Quit}

Put(m) ==
  /\ ~closed
  /\ contents' = Append(contents, m)
  /\ closed' = (m = Quit)
  /\ UNCHANGED out

Take ==
  /\ contents # <<>>
  /\ out' = Head(contents)
  /\ contents' = Tail(contents)
  /\ UNCHANGED closed

Look ==
  /\ contents # <<>>
  /\ out' = Head(contents)
  /\ UNCHANGED <<contents, closed>>

Clear ==
  /\ contents' = <<>>
  /\ closed' = FALSE
  /\ UNCHANGED out

Next ==
  \/ Take \/ Look \/ Clear
  \/ \E m \in Messages \cup {Quit} : Put(m)

Spec == Init /\ [][Next]_vars
=============================================================================
