------------------------------- MODULE XLink --------------------------------
(***************************************************************************)
(* What a channel of src/xnet/xmsger.c promises to the threads above it:   *)
(* the messages of a side reach the other side in order, each once, and a  *)
(* message is handed back to its sender only after that.  XChannel is      *)
(* shown to implement it, and XLio is built on it.                         *)
(***************************************************************************)
EXTENDS Integers, Sequences, SequencesExt

CONSTANT Sides

VARIABLES
  said,     \* said[e]: the messages side e gave to its channel
  heard,    \* heard[e]: those the other side was given
  back      \* back[e]: how many of them were handed back to e

lvars == <<said, heard, back>>

LInit ==
  /\ said = [e \in Sides |-> <<>>]
  /\ heard = [e \in Sides |-> <<>>]
  /\ back = [e \in Sides |-> 0]

\* xmsger_send: the messages ms are given to the channel.
Say(e, ms) ==
  /\ said' = [said EXCEPT ![e] = @ \o ms]
  /\ UNCHANGED <<heard, back>>

\* on_message_from_peer: the other side gets the next message of e.
Hear(e) ==
  /\ Len(heard[e]) < Len(said[e])
  /\ heard' = [heard EXCEPT ![e] = Append(@, said[e][Len(@) + 1])]
  /\ UNCHANGED <<said, back>>

\* on_message_to_peer: side e gets its oldest message back.
Back(e) ==
  /\ back[e] < Len(heard[e])
  /\ back' = [back EXCEPT ![e] = @ + 1]
  /\ UNCHANGED <<said, heard>>

\* One packet or one call may do several of these things at once.
LNext ==
  \A e \in Sides :
    /\ IsPrefix(said[e], said'[e])
    /\ IsPrefix(heard[e], heard'[e]) /\ IsPrefix(heard'[e], said'[e])
    /\ back[e] <= back'[e] /\ back'[e] <= Len(heard'[e])

LSpec == LInit /\ [][LNext]_lvars
=============================================================================
