---------------------------- MODULE AudioStream ----------------------------
(***************************************************************************)
(* What the AHI backend promises to the sound layer, seen as a stream:     *)
(* samples are collected into fragments, complete fragments are handed to  *)
(* the driver in the order they were completed, each once, and a fragment  *)
(* keeps its memory until the one after it was handed over.                *)
(***************************************************************************)
EXTENDS Naturals, Sequences

CONSTANTS Frags, FragSize, Tag

VARIABLES
  partial,   \* the fragment that is being collected
  pending,   \* complete fragments the driver has not seen
  out        \* fragments handed over whose memory is still theirs

streamVars == <<partial, pending, out>>

StreamInit == partial = <<>> /\ pending = <<>> /\ out = <<>>

(* A chunk is accepted when a fragment is free to take it. *)
Put(chunk) ==
  /\ Len(out) + Len(pending) < Frags
  /\ Len(partial) + Len(chunk) <= FragSize
  /\ IF Len(partial) + Len(chunk) = FragSize
       THEN pending' = Append(pending, partial \o chunk) /\ partial' = <<>>
       ELSE partial' = partial \o chunk /\ pending' = pending
  /\ out' = out

Hand ==
  /\ pending # <<>> /\ Len(out) < 2
  /\ out' = Append(out, Head(pending)) /\ pending' = Tail(pending)
  /\ partial' = partial

Retire ==
  /\ Len(out) = 2 /\ out' = Tail(out)
  /\ UNCHANGED <<partial, pending>>

Reset == partial' = <<>> /\ pending' = <<>> /\ out' = <<>>

StreamNext ==
  \/ \E n \in 1 .. FragSize : \E chunk \in [1 .. n -> Tag] : Put(chunk)
  \/ Hand \/ Retire \/ Reset

StreamSpec == StreamInit /\ [][StreamNext]_streamVars
============================================================================
