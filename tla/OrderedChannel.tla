--------------------------- MODULE OrderedChannel ---------------------------
(***************************************************************************)
(* What a caller may rely on when the output of a command reaches it       *)
(* through a buffer and reconnecting streams: it receives the frames the   *)
(* command produced, each once and in order, and is told that the command  *)
(* ended only when it has received all of them.  It may give up at any     *)
(* time; the command does not notice.                                      *)
(***************************************************************************)
EXTENDS Naturals, Sequences, SequencesExt

CONSTANTS Call, IsLast(_)

VARIABLES sent, received, outcome

vars == <<sent, received, outcome>>

Ended(frames) == frames # <<>> /\ IsLast(frames[Len(frames)])

Init ==
    /\ sent = [c \in Call |-> <<>>]
    /\ received = [c \in Call |-> <<>>]
    /\ outcome = [c \in Call |-> "open"]

(* The command produces one or more frames, none after its last. *)
Send(c) ==
    /\ ~Ended(sent[c])
    /\ Len(sent'[c]) > Len(sent[c]) /\ IsPrefix(sent[c], sent'[c])
    /\ sent' = [sent EXCEPT ![c] = sent'[c]]
    /\ UNCHANGED <<received, outcome>>

Receive(c) ==
    /\ outcome[c] = "open" /\ Len(received[c]) < Len(sent[c])
    /\ received' = [received EXCEPT ![c] = Append(@, sent[c][Len(@) + 1])]
    /\ UNCHANGED <<sent, outcome>>

Complete(c) ==
    /\ outcome[c] = "open" /\ Ended(sent[c]) /\ received[c] = sent[c]
    /\ outcome' = [outcome EXCEPT ![c] = "exit"]
    /\ UNCHANGED <<sent, received>>

Fail(c) ==
    /\ outcome[c] = "open"
    /\ outcome' = [outcome EXCEPT ![c] = "failed"]
    /\ UNCHANGED <<sent, received>>

Next == \E c \in Call : Send(c) \/ Receive(c) \/ Complete(c) \/ Fail(c)

Spec == Init /\ [][Next]_vars
===========================================================================
