----------------------------- MODULE ByteStream -----------------------------
(* What the tunnel promises of every body, in either direction, whatever        *)
(* carries it: the chunks reach the reader in the order they were produced, each *)
(* once; none arrives after the body ended; and the receiver is never asked to  *)
(* hold more than Window bytes the reader has not accepted.                     *)
EXTENDS Integers, Sequences, SequencesExt

CONSTANTS
    Streams,   \* stream ids
    Body,      \* Body[s]: the sizes of the chunks of s
    Window     \* stream credit, in bytes

VARIABLES
    sent,      \* chunks of the stream sent so far
    accepted,  \* chunk numbers the reader accepted, in order
    ended      \* streams whose body ended or was aborted

vars == <<sent, accepted, ended>>

\* Bytes of the first n chunks.
Prefix(s, n) == SumFunctionOnSet(Body[s], 1..n)

Init == /\ sent = [s \in Streams |-> 0]
        /\ accepted = [s \in Streams |-> <<>>]
        /\ ended = {}

Send(s) ==
    /\ sent[s] < Len(Body[s])
    /\ Prefix(s, sent[s] + 1) - Prefix(s, Len(accepted[s])) <= Window
    /\ sent' = [sent EXCEPT ![s] = @ + 1]
    /\ UNCHANGED <<accepted, ended>>

\* One step may accept several chunks, and end the stream with them.
Accept(s, n) ==
    /\ s \notin ended
    /\ n \in 1..(sent[s] - Len(accepted[s]))
    /\ accepted' = [accepted EXCEPT ![s] =
                       @ \o [i \in 1..n |-> Len(@) + i - 1]]
    /\ ended' \in {ended, ended \cup {s}}
    /\ UNCHANGED sent

\* A failing connection ends several streams in one step.
End(S) ==
    /\ ended' = ended \cup S
    /\ UNCHANGED <<sent, accepted>>

Next == \/ \E s \in Streams : Send(s) \/ \E n \in 1..Len(Body[s]) : Accept(s, n)
        \/ \E S \in SUBSET Streams : End(S)

Spec == Init /\ [][Next]_vars
=============================================================================
