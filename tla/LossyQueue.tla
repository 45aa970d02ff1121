------------------------------ MODULE LossyQueue ------------------------------
(***************************************************************************)
(* What the read buffer of a connection promises, with no cells, offsets   *)
(* and headers: a queue of packets that may lose some.  A packet is taken  *)
(* once, and only when each packet sent before it has been taken or is     *)
(* lost, so nothing is overtaken, repeated or left behind in silence.      *)
(* Packets are lost when they are hurt, with the connection or the buffer, *)
(* and behind those that are: a stream of whole packets loses nothing.     *)
(* ReadBuf is shown to implement this.                                     *)
(***************************************************************************)
EXTENDS Naturals, Sequences

VARIABLES
    sent,   \* the packets are 1 .. sent
    taken,  \* those taken out, in that order
    hurt,   \* those of which a part is missing or wrong
    lost    \* those, and others that they took with them

vars == <<sent, taken, hurt, lost>>

Init == sent = 0 /\ taken = <<>> /\ hurt = {} /\ lost = {}

TakenOf(s) == {s[k] : k \in 1 .. Len(s)}

-----------------------------------------------------------------------------
Send ==
    /\ sent' = sent + 1
    /\ \E wrong \in SUBSET {sent + 1} : hurt' = hurt \cup wrong /\ lost' = lost \cup wrong
    /\ UNCHANGED taken

Hurt ==
    /\ \E some \in SUBSET (1 .. sent) : hurt' = hurt \cup some /\ lost' = lost \cup some
    /\ UNCHANGED <<sent, taken>>

\* Packets are lost because of others.
Follow == \E some \in SUBSET (1 .. sent) : (some # {} => hurt # {}) /\ lost' = lost \cup some

Lose ==
    /\ Follow
    /\ UNCHANGED <<sent, taken, hurt>>

Take(p) ==
    /\ \A q \in TakenOf(taken) : q < p
    /\ Follow
    /\ \A q \in 1 .. p - 1 : q \in TakenOf(taken) \cup lost'
    /\ taken' = Append(taken, p)
    /\ UNCHANGED <<sent, hurt>>

Next == Send \/ Hurt \/ Lose \/ \E p \in 1 .. sent : Take(p)

Spec == Init /\ [][Next]_vars

=============================================================================
