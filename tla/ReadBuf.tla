------------------------------- MODULE ReadBuf -------------------------------
(***************************************************************************)
(* The read buffer of a connection: netcom_readcb and netcom_find_header   *)
(* of l0006-0/netcom.c, the packet operations of netcmd.c, the macros of   *)
(* l0001-0/include/circ_buf.h.                                             *)
(*                                                                         *)
(* The peer sends packets; the event loop reads them in pieces of any size *)
(* behind wr_off and takes packets apart from rd1_off on.  A command       *)
(* packet is handed to the waiting command (module NetCmd) and cut out of  *)
(* the buffer.  A stream packet stays: rd1_off moves behind it, and a      *)
(* consumer in another thread works on what lies between rd2_off and       *)
(* rd1_off.  Near the end of the buffer the callback moves what is not yet *)
(* taken apart to the start, leaves the old rd1_off in rd1_end and lets    *)
(* the consumer turn there.                                                *)
(*                                                                         *)
(* The unit is a cell, a part of a header: HeadLen cells make the 8 bytes  *)
(* of l0006_netcmd_packet.  A cell knows its packet and its place in it,   *)
(* which is what the magic and the CRC tell: a header or a stream packet   *)
(* is recognised if and only if all of its cells are there, in order.  The *)
(* body of a SAVECONF packet has no checksum.  wr_off is rd1_off plus the  *)
(* cells pending.                                                          *)
(*                                                                         *)
(* Parsing holds the list lock, which netcom_stop and netcom_start take,   *)
(* and before it the callback waits for that lock.  What it does before,   *)
(* the turn, the drops and the reset, it does without the lock, so all of  *)
(* that may fall between the two accesses of netcom_stop.  Each stretch of *)
(* the callback is one step nevertheless: whatever comes into the middle   *)
(* of it leaves the same offsets as coming before or after it.             *)
(*                                                                         *)
(* Out of the model: stream packets that declare fewer bytes than a header *)
(* and its checksum, whose CRC would run over other memory; statistics and *)
(* timestamps.                                                             *)
(***************************************************************************)
EXTENDS Integers, SequencesExt

CONSTANTS
    HeadLen,      \* L0006_NETCMD_HEADER_SIZE
    ExLen,        \* L0006_NETCMD_EX_HEADER_SIZE, of the SAVECONF packets
    StreamLen,    \* length of the stream packets the peer sends
    StreamMax,    \* L0006_STREAM_MAX_SIZE
    Half,         \* a third of NETCOM_RDBUFFER_SIZE, 0x100000: a power of two
    Margin,       \* NETCOM_RDBUFFER_FORCEREWIND_SIZE
    MaxPackets,   \* bound: packets sent
    MaxArriving,  \* bound: cells on their way when another packet is sent
    MaxFaults     \* bound: packets that are not good stream packets, losses of the
                  \* connection, stops of reception and errors of the consumer

ASSUME ReadBufAssumption ==
    /\ HeadLen \in Nat \ {0} /\ ExLen \in Nat /\ HeadLen < ExLen
    /\ StreamMax \in Nat /\ ExLen <= StreamMax /\ StreamLen \in HeadLen + 1 .. StreamMax
    /\ Margin \in Nat /\ StreamMax <= Margin
    /\ Half \in Nat /\ 2 * Margin <= Half
    /\ MaxPackets \in Nat /\ MaxArriving \in Nat /\ MaxFaults \in Nat

VARIABLES
    sent,        \* number of packets sent
    faults,      \* number of those that MaxFaults bounds
    arriving,    \* cells sent and not yet read from the bufferevent
    pend,        \* cells of the blob from rd1_off up to wr_off
    rd1_off, rd2_off, rd1_end,
    rx,          \* L0006_NETCOM_FLAGS_RX
    errorflag,
    pc,          \* the callback: "lock" waiting for the lock, "parse" inside of the
                 \* loop, with the lock, or "idle"
    saved,       \* the rd1_off that netcom_stop, which has the lock, has read, or -1
    backlog,     \* history: stream packets read and not yet consumed
    handled,     \* history: packets taken out by the loop, in that order
    broken,      \* history: packets of which a cell was thrown away unseen,
                 \* and stream packets too long to be one
    swallowed,   \* history: packets taken for the body of another
    skipped,     \* history: packets that begin where find_header does not look
    spun,        \* history: the loop has come round without any effect
    overrun,     \* history: unread cells have been overwritten
    late,        \* history: since netcom_stop read rd1_off the buffer has been reset
    torn         \* history: rd2_off is from before the last reset

link == <<sent, faults, arriving>>
ring == <<rd1_off, rd2_off, rd1_end, backlog>>
flags == <<rx, errorflag>>
stop == <<saved, late, torn>>
losing == <<broken, swallowed, skipped>>
vars == <<link, pend, ring, flags, pc, stop, handled, losing, spun, overrun>>

-----------------------------------------------------------------------------
\* circ_buf.h.  The macros assume that size is a power of two; 0x300000, three
\* times Half, is not.

Size == 3 * Half    \* NETCOM_RDBUFFER_SIZE

\* x & (Size - 1), which has the bits of Half - 1 and the one of 2 * Half
Masked(x) == (x % Half) + IF (x \div (2 * Half)) % 2 = 1 THEN 2 * Half ELSE 0

CIRC_SPACE(head, tail) == Masked(tail - (head + 1))

CIRC_SPACE_TO_END(head, tail) ==
    LET end == Size - 1 - head
        n == Masked(end + tail)
    IN  IF n <= end THEN n ELSE end + 1

wr_off == rd1_off + Len(pend)

-----------------------------------------------------------------------------
\* Packets

\* cmd: an acknowledgement.  ex: one of SAVECONF.  empty and long: stream
\* headers (ADDATA) with a length of zero, or of more than StreamMax.
Kinds == {"cmd", "ex", "stream", "empty", "long"}

\* l0006_netcmd_verifystream, l0006_netcmd_verifycmdpacket: 0 if it is none.
StreamLength(k) == [stream |-> StreamLen, long |-> StreamMax + 1,
                    empty |-> 0, cmd |-> 0, ex |-> 0][k]
CmdLength(k) == [cmd |-> HeadLen, ex |-> ExLen, stream |-> 0, long |-> 0, empty |-> 0][k]

WireLength(k) == [stream |-> StreamLen, ex |-> ExLen, cmd |-> HeadLen,
                  empty |-> HeadLen, long |-> HeadLen][k]

Cell == [pkt : Nat, kind : Kinds, at : Nat]
Wire(p, k) == [i \in 1 .. WireLength(k) |-> [pkt |-> p, kind |-> k, at |-> i]]

PacketsOf(s) == {c.pkt : c \in ToSet(s)}
Drop(s, n) == SubSeq(s, n + 1, Len(s))

\* The first n cells are those of one packet, from its start.
Whole(s, n) == /\ n <= Len(s)
               /\ \A i \in 1 .. n : s[i].pkt = s[1].pkt /\ s[i].at = i

\* l0006_netcmd_isvalidpacketheader
Valid(s) == Whole(s, HeadLen)

-----------------------------------------------------------------------------
Init ==
    /\ sent = 0
    /\ faults = 0
    /\ arriving = <<>>
    /\ pend = <<>>
    /\ rd1_off = 0 /\ rd2_off = 0 /\ rd1_end = 0
    /\ rx = FALSE
    /\ errorflag = FALSE
    /\ pc = "idle"
    /\ saved = -1 /\ late = FALSE /\ torn = FALSE
    /\ backlog = 0
    /\ handled = <<>>
    /\ broken = {} /\ swallowed = {} /\ skipped = {}
    /\ spun = FALSE
    /\ overrun = FALSE

-----------------------------------------------------------------------------
\* One more of the things MaxFaults bounds
Counted == faults < MaxFaults /\ faults' = faults + 1

\* The peer and the connection

Send(k) ==
    /\ sent < MaxPackets /\ Len(arriving) <= MaxArriving
    /\ IF k = "stream" THEN UNCHANGED faults ELSE Counted
    /\ sent' = sent + 1
    /\ arriving' = arriving \o Wire(sent + 1, k)
    /\ broken' = IF k = "long" THEN broken \cup {sent + 1} ELSE broken
    /\ UNCHANGED <<pend, ring, flags, pc, stop, handled, swallowed, skipped, spun, overrun>>

\* The connection is lost and made again (l0006_netcom_connect), which leaves
\* the read buffer as it is: what is pending stays in front of whatever the next
\* connection brings.
Reconnect ==
    /\ pc = "idle"
    /\ Counted
    /\ arriving' = <<>>
    /\ broken' = broken \cup PacketsOf(arriving)
    /\ UNCHANGED <<sent, pend, ring, flags, pc, stop, handled, swallowed, skipped, spun,
                   overrun>>

-----------------------------------------------------------------------------
\* The consumer and the controls of reception

Unread == IF rd2_off <= rd1_off THEN rd1_off - rd2_off ELSE rd1_end - rd2_off + rd1_off

\* The consumer is done with a packet, or turns to the start of the buffer.
\* What it makes of cells that were overwritten, or that were never there, is not
\* modelled, nor how it updates rd2_off: its code is elsewhere.
Consume ==
    /\ ~ overrun /\ ~ torn
    /\ rd2_off # rd1_off
    /\ IF rd2_off > rd1_off /\ rd2_off = rd1_end
       THEN rd2_off' = 0 /\ UNCHANGED backlog
       ELSE rd2_off' = rd2_off + StreamLen /\ backlog' = backlog - 1
    /\ UNCHANGED <<link, pend, rd1_off, rd1_end, flags, pc, stop, handled, losing, spun,
                   overrun>>

\* The consumer has found the data to be wrong.
SetError ==
    /\ ~ errorflag
    /\ Counted
    /\ errorflag' = TRUE
    /\ UNCHANGED <<sent, arriving, pend, ring, rx, pc, stop, handled, losing, spun, overrun>>

\* l0006_netcom_stop takes the lock and reads rd1_off ...
Stop ==
    /\ pc # "parse" /\ saved = -1 /\ rx
    /\ Counted
    /\ rx' = FALSE
    /\ saved' = rd1_off
    /\ late' = FALSE
    /\ UNCHANGED <<sent, arriving, pend, ring, errorflag, pc, handled, losing, spun, overrun,
                   torn>>

\* Mutant: the consumer's offset stays where it is.
StoppedKeepsUnread ==
    /\ saved # -1
    /\ backlog' = 0
    /\ saved' = -1
    /\ late' = FALSE
    /\ torn' = (torn \/ late)
    /\ UNCHANGED <<link, pend, rd1_off, rd2_off, rd1_end, flags, pc, handled, losing, spun,
                   overrun>>

\* ... and gives it to the consumer, who may go on in between.
Stopped ==
    /\ saved # -1
    /\ rd2_off' = saved
    /\ backlog' = 0
    /\ saved' = -1
    /\ late' = FALSE
    /\ torn' = (torn \/ late)
    /\ UNCHANGED <<link, pend, rd1_off, rd1_end, flags, pc, handled, losing, spun, overrun>>

\* l0006_netcom_start
Start ==
    /\ pc # "parse" /\ saved = -1 /\ ~ rx
    /\ rx' = TRUE
    /\ UNCHANGED <<link, pend, ring, errorflag, pc, stop, handled, losing, spun, overrun>>

-----------------------------------------------------------------------------
\* netcom_readcb: n cells have reached the bufferevent

\* evbuffer_drain
Drained(n) ==
    /\ arriving' = Drop(arriving, n)
    /\ pend' = <<>>
    /\ broken' = broken \cup PacketsOf(pend) \cup PacketsOf(SubSeq(arriving, 1, n))

\* Without the lock
ReadReset(n) ==
    /\ pc = "idle" /\ n <= Len(arriving)
    /\ errorflag
    /\ errorflag' = FALSE
    /\ rd1_off' = 0 /\ rd2_off' = 0 /\ rd1_end' = 0
    /\ backlog' = 0
    /\ Drained(n)
    /\ late' = (saved # -1)
    /\ torn' = FALSE
    /\ UNCHANGED <<sent, faults, rx, pc, saved, handled, swallowed, skipped, spun, overrun>>

\* Mutant: head and tail swapped.
Room_Swapped == CIRC_SPACE(rd2_off, wr_off)

AtEnd == wr_off > Size - Margin

Room == CIRC_SPACE(wr_off, rd2_off)

Full == Room = 0 \/ (AtEnd /\ Room <= Len(pend) + Margin)

ReadFull(n) ==
    /\ pc = "idle" /\ n <= Len(arriving)
    /\ ~ errorflag
    /\ Full
    /\ Drained(n)
    /\ UNCHANGED <<sent, faults, ring, flags, pc, stop, handled, swallowed, skipped, spun,
                   overrun>>

\* Where the cells pending start once the end of the buffer has been dealt with
Turned == IF AtEnd THEN 0 ELSE rd1_off

\* Mutant: up to the consumer, over the end of the buffer.
ToEnd_Space == CIRC_SPACE(Turned + Len(pend), rd2_off)

ToEnd == CIRC_SPACE_TO_END(Turned + Len(pend), rd2_off)

\* Mutant: what is read stays in the bufferevent.
ReadCopies(n) ==
    /\ pc = "idle" /\ n <= Len(arriving)
    /\ ~ errorflag
    /\ ~ Full
    /\ rd1_off' = Turned
    /\ rd1_end' = IF AtEnd THEN rd1_off ELSE rd1_end
    /\ pend' = pend \o SubSeq(arriving, 1, Min({n, ToEnd}))
    /\ pc' = "lock"
    /\ UNCHANGED <<link, rd2_off, backlog, flags, stop, handled, losing, spun, overrun>>

\* bufferevent_read, up to space_to_end
Read(n) ==
    /\ pc = "idle" /\ n <= Len(arriving)
    /\ ~ errorflag
    /\ ~ Full
    /\ rd1_off' = Turned
    /\ rd1_end' = IF AtEnd THEN rd1_off ELSE rd1_end
    /\ LET taken == Min({n, ToEnd})
       IN  /\ pend' = pend \o SubSeq(arriving, 1, taken)
           /\ arriving' = Drop(arriving, taken)
    /\ overrun' = (overrun \/ (Turned < rd2_off /\ Turned + Len(pend') >= rd2_off))
    /\ pc' = "lock"
    /\ UNCHANGED <<sent, faults, rd2_off, backlog, flags, stop, handled, losing, spun>>

\* The callback gets the lock.
Lock ==
    /\ pc = "lock" /\ saved = -1
    /\ pc' = "parse"
    /\ UNCHANGED <<link, pend, ring, flags, stop, handled, losing, spun, overrun>>

-----------------------------------------------------------------------------
\* The loop over the packets

\* The first n cells leave the buffer as the packet they begin with.
Take(n) ==
    /\ pend' = Drop(pend, n)
    /\ handled' = Append(handled, pend[1].pkt)
    /\ swallowed' = swallowed \cup (PacketsOf(SubSeq(pend, 1, n)) \ {pend[1].pkt})

\* Mutant: the search begins with the header that has just been refused.
Found_FromStart == {k \in 0 .. Len(pend) - HeadLen - 1 : Valid(Drop(pend, k))}

\* netcom_find_header(nc, packetheaderlength): offsets at which it finds one.
Found == {k \in HeadLen .. Len(pend) - HeadLen - 1 : Valid(Drop(pend, k))}

\* Mutant: nothing is kept if there is no header.
FindHeaderKeepsNothing ==
    /\ pend' = IF Found # {} THEN Drop(pend, Min(Found)) ELSE <<>>
    /\ pc' = IF Found # {} THEN "parse" ELSE "idle"
    /\ skipped' = skipped \cup {c.pkt : c \in {d \in ToSet(SubSeq(pend, 2, HeadLen)) : d.at = 1}}
    /\ UNCHANGED <<link, ring, flags, stop, handled, broken, swallowed, spun, overrun>>

\* It moves the cells from there on to rd1_off, or the last ones if it finds
\* none, and the loop ends.
FindHeader ==
    /\ pend' = Drop(pend, IF Found # {} THEN Min(Found) ELSE Max({HeadLen, Len(pend) - HeadLen}))
    /\ pc' = IF Found # {} THEN "parse" ELSE "idle"
    /\ skipped' = skipped \cup {c.pkt : c \in {d \in ToSet(SubSeq(pend, 2, HeadLen)) : d.at = 1}}
    /\ UNCHANGED <<link, ring, flags, stop, handled, broken, swallowed, spun, overrun>>

Parsing == pc = "parse" /\ Len(pend) >= HeadLen
AtHeader == Parsing /\ Valid(pend)
Declared == IF StreamLength(pend[1].kind) # 0
            THEN StreamLength(pend[1].kind) ELSE CmdLength(pend[1].kind)
AtStream == AtHeader /\ StreamLength(pend[1].kind) # 0
AtGoodStream == AtStream /\ Declared <= StreamMax

LoopEnds ==
    /\ pc' = "idle"
    /\ UNCHANGED <<link, pend, ring, flags, stop, handled, losing, spun, overrun>>

ParseInvalid == Parsing /\ ~ Valid(pend) /\ FindHeader

ParseTooLong == AtStream /\ ~ AtGoodStream /\ FindHeader

\* l0006_netcmd_readpacket: the CRC is that of the packet.
ParseStream ==
    /\ AtGoodStream /\ rx
    /\ Whole(pend, Declared)
    /\ Take(Declared)
    /\ rd1_off' = rd1_off + Declared
    /\ backlog' = backlog + 1
    /\ UNCHANGED <<link, rd2_off, rd1_end, flags, pc, stop, broken, skipped, spun, overrun>>

ParseStreamTorn ==
    /\ AtGoodStream /\ rx
    /\ Declared <= Len(pend) /\ ~ Whole(pend, Declared)
    /\ FindHeader

\* Reception is off: the packet is cut out, whatever its CRC.
ParseStreamOff ==
    /\ AtGoodStream /\ ~ rx
    /\ Declared <= Len(pend)
    /\ Take(Declared)
    /\ UNCHANGED <<link, ring, flags, pc, stop, broken, skipped, spun, overrun>>

ParseCmd ==
    /\ AtHeader /\ ~ AtStream
    /\ Declared # 0 /\ Declared <= Len(pend)
    /\ Take(Declared)
    /\ UNCHANGED <<link, ring, flags, pc, stop, broken, skipped, spun, overrun>>

\* Neither: a packet of length 0 is cut out.
ParseNothing ==
    /\ AtHeader /\ Declared = 0
    /\ spun' = TRUE
    /\ UNCHANGED <<link, pend, ring, flags, pc, stop, handled, losing, overrun>>

\* Mutant: a packet that ends where the cells end is not complete.
ParseIncompleteStrict ==
    /\ pc = "parse"
    /\ \/ Len(pend) < HeadLen
       \/ AtHeader /\ Declared <= StreamMax /\ Declared >= Len(pend)
    /\ LoopEnds

\* Not even a header is complete, or not the packet.
ParseIncomplete ==
    /\ pc = "parse"
    /\ \/ Len(pend) < HeadLen
       \/ AtHeader /\ Declared <= StreamMax /\ Declared > Len(pend)
    /\ LoopEnds

Parse == \/ ParseInvalid \/ ParseTooLong \/ ParseStream \/ ParseStreamTorn
         \/ ParseStreamOff \/ ParseCmd \/ ParseNothing \/ ParseIncomplete

-----------------------------------------------------------------------------
Next ==
    \/ \E k \in Kinds : Send(k)
    \/ Reconnect
    \/ Consume
    \/ SetError
    \/ Stop
    \/ Stopped
    \/ Start
    \/ \E n \in 1 .. Len(arriving) : ReadReset(n) \/ ReadFull(n) \/ Read(n)
    \/ Lock
    \/ Parse

Spec == Init /\ [][Next]_vars

\* The event loop's thread goes on with its callback.
FairSpec == Spec /\ WF_vars(Parse)

-----------------------------------------------------------------------------
\* Properties

TypeOK ==
    /\ sent \in 0 .. MaxPackets /\ faults \in 0 .. MaxFaults
    /\ arriving \in Seq(Cell) /\ pend \in Seq(Cell)
    /\ rd1_off \in 0 .. Size /\ rd2_off \in 0 .. Size /\ rd1_end \in 0 .. Size
    /\ wr_off <= Size
    /\ rx \in BOOLEAN /\ errorflag \in BOOLEAN
    /\ pc \in {"parse", "lock", "idle"}
    /\ saved \in {-1} \cup 0 .. Size /\ late \in BOOLEAN /\ torn \in BOOLEAN
    /\ backlog \in Nat
    /\ handled \in Seq(1 .. MaxPackets)
    /\ broken \subseteq 1 .. MaxPackets
    /\ swallowed \subseteq 1 .. MaxPackets
    /\ skipped \subseteq 1 .. MaxPackets
    /\ spun \in BOOLEAN /\ overrun \in BOOLEAN

\* What the loop takes out it takes out in the order it was sent, and nothing
\* twice, through drops, moves and reconnections (netcom.c:171-335).
InOrder == \A i, j \in 1 .. Len(handled) : i < j => handled[i] < handled[j]

\* A packet the loop has not taken out is still on its way, or there is a
\* reason why it was lost: cells were thrown away with the buffer or the
\* connection, an earlier packet that had lost its end took this one for its
\* own, or this one began where find_header does not look (netcom.c:28-63).
LossExplained ==
    \A p \in 1 .. sent :
        p \in ToSet(handled) \cup broken \cup swallowed \cup skipped
                \cup PacketsOf(pend) \cup PacketsOf(arriving)

\* As long as no cell was thrown away no packet is lost at all, and none waits
\* complete at the head of the buffer when the callback returns
\* (netcom.c:236-336).
NothingLost ==
    broken = {} =>
        /\ swallowed = {} /\ skipped = {}
        /\ (pc = "idle" /\ pend # <<>>) => ~ Whole(pend, Max({HeadLen, WireLength(pend[1].kind)}))

\* Whatever pieces the stream comes in, and however often the cells are moved,
\* dropped and searched, the buffer is a queue of packets: one is only taken out
\* when every packet sent before it has been, or is accounted for as lost, and
\* none comes back or is lost but for cells thrown away (netcom.c:156-336).
Queue == INSTANCE LossyQueue WITH
            taken <- handled, hurt <- broken, lost <- broken \cup swallowed \cup skipped

ImplementsLossyQueue == Queue!Spec

\* The consumer sees the stream packets put there for it and nothing else: what
\* lies between rd2_off and rd1_off, the turn at rd1_end counted in, is as many
\* whole packets as were read since, also when the callback turns while reception is
\* being stopped.  But a reset in the middle of a stop, which the lock does not keep
\* out, leaves the consumer with the offset of cells that are gone, until the buffer
\* is reset again (netcom.c:86-92, 171-183, 201-230, 262-277).
ConsumerInSync == ~ overrun /\ ~ torn => Unread = StreamLen * backlog

\* A consumer less than two thirds of the buffer behind, but for the ends the
\* turns leave unused, costs nobody anything: no read drops what is pending, and
\* none can reach what the consumer has not read, however much has arrived
\* (netcom.c:188-228).  Further behind, the macros of circ_buf.h give room
\* that is not there.
RoomForLaggard ==
    (pc = "idle" /\ ~ torn /\ Unread + Len(pend) <= 2 * (Half - Margin)) =>
        /\ ~ Full
        /\ Turned < rd2_off => Turned + Len(pend) + ToEnd < rd2_off

\* The callback returns, and lets go of the lock, unless it has met a header
\* that declares no bytes (netcom.c:236-336).
CallbackReturns == pc = "parse" ~> pc = "idle" \/ spun

=============================================================================
