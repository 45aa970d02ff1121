------------------------------ MODULE SerClient ------------------------------
(***************************************************************************)
(* How the agent takes a client's byte stream apart: serclt_recvdata in    *)
(* src/agent/serclient.c, called by _sernet_readcb.                        *)
(*                                                                         *)
(* A client sends init packets, which name the device it wants to talk to, *)
(* and command packets, which are passed on to that device.  The socket is *)
(* a stream: a read returns any number of bytes.  The agent does not frame *)
(* the stream; it looks for the magic of an init packet at rd_off and      *)
(* forwards all that follows as one piece.                                 *)
(*                                                                         *)
(* A byte is a cell: the number of its packet, its index in it, the device *)
(* the packet names (None for a command), and what the byte is, as far as  *)
(* the magic 0xFCFA goes: its first byte, its second, or another.  The     *)
(* agent only sees what a byte is; the rest serves the properties.         *)
(* Lengths are parameters, so that small ones can be checked; in the code  *)
(* CmdHead is 8, AgentHead 9, BufSize 204800 and Word 2^32.                *)
(***************************************************************************)
EXTENDS Integers, SequencesExt

CONSTANTS
    Devices,    \* addresses an init packet can name
    Portless,   \* those of them with port 0
    None,       \* no device
    CmdHead,    \* CMD_PACKET_HEAD_LEN
    AgentHead,  \* AGENT_PACKET_HEAD_LEN
    CmdLens,    \* lengths of the command packets clients send
    BufSize,    \* SERCLT_RDBUFFER_SIZE
    Word,       \* rd_off and wr_off are unsigned integers below Word
    MaxPackets  \* bound: packets a client sends

ASSUME SerClientAssumption ==
    /\ None \notin Devices /\ Portless \subseteq Devices
    /\ CmdHead \in Nat /\ CmdHead >= 2 /\ AgentHead \in Nat /\ BufSize \in Nat /\ Word \in Nat
    /\ CmdHead < AgentHead /\ AgentHead <= BufSize /\ 2 * BufSize + AgentHead < Word
    /\ CmdLens \subseteq Nat /\ \A n \in CmdLens : n >= CmdHead
    /\ MaxPackets \in Nat

VARIABLES
    sent,     \* the cells the client has written, in order
    arrived,  \* how many of them are in the bufferevent or beyond
    taken,    \* how many of them bufferevent_read has returned
    blob,     \* data_blob
    wr_off,
    rd_off,
    dev,      \* devip and devport: the device registered last, or None
    pc,       \* "idle", or "parse" inside the loop of serclt_recvdata
    crashed,  \* memory outside of data_blob was read
    out       \* history: what was done with the cells, piece by piece

stream == <<sent, arrived>>
vars == <<sent, arrived, taken, blob, wr_off, rd_off, dev, pc, crashed, out>>

Packets == IF sent = <<>> THEN 0 ELSE sent[Len(sent)].msg
Zero == [msg |-> 0, i |-> 0, dev |-> None, byte |-> "other"]
Lower(m, n) == IF m < n THEN m ELSE n

\* wr_off - rd_off in unsigned arithmetic
Remaining == (wr_off - rd_off) % Word

\* The cells of data_blob from offset lo up to, not including, hi.
Cells(lo, hi) == [k \in 1 .. hi - lo |-> blob[lo + k - 1]]

-----------------------------------------------------------------------------
\* serclt_initialize
Init ==
    /\ sent = <<>>
    /\ arrived = 0
    /\ taken = 0
    /\ blob = [k \in 0 .. BufSize - 1 |-> Zero]
    /\ wr_off = 0
    /\ rd_off = 0
    /\ dev = None
    /\ pc = "idle"
    /\ crashed = FALSE
    /\ out = <<>>

-----------------------------------------------------------------------------
\* The client

\* The packet begins with its own magic: that of an init packet, or 0xBEEF.
\* at is where else in the packet stand the two bytes 0xFCFA.
Packet(d, len, at) ==
    LET starts == at \cup (IF d = None THEN {} ELSE {1})
    IN  [k \in 1 .. len |->
            [msg |-> Packets + 1, i |-> k, dev |-> d,
             byte |-> IF k \in starts THEN "lo" ELSE IF k - 1 \in starts THEN "hi" ELSE "other"]]

SendInit(d, at) ==
    /\ Packets < MaxPackets
    /\ sent' = sent \o Packet(d, AgentHead, at)
    /\ UNCHANGED <<arrived, taken, blob, wr_off, rd_off, dev, pc, crashed, out>>

SendCmd(len, at) ==
    /\ Packets < MaxPackets
    /\ sent' = sent \o Packet(None, len, at)
    /\ UNCHANGED <<arrived, taken, blob, wr_off, rd_off, dev, pc, crashed, out>>

-----------------------------------------------------------------------------
\* serclt_recvdata

\* n more bytes reach the bufferevent and its read callback runs.
\* bufferevent_read takes no more than fits behind wr_off; what does not fit
\* waits in the bufferevent for the next call.
Read(n) ==
    /\ pc = "idle" /\ ~ crashed
    /\ arrived + n <= Len(sent)
    /\ arrived' = arrived + n
    /\ LET space == BufSize - wr_off
           nread == Lower(space, arrived' - taken)
       IN  /\ blob' = [k \in 0 .. BufSize - 1 |->
                          IF k \in wr_off .. wr_off + nread - 1
                          THEN sent[taken + 1 + k - wr_off] ELSE blob[k]]
           /\ wr_off' = wr_off + nread
           /\ taken' = taken + nread
    /\ pc' = "parse"
    /\ UNCHANGED <<sent, rd_off, dev, crashed, out>>

\* The loop has a header to look at, inside data_blob.
More == pc = "parse" /\ ~ crashed /\ Remaining >= CmdHead
InBlob == rd_off + CmdHead <= BufSize
\* cmd_head->magic, the two bytes at rd_off whatever packet they belong to
AtMagic == InBlob /\ blob[rd_off].byte = "lo" /\ blob[rd_off + 1].byte = "hi"

\* What is taken for an init packet.  The loop only knows that CmdHead bytes
\* are there, not AgentHead.
Header == Cells(rd_off, Lower(rd_off + AgentHead, wr_off))

\* The address in the CmdHead bytes at rd_off: that of the init packet they
\* begin, or whatever other bytes say.
Named ==
    LET Begins(d) == \A k \in 0 .. CmdHead - 1 :
                        LET c == blob[rd_off + k]
                        IN  c.msg = blob[rd_off].msg /\ c.i = k + 1 /\ c.dev = d
    IN  {d \in Devices : Begins(d) \/ ~ \E e \in Devices : Begins(e)}

\* devport
HasPort == dev # None /\ dev \notin Portless

\* Mutant: rd_off moves one byte too far.
ParseInitTooFar ==
    /\ More
    /\ AtMagic
    /\ \E d \in Named :
           /\ dev' = d
           /\ out' = Append(out, [to |-> "register", dev |-> d, cells |-> Header])
    /\ rd_off' = rd_off + AgentHead + 1
    /\ UNCHANGED <<stream, taken, blob, wr_off, pc, crashed>>

\* Mutant: a client that is registered keeps its device.
ParseInitOnce ==
    /\ More
    /\ AtMagic
    /\ \E d \in Named :
           /\ dev' = IF dev = None THEN d ELSE dev
           /\ out' = Append(out, [to |-> "register", dev |-> d, cells |-> Header])
    /\ rd_off' = rd_off + AgentHead
    /\ UNCHANGED <<stream, taken, blob, wr_off, pc, crashed>>

\* Mutant: rd_off does not move.
ParseInitStays ==
    /\ More
    /\ AtMagic
    /\ \E d \in Named :
           /\ dev' = d
           /\ out' = <<[to |-> "register", dev |-> d, cells |-> <<>>]>>
    /\ UNCHANGED <<stream, taken, blob, wr_off, rd_off, pc, crashed>>

\* The bytes of an init packet's magic: the device they name is registered,
\* whatever came before.
ParseInit ==
    /\ More
    /\ AtMagic
    /\ \E d \in Named :
           /\ dev' = d
           /\ out' = Append(out, [to |-> "register", dev |-> d, cells |-> Header])
    /\ rd_off' = rd_off + AgentHead
    /\ UNCHANGED <<stream, taken, blob, wr_off, pc, crashed>>

Rest == Cells(rd_off, wr_off)

\* No port to send to: the whole buffer is dropped.
ParseRefuse ==
    /\ More
    /\ InBlob /\ ~ AtMagic
    /\ ~ HasPort
    /\ out' = Append(out, [to |-> "drop", dev |-> None, cells |-> Rest])
    /\ wr_off' = 0
    /\ rd_off' = 0
    /\ pc' = "idle"
    /\ UNCHANGED <<stream, taken, blob, dev, crashed>>

\* Mutant: the bytes forwarded are not taken out of data_blob.
ParseForwardKeeps ==
    /\ More
    /\ InBlob /\ ~ AtMagic
    /\ HasPort
    /\ Remaining <= BufSize
    /\ out' = Append(out, [to |-> "device", dev |-> dev, cells |-> Rest])
    /\ rd_off' = wr_off - 1
    /\ UNCHANGED <<stream, taken, blob, wr_off, dev, pc, crashed>>

\* Anything else goes to the device, everything up to wr_off in one piece.
ParseForward ==
    /\ More
    /\ InBlob /\ ~ AtMagic
    /\ HasPort
    /\ Remaining <= BufSize
    /\ out' = Append(out, [to |-> "device", dev |-> dev, cells |-> Rest])
    /\ wr_off' = 0
    /\ rd_off' = 0
    /\ UNCHANGED <<stream, taken, blob, dev, pc, crashed>>

\* rd_off is beyond wr_off: the difference wraps, and dump_file walks over
\* almost Word bytes; or the header itself lies outside of data_blob.
ParseOverrun ==
    /\ More
    /\ ~ AtMagic
    /\ ~ InBlob \/ (HasPort /\ Remaining > BufSize)
    /\ crashed' = TRUE
    /\ UNCHANGED <<stream, taken, blob, wr_off, rd_off, dev, pc, out>>

ParseEnd ==
    /\ pc = "parse" /\ ~ crashed
    /\ Remaining < CmdHead
    /\ pc' = "idle"
    /\ UNCHANGED <<stream, taken, blob, wr_off, rd_off, dev, crashed, out>>

-----------------------------------------------------------------------------
Parse == ParseInit \/ ParseRefuse \/ ParseForward \/ ParseOverrun \/ ParseEnd

Next ==
    \/ \E d \in Devices : \E at \in SUBSET (3 .. AgentHead - 1) : SendInit(d, at)
    \/ \E len \in CmdLens : \E at \in SUBSET (3 .. len - 1) : SendCmd(len, at)
    \/ \E n \in 1 .. Len(sent) : Read(n)
    \/ Parse

Spec == Init /\ [][Next]_vars

\* The service thread runs its callbacks, and bytes that were written arrive.
FairSpec == Spec /\ WF_vars(Parse) /\ WF_vars(\E n \in 1 .. Len(sent) : Read(n))

-----------------------------------------------------------------------------
Cell == [msg : 0 .. MaxPackets, i : Nat, dev : Devices \cup {None},
         byte : {"lo", "hi", "other"}]

TypeOK ==
    /\ sent \in Seq(Cell)
    /\ arrived \in 0 .. Len(sent)
    /\ taken \in 0 .. arrived
    /\ blob \in [0 .. BufSize - 1 -> Cell]
    /\ wr_off \in 0 .. BufSize
    /\ rd_off \in 0 .. BufSize + AgentHead
    /\ dev \in Devices \cup {None}
    /\ pc \in {"idle", "parse"}
    /\ crashed \in BOOLEAN
    /\ out \in Seq([to : {"register", "drop", "device"}, dev : Devices \cup {None},
                    cells : Seq(Cell)])

Overrun == crashed \/ rd_off > wr_off

\* Every byte the client sent is dealt with once and in the order sent: the
\* pieces registered, dropped and forwarded, and what waits in data_blob, put
\* together give back the bytes read.  An overrun does not lose or double any.
InOrder ==
    FlattenSeq([k \in 1 .. Len(out) |-> out[k].cells]) \o Cells(rd_off, wr_off)
        = SubSeq(sent, 1, taken)

\* rd_off only ever passes wr_off at the two bytes of the magic, with CmdHead
\* of the AgentHead bytes that are skipped there, and no more, read: any other
\* cutting of the stream is safe.
OverrunOnlyBySplitMagic ==
    Overrun => \E n \in CmdHead .. AgentHead - 1 :
                  /\ n <= taken
                  /\ sent[taken - n + 1].byte = "lo" /\ sent[taken - n + 2].byte = "hi"

\* The bytes registered last before piece k were not the beginning of an init
\* packet.
Misread(k) ==
    \E j \in 1 .. k - 1 :
        /\ out[j].to = "register"
        /\ ~ (/\ Len(out[j].cells) >= CmdHead
              /\ out[j].cells[1].dev # None /\ out[j].cells[1].i = 1)
        /\ \A l \in j + 1 .. k - 1 : out[l].to # "register"

InitsBefore(m) == {c \in ToSet(sent) : c.dev # None /\ c.i = 1 /\ c.msg < m}
Swallowed == {c \in UNION {ToSet(out[k].cells) : k \in {j \in DOMAIN out : out[j].to # "register"}} :
                  c.dev # None}

\* A command goes to the device of the last init packet its client sent
\* before it, but for two mistakes: that packet was itself taken for payload,
\* or payload was taken for an init packet and none was registered since.
AddressedToLatestInit ==
    \A k \in DOMAIN out : \A c \in ToSet(out[k].cells) :
        out[k].to = "device" /\ c.dev = None =>
            \/ Misread(k)
            \/ \E c0 \in InitsBefore(c.msg) :
                   /\ c0.msg = Max({e.msg : e \in InitsBefore(c.msg)})
                   /\ out[k].dev = c0.dev \/ c0 \in Swallowed

\* The loop of serclt_recvdata ends for every input.
CallbackReturns == (pc = "parse") ~> (pc = "idle" \/ crashed)

=============================================================================
