--------------------------------- MODULE UsbNet ---------------------------------
(***************************************************************************)
(* Frames over USB: bulk transfers with their data toggle, the messages of *)
(* RNDIS put together from what the transfers bring, and frames sent; and  *)
(* the keyboard's reports, which come the same way.                        *)
(*                                                                         *)
(* A transfer is made of packets, whose handshakes may be lost.  The       *)
(* controller turns the toggle with every packet; the driver turns its own *)
(* copy, from which the next transfer starts, once for each transfer.      *)
(***************************************************************************)
EXTENDS Integers, Sequences, SequencesExt, Functions

CONSTANTS
    Streams,    \* what the device may have to send: sequences of messages
    Mps,        \* cells in a full packet of the endpoint
    Req,        \* cells asked for in a transfer, a number of full packets
    AccumSize,  \* sizeof(rndis_accum), in cells
    MaxChunks,  \* transfers in a poll
    TxFrames,   \* frames the stack sends: bounds the model
    TxPackets,  \* and how many packets one of them may take
    Reports,    \* sequences of keyboard reports; a report is a sequence of keys
    MaxFaults   \* things that go wrong, or out of step: bounds the model

VARIABLES
    part,      \* "in", "out" or "kbd": the endpoint followed; they share nothing
    stream,    \* messages of the device
    pending,   \* the device's cells that are still to be sent
    packet,    \* <<what it sends now>>, until it knows it was received
    devPid, inPid,  \* the device's toggle, and the driver's between transfers
    buf, packets,   \* cells and packets this transfer has brought
    accum,     \* rndis_accum
    chunks, pc,     \* transfers made in this poll; "idle", "read" or "parse"
    delivered, \* frames given to netif_rx_frame
    taken,     \* history: cells that came to the accumulator
    cuts, evens,    \* history: transfers broken off with cells in buf, and
               \* completed ones of an even number of packets
    overflowed,\* history: the accumulator was emptied to make room
    txLeft, txPid, txDevPid,        \* frames to send, toggles
    txOdd,     \* history: the last transfer succeeded, with an odd number of packets
    txLost,    \* history: txOdd when a frame was reported sent that the device
               \* did not take whole
    reports, nread, kbdPid, kbdDevPid, last, typed, \* reports, how many the device
               \* is rid of, toggles, last_report, keys injected
    faults

device == <<stream, pending, packet, devPid>>
told == <<taken, cuts, evens, overflowed>>
net  == <<device, inPid, buf, packets, accum, chunks, pc, delivered, told>>
tx   == <<txLeft, txPid, txDevPid, txOdd, txLost>>
kbd  == <<reports, nread, kbdPid, kbdDevPid, last, typed>>
vars == <<part, net, tx, kbd, faults>>

\* Data0 and Data1.
Flip(pid) == 1 - pid

\* A message is [type, off, frame, pad]; its cells are a header of type and
\* length, the offset and length of the data, and the frame, which may be
\* preceded and followed by padding.
Hdr == 2
Pkt == 4
Rep(n) == [i \in 1 .. n |-> 0]
CellsOf(m) == <<m.type, Pkt + m.lead + Len(m.frame) + m.pad>> \o
              <<m.off, Len(m.frame)>> \o Rep(m.lead) \o m.frame \o Rep(m.pad)
Cells(s) == FlattenSeq([i \in 1 .. Len(s) |-> CellsOf(s[i])])

Data == 1
FramesOf(s) == LET d == SelectSeq(s, LAMBDA m : m.type = Data)
               IN [i \in 1 .. Len(d) |-> d[i].frame]

Init ==
    /\ part \in {"in", "out", "kbd"}
    /\ stream \in IF part = "in" THEN Streams ELSE {<<>>} 
    /\ pending = Cells(stream) /\ packet = <<>>
    /\ devPid = 0 /\ inPid = 0 /\ buf = <<>> /\ packets = 0
    /\ accum = <<>> /\ chunks = 0 /\ pc = "idle" /\ delivered = <<>>
    /\ taken = 0 /\ cuts = 0 /\ evens = 0 /\ overflowed = FALSE
    /\ txLeft = TxFrames /\ txPid = 0 /\ txDevPid = 0 /\ txOdd = TRUE /\ txLost = {}
    /\ reports \in (IF part = "kbd" THEN Reports ELSE {<<>>}) /\ nread = 0 /\ kbdPid = 0 /\ kbdDevPid = 0 /\ last = <<>> /\ typed = <<>>
    /\ faults = 0

-----------------------------------------------------------------------------
(* Bulk IN.                                                                *)

usb_net_poll ==
    /\ part = "in" /\ pc = "idle" /\ pc' = "read" /\ chunks' = 0
    /\ UNCHANGED <<part, device, inPid, buf, packets, accum, delivered, told, tx, kbd, faults>>

\* Whether one more thing may go wrong.
MayFail == faults + cuts + evens < MaxFaults

\* The transfer ends without success: what it has brought is dropped.
Dropped ==
    /\ buf # <<>> => MayFail
    /\ buf' = <<>> /\ packets' = 0
    /\ cuts' = IF buf = <<>> THEN cuts ELSE cuts + 1
    /\ UNCHANGED <<inPid, accum, taken, evens, overflowed>>

\* NODATA: the controller waited in vain for a packet that completes the
\* transfer, or for any; or the poll's time or number of transfers is up.
NoMore ==
    /\ pc = "read" /\ pc' = "parse"
    /\ Dropped
    /\ UNCHANGED <<part, device, chunks, delivered, tx, kbd, faults>>

\* The transfer fails before the device is asked for a packet (XACTERR).
TransferError ==
    /\ pc = "read" /\ MayFail
    /\ faults' = faults + 1 /\ pc' = "idle"
    /\ Dropped
    /\ UNCHANGED <<part, device, chunks, delivered, tx, kbd>>

\* The toggle after n packets that began with pid.
PidAfter(n, pid) == IF n % 2 = 0 THEN pid ELSE Flip(pid)

\* Mutation: a transfer without data does not turn the toggle.
InPidAfter_Zlp(got) == IF got = <<>> THEN inPid ELSE Flip(inPid)

\* One flip, however many packets the transfer had.
InPidAfter(got) == Flip(inPid)

Overflows(got) == Len(accum) + Len(got) > AccumSize
Accumulated(got) == IF Overflows(got) THEN got ELSE accum \o got

\* A packet that is short, or the last one asked for, completes the transfer.
Received(cells) ==
    LET got == buf \o cells
    IN  IF Len(cells) < Mps \/ Len(got) = Req
        THEN /\ packets % 2 = 1 => MayFail
             /\ inPid' = InPidAfter(got)
             /\ accum' = Accumulated(got)
             /\ overflowed' = (overflowed \/ Overflows(got))
             /\ taken' = taken + Len(got)
             /\ evens' = IF packets % 2 = 1 THEN evens + 1 ELSE evens
             /\ buf' = <<>> /\ packets' = 0 /\ chunks' = chunks + 1
             /\ pc' = IF Len(got) < Req THEN "parse" ELSE "read"
             /\ cuts' = cuts
        ELSE /\ buf' = got /\ packets' = packets + 1
             /\ UNCHANGED <<inPid, accum, taken, cuts, evens, overflowed, chunks, pc>>

\* A packet of a transfer: it is taken when the device's toggle is the one the
\* controller expects, and ends the transfer with an error (DATATGLERR) when
\* it is not; either way the device is told, unless the handshake is lost, and
\* then it sends the packet once more.
Packet ==
    /\ pc = "read" /\ chunks < MaxChunks
    /\ \E k \in 0 .. Mps, heard \in BOOLEAN :
         /\ IF packet # <<>> THEN k = Len(packet[1].cells)
            ELSE k <= Len(pending) /\ (k = 0 => pending # <<>> \/ buf # <<>>)
         /\ ~heard => MayFail
         /\ faults' = IF heard THEN faults ELSE faults + 1
         /\ LET now == IF packet # <<>> THEN packet[1]
                       ELSE [cells |-> SubSeq(pending, 1, k), had |-> FALSE]
                same == devPid = PidAfter(packets, inPid)
            IN /\ packet' = IF heard THEN <<>> ELSE <<[now EXCEPT !.had = @ \/ same]>>
               /\ pending' = IF packet # <<>> THEN pending ELSE SubSeq(pending, k + 1, Len(pending))
               /\ devPid' = IF heard THEN Flip(devPid) ELSE devPid
               /\ \/ same /\ Received(now.cells)
                  \/ ~same /\ Dropped /\ pc' = "idle" /\ chunks' = chunks
    /\ UNCHANGED <<part, stream, delivered, tx, kbd>>

\* An IPv6 frame begins with V6, the other frames do not.
V6 == 6
looks_like_ipv6_eth_frame(f) == f # <<>> /\ f[1] = V6

\* The frame of the message at o: at the offset counted from the offset's
\* field, or from the message, whichever is in it and looks like a frame.
FrameAt(a, o) ==
    LET len == a[o + 2]  doff == a[o + 3]  dlen == a[o + 4]
        At(c) == SubSeq(a, o + c + 1, o + c + dlen)
        c1 == Hdr + doff  c2 == doff
        In(c) == c + dlen <= len
    IN IF In(c1) /\ looks_like_ipv6_eth_frame(At(c1)) THEN <<At(c1)>>
       ELSE IF In(c2) /\ looks_like_ipv6_eth_frame(At(c2)) THEN <<At(c2)>>
       ELSE IF In(c1) THEN <<At(c1)>> ELSE IF In(c2) THEN <<At(c2)>> ELSE <<>>

\* The parser's loop: the frames from o on, and where it stops.
Parsed(a) ==
    LET n == Len(a)
        p[o \in 0 .. n + AccumSize] ==
          IF o + Hdr > n THEN [frames |-> <<>>, off |-> o]
          ELSE LET type == a[o + 1]  len == a[o + 2]
               IN IF len < Hdr \/ len > AccumSize THEN p[o + 1]
                  ELSE IF len > n - o THEN [frames |-> <<>>, off |-> o]
                  ELSE IF type # Data THEN p[o + len]
                  ELSE IF len < Pkt THEN p[o + 1]
                  ELSE [p[o + len] EXCEPT !.frames = FrameAt(a, o) \o @]
    IN p[0]

\* Parse what is complete, keep the rest, and poll on or leave it.
Parse ==
    /\ pc = "parse"
    /\ LET p == Parsed(accum)
       IN /\ delivered' = delivered \o p.frames
          /\ accum' = SubSeq(accum, p.off + 1, Len(accum))
    /\ pc' \in {"idle", "read"} /\ chunks' = 0
    /\ UNCHANGED <<part, device, inPid, buf, packets, told, tx, kbd, faults>>

-----------------------------------------------------------------------------
(* Bulk OUT.                                                               *)

TxPidAfter(ok) == IF ok THEN Flip(txPid) ELSE txPid

\* usbnet_tx_frame: n packets, of which a transfer that fails has sent some.
\* A device that sees a toggle it does not expect takes the packet for a
\* repetition, and says that it has it; so it can only miss the first one.
usbnet_tx_frame ==
    /\ part = "out" /\ txLeft > 0 /\ txLeft' = txLeft - 1
    /\ \E n \in 1 .. TxPackets : \E sent \in 0 .. n, ok \in BOOLEAN :
         /\ IF ok THEN sent = n /\ faults' = faults
            ELSE faults < MaxFaults /\ faults' = faults + 1
         /\ LET whole == txPid = txDevPid
                got   == IF whole \/ sent = 0 THEN sent ELSE sent - 1
            IN /\ txDevPid' = PidAfter(got, txDevPid)
               /\ txLost' = IF ok /\ ~whole THEN txLost \cup {txOdd} ELSE txLost
         /\ txPid' = TxPidAfter(ok)
         /\ txOdd' = (ok /\ n % 2 = 1)
    /\ UNCHANGED <<part, net, kbd>>

-----------------------------------------------------------------------------
(* The keyboard.                                                           *)

\* Mutation: every key of a report is typed.
Already_Never(key) == FALSE

Already(key) == key \in Range(last)

usb_kbd_poll ==
    /\ part = "kbd" /\ nread < Len(reports)
    /\ \E heard \in BOOLEAN :
         /\ ~heard => faults < MaxFaults
         /\ faults' = IF heard THEN faults ELSE faults + 1
         /\ nread' = IF heard THEN nread + 1 ELSE nread
         /\ kbdDevPid' = IF heard THEN Flip(kbdDevPid) ELSE kbdDevPid
    /\ LET report == reports[nread + 1]
       IN IF kbdPid = kbdDevPid
          THEN /\ kbdPid' = Flip(kbdPid)
               /\ typed' = typed \o SelectSeq(report, LAMBDA k : ~Already(k))
               /\ last' = report
          ELSE UNCHANGED <<kbdPid, typed, last>>
    /\ UNCHANGED <<part, reports, net, tx>>

Next == usb_net_poll \/ NoMore \/ Packet \/ TransferError \/ Parse \/ usbnet_tx_frame \/ usb_kbd_poll
Spec == Init /\ [][Next]_vars

-----------------------------------------------------------------------------
(* Properties.                                                             *)

\* What the host has still to get of what the device has to send.
Coming == IF packet # <<>> /\ ~packet[1].had THEN packet[1].cells \o pending ELSE pending

\* Cells that will never come; less than none when some came twice.
Missing == Len(Cells(stream)) - Len(Coming) - Len(buf) - taken

\* However the device cuts its messages into packets and transfers, whatever
\* handshakes are lost and whenever a poll leaves off, the frames given to the
\* stack and those still to be got are the device's frames, each once and in
\* order, as long as no transfer was broken off half way or had an even number
\* of packets, which puts the toggles out of step, and the accumulator did not
\* run over.  And what that costs is bounded, the two ends coming back in step
\* by themselves: a transfer broken off costs no more than a whole one
\* brings, the packet out of step after it included, and an even one costs one
\* packet or repeats one.
UsbFramesIntact ==
    /\ cuts = 0 /\ evens = 0 /\ ~overflowed =>
         delivered \o Parsed(accum \o buf \o Coming).frames = FramesOf(stream)
    /\ - evens * Mps <= Missing /\ Missing <= cuts * Req + evens * Mps

\* A frame that is reported sent arrives whole, unless the transfer before it
\* failed or had an even number of packets.
SentArrives == TRUE \notin txLost

\* A key is typed once each time it is pressed, not once for each report it is
\* in, though reports are repeated when their handshake is lost.
KeyTypedOnce ==
    LET polled == IF kbdPid = kbdDevPid THEN nread ELSE nread + 1
        Before(i) == IF i = 1 THEN {} ELSE Range(reports[i - 1])
    IN typed = FlattenSeq([i \in 1 .. polled |-> SelectSeq(reports[i], LAMBDA k : k \notin Before(i))])
=============================================================================
