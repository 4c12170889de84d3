------------------------------ MODULE TransferLink ------------------------------
(***************************************************************************)
(* Transfers from one node to another one. The sender's Scatter splits     *)
(* them into frames, which the transmit task of the embassy driver queues, *)
(* drops at their deadline and hands to the controller. The bus loses and  *)
(* repeats frames; the controller sends those in its mailboxes in any      *)
(* order. The receiver's driver filters and reads their identifiers, and   *)
(* the session of the sender reassembles them with its Gather.             *)
(*                                                                         *)
(* Transfers 1 and 2 are two in a row of one port, transfer 3 is an urgent *)
(* message of another port, which comes later and preempts them.           *)
(***************************************************************************)
EXTENDS Scatter, EmbassyTx

CONSTANTS
    Cases,      (* the receiver's driver, the mtu, the header of transfers *)
                (* 1 and 2, and the lengths of the transfers               *)
    Urgent,     (* the header of transfer 3                                *)
    Deadlines,  (* the deadlines of the transfers                          *)
    Timeout,
    StrangeBits,        (* in which other senders' identifiers differ      *)
    MaxFaults   (* BOUND: how many frames are lost, repeated or strange    *)

Transfers == 1 .. 3

\* The identifiers of the frames, by their headers.
Headers == {c.header : c \in Cases} \cup {Urgent}
CanIds == [h \in Headers |-> MakeCanId(h)]

\* The receiver subscribes the port of transfers 1 and 2.
LoadFrameHeader(c, id) ==
    LET subjects == IF c.header.kind = "Message" THEN {c.header.port, None} ELSE {None}
        node     == c.header.destination
    IN  IF c.driver = "native" THEN NativeLoadFrameHeader(subjects, node, id)
                               ELSE EmbassyLoadFrameHeader(subjects, node, id)

\* The frame goes to the buffer of its port, and there to the session of its source.
\* The node drops services of other destinations.
IsOfSession(c, h) ==
    /\ h # None
    /\ [h EXCEPT !.priority = c.header.priority] = c.header

\* What TLC computes for the headers it is given, bit by bit: a header's priority is in
\* its identifier; and what differs from it in a strange bit at most has its priority,
\* unless the bit is of it, and is not taken for a message of the other port.
Altered(id) == {id} \cup {SymDiff(id, {bit}) : bit \in StrangeBits}
IsOwn(c, id) == IsOfSession(c, LoadFrameHeader(c, id))

\* The payloads there are, what the session's Gather knows of them, and what it makes of
\* these.
Payloads == [from : Nat, to : Nat, pad : Nat, crc : SUBSET (0 .. CrcLength - 1),
             crc_pad : Nat]
SessionParts == [of : Transfers, part : Payloads, data_length : Nat]
SessionTransfers == [id : Nat, priority : Nat, timestamp : Nat, parts : Seq(SessionParts)]

ASSUME LinkAssumption ==
    /\ NoPart \notin Payloads \cup SessionParts /\ None \notin SessionTransfers
    /\ Priorities \subseteq Nat /\ Priorities # {} /\ BoxCount \in Nat /\ MaxTime \in Nat
    /\ \A c \in Cases : /\ c.mtu \in {"Classic", "Fd"}
                        /\ c.lengths \in [Transfers -> Nat]
    /\ Deadlines \in [Transfers -> Nat] /\ Timeout \in Nat
    /\ \A h \in Headers :
           h.priority \in Priorities /\ DecodeCanIdPriority(CanIds[h]) = h.priority
    /\ \A c \in Cases :
           /\ \A id \in Altered(CanIds[Urgent]) : ~ IsOwn(c, id)
           /\ LoadFrameHeader(c, CanIds[c.header]) = c.header
           /\ \A bit \in StrangeBits :
                  LET id == SymDiff(CanIds[c.header], {bit})
                  IN  IsOwn(c, id) =>
                          LoadFrameHeader(c, id).priority
                              \in IF bit \in Priority THEN Nat ELSE {c.header.priority}

VARIABLES
    case,       (* a member of Cases                                       *)
    pushed,     (* the transfers the sender's buffers have                 *)
    scatter,    (* of each transfer                                        *)
    sent,       (* the Data of the frames of each transfer so far          *)
    gather, content,    (* the receiver's session                          *)
    arrived,    (* the frames of the sender that reached the session, with *)
                (* their times                                             *)
    delivered,  (* the transfers the session has completed                 *)
    faults,
    gone,       (* frames that were sent, and those that were dropped      *)
    preempted,  (* frames that have been taken out of a mailbox            *)
    overdue,    (* frames that were written after their deadline           *)
    strangers   (* what bits of their identifiers distinguished frames of  *)
                (* other senders that reached the session                  *)

linkVars == << case, pushed, scatter, sent, gather, content, arrived, delivered,
               faults, gone, preempted, overdue, strangers >>
allVars == << now, txVars, linkVars >>

G == INSTANCE Gather

HeaderOf(t) == IF t = 3 THEN Urgent ELSE case.header
LengthOf(t) == case.lengths[t]

\* A publisher counts its transfers, and starts again after the largest identifier.
MaxTransferId == 31
NextTransferId(id) == (id + 1) % (MaxTransferId + 1)

TransferIds == << MaxTransferId, NextTransferId(MaxTransferId), 0 >>

LinkInit ==
    /\ TxInit
    /\ case \in Cases
    /\ pushed = {1, 2}
    /\ scatter = [t \in Transfers |-> NewScatter(TransferIds[t], LengthOf(t))]
    /\ sent = [t \in Transfers |-> << >>]
    /\ gather = G!Default
    /\ content = << >>
    /\ arrived = << >>
    /\ delivered = << >>
    /\ faults = 0
    /\ gone = [transmitted |-> {}, expired |-> {}]
    /\ preempted = {}
    /\ overdue = {}
    /\ strangers = {}

-----------------------------------------------------------------------------
\* The urgent message is published.
Publish(t) ==
    /\ t \notin pushed
    /\ pushed' = pushed \cup {t}
    /\ UNCHANGED << now, txVars, case, scatter, sent, gather, content, arrived,
                    delivered, faults, gone, preempted, overdue, strangers >>

\* The transfers that link.pop can return a frame of: the first one of its priority.
Available ==
    {t \in pushed :
        /\ ~ IsExhausted(scatter[t])
        /\ HeaderOf(t).priority \in FetchMask
        /\ \A u \in 1 .. t - 1 :
            HeaderOf(u).priority = HeaderOf(t).priority => IsExhausted(scatter[u])}

\* What the transmit task knows of a frame, and which one it is.
RawFrame(t, index) ==
    [priority |-> HeaderOf(t).priority, deadline |-> Deadlines[t],
     id |-> CanIds[HeaderOf(t)], transfer |-> t, index |-> index]

FetchFrame(t) ==
    LET f == FetchFrameData(scatter[t], case.mtu)
    IN  /\ t \in Available
        /\ HeaderOf(t).priority = First({HeaderOf(u).priority : u \in Available})
        /\ Fetch(RawFrame(t, Len(sent[t]) + 1))
        /\ scatter' = [scatter EXCEPT ![t] = f.scatter]
        /\ sent' = [sent EXCEPT ![t] = Append(@, f.data)]
        /\ UNCHANGED << case, pushed, gather, content, arrived, delivered, faults,
                        gone, preempted, overdue, strangers >>

Queued == UNION {ToSet(frames[p]) : p \in Priorities}

ExpireFrames ==
    /\ Expire
    /\ gone' = [gone EXCEPT !.expired = @ \cup (Queued \ Queued')]
    /\ UNCHANGED << case, pushed, scatter, sent, gather, content, arrived,
                    delivered, faults, preempted, overdue, strangers >>

\* The transmit task polls the link before the controller.
WriteFrame ==
    /\ Available = {}
    /\ Write
    /\ preempted' = preempted \cup (boxes \ boxes')
    /\ overdue' = overdue \cup {f \in boxes' \ boxes : now > f.deadline}
    /\ UNCHANGED << case, pushed, scatter, sent, gather, content, arrived,
                    delivered, faults, gone, strangers >>

-----------------------------------------------------------------------------
\* What the session's Gather is told of a frame.
Received(f, h) ==
    LET d == sent[f.transfer][f.index]
        length == ToDataLength(MakeDlc(d.length), case.mtu = "Fd")
    IN  [data |-> length > 0, transfer_id |-> d.transfer_id, sot |-> d.sot,
         eot |-> d.eot, toggle |-> d.toggle, priority |-> h.priority,
         malformed |-> ~ d.eot /\ length \notin {8, 64},
         part |-> IF d.part = NoPart THEN NoPart
                  ELSE [of |-> f.transfer, part |-> d.part,
                        data_length |-> LengthOf(f.transfer)]]

Arrive(f, h) ==
    LET o == G!PushFrame(gather, content, Received(f, h), now)
    IN  /\ gather' = o.gather
        /\ content' = o.buffer
        /\ delivered' = IF o.transfer = None THEN delivered
                                             ELSE Append(delivered, o.transfer)
        /\ arrived' = Append(arrived, [transfer |-> f.transfer, index |-> f.index,
                                       time |-> now])

Miss == UNCHANGED << gather, content, delivered, arrived >>

Deliver(f, id) ==
    LET h == LoadFrameHeader(case, id)
    IN  IF IsOfSession(case, h) THEN Arrive(f, h) ELSE Miss

\* A pending frame is sent. The receiver may miss it, and the controller may take it
\* for lost and send it again.
Transmit(f) ==
    /\ \/ boxes' = boxes \ {f} /\ Deliver(f, f.id) /\ UNCHANGED faults
       \/ /\ faults < MaxFaults  \* BOUND
          /\ boxes' = boxes \ {f} /\ Miss /\ faults' = faults + 1
       \/ /\ faults < MaxFaults  \* BOUND
          /\ boxes' = boxes /\ Deliver(f, f.id) /\ faults' = faults + 1
    /\ gone' = [gone EXCEPT !.transmitted = @ \cup (boxes \ boxes')]
    /\ UNCHANGED << case, pushed, scatter, sent, frames, deadlines, now, panicked,
                    preempted, overdue, strangers >>

\* Another station sends a frame whose identifier differs in a bit.
Strange(f, bit) ==
    LET id == SymDiff(f.id, {bit})
    IN  /\ faults < MaxFaults  \* BOUND
        /\ faults' = faults + 1
        /\ Deliver(f, id)
        /\ strangers' = IF IsOfSession(case, LoadFrameHeader(case, id))
                        THEN strangers \cup {bit} ELSE strangers
        /\ UNCHANGED << now, txVars, case, pushed, scatter, sent, gone, preempted,
                        overdue >>

TickLink == Tick /\ UNCHANGED linkVars

LinkNext ==
    \/ \E t \in Transfers : Publish(t)
    \/ \E t \in Transfers : FetchFrame(t)
    \/ ExpireFrames
    \/ WriteFrame
    \/ \E f \in boxes : Transmit(f)
    \/ \E f \in boxes, bit \in StrangeBits : Strange(f, bit)
    \/ TickLink

LinkSpec == LinkInit /\ [][LinkNext]_allVars

-----------------------------------------------------------------------------
\* A frame that the transmit task has fetched is in exactly one place: in its queue, in a
\* mailbox, sent, or dropped. Preemption neither loses nor doubles it, and no queue ever
\* overflows, or is empty when one of its frames expires (TxRunner::run). Each frame fits
\* a data length of CAN, and no padding follows the CRC (scatter.rs, frame.rs).
EachFrameInOnePlace ==
    LET places == << Queued, boxes, gone.transmitted, gone.expired >>
    IN  /\ ~ panicked
        /\ \A t \in Transfers :
              /\ ~ FetchFrameData(scatter[t], case.mtu).panicked
              /\ \A i \in DOMAIN sent[t] : IsDataLength(sent[t][i].length)
        /\ \A p \in Priorities : IsInjective(frames[p])
        /\ \A p, q \in Priorities :
                p # q => ToSet(frames[p]) \cap ToSet(frames[q]) = {}
        /\ \A i, j \in DOMAIN places : i # j => places[i] \cap places[j] = {}
        /\ {<< f.transfer, f.index >> : f \in UNION ToSet(places)}
            = UNION {{t} \X DOMAIN sent[t] : t \in Transfers}

\* A frame is dropped only after its deadline; and only a frame that was preempted, which
\* lost its deadline with it, is given to the controller after it.
LateFramesWerePreempted ==
    /\ overdue \subseteq preempted
    /\ \A f \in gone.expired : f.deadline < now

\* A transfer the session completes is one that was sent, with all of its data, its
\* transfer identifier and, unless it came from elsewhere, its priority; its timestamp is
\* the time its first frame arrived.
DeliveredWasSent ==
    \A i \in DOMAIN delivered :
        \E t \in {1, 2} :
            LET d == delivered[i]
            IN  /\ d.id = TransferIds[t]
                /\ strangers \cap Priority = {} => d.priority = case.header.priority
                /\ [transfer |-> t, index |-> 1, time |-> d.timestamp] \in ToSet(arrived)
                /\ \A j \in DOMAIN d.parts : d.parts[j].of = t
                /\ IF d.parts = << >> THEN LengthOf(t) = 0
                   ELSE /\ d.parts[1].part.from = 0
                        /\ d.parts[Len(d.parts)].part.to = LengthOf(t)
                /\ \A j \in DOMAIN d.parts \ {1} :
                    d.parts[j].part.from = d.parts[j - 1].part.to

\* The frames i to j that arrived are all those of t, in order; frames may be repeated.
IsRun(t, i, j) ==
    /\ arrived[i].index = 1
    /\ arrived[j].index = Len(sent[t])
    /\ \A k \in i .. j : arrived[k].transfer = t
    /\ \A k \in i + 1 .. j : arrived[k].index \in {arrived[k - 1].index,
                                                   arrived[k - 1].index + 1}

\* A transfer whose frames arrive one after the other, within the timeout, is delivered,
\* whatever arrived before: also frames of it that came in the wrong order, or the rest
\* of the transfer before it.
UndisturbedIsDelivered ==
    \A t \in {1, 2} :
        \A i, j \in DOMAIN arrived :
            (/\ i <= j /\ IsExhausted(scatter[t])
             /\ IsRun(t, i, j)
             /\ arrived[j].time <= arrived[i].time + Timeout)
            => \E k \in DOMAIN delivered : delivered[k].id = TransferIds[t]

\* What another station sends reaches the session only if its identifier differs from the
\* sender's in the three bits of the priority, or in the two bits of messages that have
\* no meaning (format.rs).
OnlyOwnFramesEnter == strangers \subseteq {21, 22, 26, 27, 28}

=============================================================================
