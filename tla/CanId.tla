--------------------------------- MODULE CanId ---------------------------------
(***************************************************************************)
(* The 29 bit identifiers of CAN frames: how the drivers build them from a *)
(* frame's header (format.rs of both), how they filter and how they read   *)
(* them. An identifier, a mask and a pattern are the set of their bits     *)
(* that are one, so that | is \cup and & is \cap.                          *)
(***************************************************************************)
EXTENDS Common, Integers, FiniteSetsExt

Bit == 0 .. 28

Field(offset, width) == offset .. offset + width - 1

\* A value in its place, and the value of a place.
Bits(value, field) == {b \in field : (value \div 2 ^ (b - Min(field))) % 2 = 1}
Value(id, field) == MapThenSumSet(LAMBDA b : 2 ^ (b - Min(field)), id \cap field)

Priority    == Field(26, 3)
Source      == Field(0, 7)
Subject     == Field(8, 13)
Service     == Field(14, 9)
Destination == Field(7, 7)

ServiceFlag   == {25}
Anonymous     == {24}
RequestFlag   == {24}
Reserved23    == {23}
Reserved7     == {7}

\* Mutant: a reserved bit is not checked.
MutantMsgCheckMask == ServiceFlag \cup Reserved7

MsgCheckMask  == ServiceFlag \cup Reserved23 \cup Reserved7
SrvCheckMask  == ServiceFlag \cup Reserved23
MsgIgnoreMask == Bit \ UNION {MsgCheckMask, Priority, Anonymous, Subject, Source}
SrvIgnoreMask ==
    Bit \ UNION {SrvCheckMask, Priority, RequestFlag, Service, Destination, Source}

-----------------------------------------------------------------------------
(***************************************************************************)
(* A header is a record of priority, kind (Message, Request or Response),  *)
(* port (subject or service), source and destination.                      *)
(***************************************************************************)
MessageCanId(h) ==
    UNION {MsgIgnoreMask, Bits(h.priority, Priority), Bits(h.port, Subject),
           Bits(h.source, Source)}

ServiceCanId(h) ==
    UNION {ServiceFlag, SrvIgnoreMask, Bits(h.priority, Priority),
           IF h.kind = "Request" THEN RequestFlag ELSE {},
           Bits(h.port, Service), Bits(h.destination, Destination),
           Bits(h.source, Source)}

\* Anonymous frames are not sent, and the destination fits the kind.
IsSendable(h) == h.source # None /\ (h.kind = "Message") = (h.destination = None)

MakeCanId(h) ==
    IF ~ IsSendable(h) THEN None
    ELSE IF h.kind = "Message" THEN MessageCanId(h)
    ELSE ServiceCanId(h)

IsMessage(id) == id \cap MsgCheckMask = {}
IsService(id) == id \cap SrvCheckMask = ServiceFlag

LoadMsgFrameHeader(id) ==
    IF ~ IsMessage(id) THEN None
    ELSE [kind |-> "Message", priority |-> Value(id, Priority),
          port |-> Value(id, Subject),
          source |-> IF id \cap Anonymous = {} THEN Value(id, Source) ELSE None,
          destination |-> None]

LoadSrvFrameHeader(id) ==
    IF ~ IsService(id) THEN None
    ELSE [kind |-> IF id \cap RequestFlag # {} THEN "Request" ELSE "Response",
          priority |-> Value(id, Priority), port |-> Value(id, Service),
          source |-> Value(id, Source), destination |-> Value(id, Destination)]

\* The embassy driver looks at the identifier alone.
ConvertRawHeader(id) ==
    IF IsMessage(id) THEN LoadMsgFrameHeader(id) ELSE LoadSrvFrameHeader(id)

DecodeCanIdPriority(id) == Value(id, Priority)

-----------------------------------------------------------------------------
MsgFilterMask == MsgCheckMask \cup Subject
SrvFilterMask == SrvCheckMask \cup Destination

\* No identifier under the mask equals the pattern of an empty slot.
MakeMsgFilterPattern(subject) ==
    IF subject = None THEN Bit \ MsgFilterMask ELSE Bits(subject, Subject)

MakeSrvFilterPattern(node) ==
    IF node = None THEN Bit \ SrvCheckMask
                   ELSE ServiceFlag \cup Bits(node, Destination)

\* What get_message_filter reads back from a slot.
DecodeMsgFilterPattern(pattern) ==
    IF pattern \ MsgFilterMask = {} THEN Value(pattern, Subject) ELSE None
DecodeSrvFilterPattern(pattern) ==
    IF pattern \ SrvFilterMask = {} THEN Value(pattern, Destination) ELSE None

\* The native driver: the hardware masks every identifier with MsgFilterMask
\* (XIDAM), the subject slots are dual filters and the last one is classic.
MessageFilterMatches(subjects, id) ==
    \E s \in subjects : id \cap MsgFilterMask = MakeMsgFilterPattern(s)

ServiceFilterMatches(node, id) ==
    id \cap MsgFilterMask \cap SrvFilterMask
        = MakeSrvFilterPattern(node) \cap SrvFilterMask

\* The FIFO a frame goes to tells which of the two filters has let it pass.
NativeLoadFrameHeader(subjects, node, id) ==
    IF MessageFilterMatches(subjects, id) THEN LoadMsgFrameHeader(id)
    ELSE IF ServiceFilterMatches(node, id) THEN LoadSrvFrameHeader(id)
    ELSE None

\* The embassy driver: a pattern and a mask in every slot, so that an empty slot
\* stands for subject 0.
EmbassyMessageFilterMatches(subjects, id) ==
    \E s \in subjects :
        id \cap MsgFilterMask = MakeMsgFilterPattern(s) \cap MsgFilterMask

EmbassyServiceFilterMatches(node, id) ==
    id \cap SrvFilterMask = MakeSrvFilterPattern(node) \cap SrvFilterMask

EmbassyLoadFrameHeader(subjects, node, id) ==
    IF \/ EmbassyMessageFilterMatches(subjects, id)
       \/ EmbassyServiceFilterMatches(node, id)
    THEN ConvertRawHeader(id)
    ELSE None

=============================================================================
