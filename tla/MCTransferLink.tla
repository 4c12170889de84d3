---------------------------- MODULE MCTransferLink ----------------------------
(* An instance of TransferLink for model checking.                         *)
EXTENDS TransferLink

Message(priority, port, source) ==
    [kind |-> "Message", priority |-> priority, port |-> port, source |-> source,
     destination |-> None]

Srv(kind, priority, port, source, destination) ==
    [kind |-> kind, priority |-> priority, port |-> port, source |-> source,
     destination |-> destination]

Case(driver, header, mtu, lengths) ==
    [driver |-> driver, header |-> header, mtu |-> mtu, lengths |-> lengths]

\* The headers are those at the bounds of their fields; the lengths those at which a
\* transfer no longer fits a frame, the CRC is split, and padding appears.
MCCases ==
    {Case("native", Message(1, 8191, 0), "Classic", << 13, 0, 1 >>),
     Case("embassy", Message(1, 0, 127), "Classic", << 8, 8, 8 >>),
     Case("native", Srv("Request", 1, 511, 0, 127), "Fd", << 78, 64, 1 >>),
     Case("embassy", Srv("Response", 1, 0, 127, 0), "Fd", << 86, 9, 1 >>),
     Case("native", Message(1, 1, 1), "Fd", << 60, 63, 1 >>)}

MCUrgent == Message(0, 4095, 126)
MCDeadlines == << 1, 3, 2 >>
=============================================================================
