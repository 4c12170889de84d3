-------------------------------- MODULE Watch --------------------------------
(***************************************************************************)
(* The receive buffer of the newest message (buffer/rx_msg/watch.rs): the  *)
(* sessions of RxPriorityFifo and one transfer slot.                       *)
(*                                                                         *)
(* A session, the transfer slot and the reader have a payload buffer each, *)
(* and exchange them. Each step is made under the registry's mutex: the    *)
(* receive task pushes frames, the endpoint's task polls and pops.         *)
(***************************************************************************)
EXTENDS Sessions

CONSTANTS
    Sources,    (* nodes                                                   *)
    Anonymous,  (* the source of a frame without a node                    *)
    Frames,     (* frames on the bus, each with its source                 *)
    Priorities, (* 0 is the highest                                        *)
    Masks,      (* the sets of priorities the endpoint's task asks for     *)
    MaxTime     (* BOUND: the last instant                                 *)

Ids      == {f.transfer_id : f \in Frames}
Payloads == {f.part : f \in Frames}

\* What a transfer slot holds.
Entries == [priority : Priorities, timestamp : Nat, parts : Seq(Payloads)]

ASSUME WatchAssumption ==
    /\ Priorities \subseteq Nat /\ Masks \subseteq (SUBSET Priorities) \ {{}}
    /\ Anonymous \notin Sources
    /\ \A f \in Frames : f.source \in Sources \cup {Anonymous} /\ f.priority \in Priorities
    /\ None \notin Nat /\ None \notin Ids
    /\ None \notin SessionSet(Ids, Payloads) /\ None \notin Entries
    /\ MaxTime \in Nat

Buffers == 0 .. SN + 1

VARIABLES
    table,                  (* the sessions                                *)
    transfer,               (* the transfer to be read, or None            *)
    transfer_min_timestamp, (* no older one is accepted                    *)
    transfer_buffer_idx,    (* the buffer of the transfer slot             *)
    readout_buffer_idx,     (* the buffer of the transfer popped last      *)
    buffers,                (* the content of each buffer                  *)
    waiting,                (* the priorities the endpoint's task sleeps   *)
                            (* for; none: it runs                          *)
    panicked,               (* the receive task has panicked               *)
    now,                    (* the timestamp of the last frame             *)
    newest,                 (* history: the last timestamp of all transfers*)
    read                    (* history: the transfer popped last           *)

slotVars == << transfer, transfer_min_timestamp, transfer_buffer_idx >>
vars == << table, slotVars, readout_buffer_idx, buffers, waiting, panicked, now,
           newest, read >>

Entry(priority, timestamp, parts) ==
    [priority |-> priority, timestamp |-> timestamp, parts |-> parts]

Init ==
    /\ table = [sessions |-> [s \in Sources |-> None], order |-> << >>, base |-> 0]
    /\ transfer = None
    /\ transfer_min_timestamp = 0
    /\ transfer_buffer_idx = SN
    /\ readout_buffer_idx = SN + 1
    /\ buffers = [i \in Buffers |-> << >>]
    /\ waiting = {}
    /\ panicked = FALSE
    /\ now = 0
    /\ newest = -1
    /\ read = Entry(Min(Priorities), -1, << >>)

-----------------------------------------------------------------------------
(* The receive task.                                                       *)

\* Mutant: the transfer that ends last is accepted.
MutantAccepts(timestamp) == TRUE

Accepts(timestamp) == transfer_min_timestamp <= timestamp

\* Mutant: only a transfer that comes to an empty slot wakes the reader.
MutantWake(p) == waiting' = IF p \in waiting /\ transfer = None THEN {} ELSE waiting

Wake(p) == waiting' = IF p \in waiting THEN {} ELSE waiting

\* The transfer takes the place of the one in the slot.
Accept(entry) ==
    /\ transfer' = entry
    /\ transfer_min_timestamp' = entry.timestamp
    /\ Wake(entry.priority)

\* Mutant: the slot keeps the buffer it has.
MutantExchanged(idx) == << idx, transfer_buffer_idx >>

\* The session's buffer and that of the slot once they are exchanged.
Exchanged(idx) == << transfer_buffer_idx, idx >>

PushTracked(f, timestamp) ==
    LET t == TableFor(table, f, timestamp)
        session == t.sessions[f.source]
        idx == session.buffer_idx
        o == PushFrame(session.gather, buffers[idx], f, timestamp)
        accepted == IF o.transfer = None THEN FALSE ELSE Accepts(o.transfer.timestamp)
        Leave(next) ==
            table' = [t EXCEPT
                !.sessions[f.source] = [gather |-> o.gather, buffer_idx |-> next],
                !.order = Touch(@, f.source, o.gather, timestamp)]
    IN  /\ session # None
        /\ buffers' = [buffers EXCEPT ![idx] = o.buffer]
        /\ newest' = IF o.transfer = None THEN newest
                                          ELSE Max({newest, o.transfer.timestamp})
        /\ \/ /\ ~ accepted
              /\ Leave(idx)
              /\ UNCHANGED << slotVars, waiting >>
           \/ /\ accepted
              /\ Leave(Exchanged(idx)[1])
              /\ transfer_buffer_idx' = Exchanged(idx)[2]
              /\ Accept(Entry(f.priority, o.transfer.timestamp, o.transfer.parts))
        /\ UNCHANGED panicked

\* A frame of a transfer that no session was started for.
PushUntracked(f, timestamp) ==
    /\ TableFor(table, f, timestamp).sessions[f.source] = None
    /\ panicked' = Panics(table, f)
    /\ UNCHANGED << table, slotVars, buffers, waiting, newest >>

PushRegularFrame(f, timestamp) ==
    /\ f.source # Anonymous
    /\ PushTracked(f, timestamp) \/ PushUntracked(f, timestamp)

\* Others than single frames are ignored.
PushAnonymousFrame(f, timestamp) ==
    /\ f.source = Anonymous
    /\ f.data /\ f.sot /\ f.eot /\ f.toggle
    /\ Accepts(timestamp)
    /\ buffers' = [buffers EXCEPT ![transfer_buffer_idx] = Parts(f)]
    /\ newest' = timestamp
    /\ Accept(Entry(f.priority, timestamp, Parts(f)))
    /\ UNCHANGED << table, transfer_buffer_idx, panicked >>

\* push_frame of the receive buffer.
Push(f, timestamp) ==
    /\ PushRegularFrame(f, timestamp) \/ PushAnonymousFrame(f, timestamp)
    /\ now' = timestamp
    /\ UNCHANGED << readout_buffer_idx, read >>

-----------------------------------------------------------------------------
(* The endpoint's task.                                                    *)

Readiness == {p \in Priorities : transfer # None /\ transfer.priority = p}

\* With nothing to pop the task suspends.
PollPopReadiness(mask) ==
    /\ waiting = {}
    /\ Readiness \cap mask = {}
    /\ waiting' = mask
    /\ UNCHANGED << table, slotVars, readout_buffer_idx, buffers, panicked, now,
                    newest, read >>

\* The reader's buffer is the slot's next one.
TryPop(mask) ==
    /\ waiting = {}
    /\ Readiness \cap mask # {}
    /\ transfer' = None
    /\ transfer_buffer_idx' = readout_buffer_idx
    /\ readout_buffer_idx' = transfer_buffer_idx
    /\ read' = transfer
    /\ UNCHANGED << table, transfer_min_timestamp, buffers, waiting, panicked, now,
                    newest >>

\* The future is dropped, or polled because of another one of the task.
SpuriousPoll ==
    /\ waiting # {}
    /\ waiting' = {}
    /\ UNCHANGED << table, slotVars, readout_buffer_idx, buffers, panicked, now,
                    newest, read >>

\* A panic halts the system.
Next ==
    /\ ~ panicked
    /\ \/ \E f \in Frames, timestamp \in now .. MaxTime : Push(f, timestamp)
       \/ \E mask \in Masks : PollPopReadiness(mask) \/ TryPop(mask)
       \/ SpuriousPoll

Spec == Init /\ [][Next]_vars

-----------------------------------------------------------------------------
(***************************************************************************)
(* Safety.                                                                 *)
(***************************************************************************)

Owners(i) ==
    SessionOwners(table, i)
    \cup {<< "transfer", n >> : n \in {n \in {transfer_buffer_idx} : n = i}}
    \cup {<< "readout", n >> : n \in {n \in {readout_buffer_idx} : n = i}}

BuffersPartition == \A i \in Buffers : Cardinality(Owners(i)) = 1

\* What is in the slot, and what the reader looks at until its next pop, is what
\* was assembled, although the receive task writes frames all the time: every buffer
\* has one owner through all exchanges between sessions, slot and reader, and unsafe
\* references to one allocation never alias. The sessions are a table (IsTable).
ContentIntact ==
    /\ BuffersPartition
    /\ IsTable(table, Buffers)
    /\ transfer # None => buffers[transfer_buffer_idx] = transfer.parts
    /\ buffers[readout_buffer_idx] = read.parts

\* The newest of all transfers received, by the instant of its first frame, is in
\* the slot or the last one that was read: neither does a long transfer that ends
\* late replace a newer one, nor is the newest one dropped or read twice.
NewestWins == newest = IF transfer # None THEN transfer.timestamp ELSE read.timestamp

\* The endpoint's task does not sleep while the slot has a transfer it waits for,
\* also when that has replaced one of another priority.
NoLostWakeup == Readiness \cap waiting = {}
=============================================================================
