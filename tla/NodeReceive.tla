------------------------------ MODULE NodeReceive ------------------------------
(***************************************************************************)
(* The way of a frame into a node: the receive task of the native driver   *)
(* (emcyphal-stm32-native, driver.rs RxRunner) takes it from the           *)
(* controller's FIFOs, or from the loop-back channel when the transmit     *)
(* task returns it, and pushes it into the node, which hands it to the     *)
(* registry of its kind (node/core_node.rs, node/minimal_node.rs):         *)
(*   - a frame that was sent to the loop-back half of the subject registry *)
(*     (registry/rx_msg.rs), whose endpoints come and go between the       *)
(*     buffers it is pushed to;                                            *)
(*   - a request to the worker of its service (Responder).                 *)
(* Messages of other nodes go to the regular half, SubjectRegistry.        *)
(***************************************************************************)
EXTENDS Responder

CONSTANTS
    Entries,        (* the loop-back endpoints                             *)
    SubjectOf,      (* their subjects                                      *)
    Frames,         (* the frames of the bus                               *)
    LoopBackFrames, (* and those the transmit task returns                 *)
    FifoMax,        (* the depth of an RX FIFO                             *)
    MaxFrames       (* BOUND: how many frames there are                    *)

\* A frame of a message has its subject, one of a request its priority.
ASSUME NodeReceiveAssumption ==
    /\ SubjectOf \in [Entries -> Nat]
    /\ None \notin Entries /\ None \notin Frames \cup LoopBackFrames
    /\ \A f \in Frames \cup LoopBackFrames :
           /\ f.kind = "message" => f.port \in Nat
           /\ f.kind = "request" => f.port \in Priorities

Fifos == 0 .. 1

VARIABLES
    fifos, rx_interrupt,            (* of the controller, with IT0         *)
    loop_back, loop_back_waker,     (* Info's channel                      *)
    rx_waker,                       (* rx_trigger has a waker              *)
    rx_pc, rx_woken, frame,         (* of the receive task                 *)
    entry_tree, next_push_ptr,      (* LoopBackInner                       *)
    delivered,      (* history: the buffers that took the frame            *)
    owed,           (* history: endpoints of its subject since its start   *)
    strays,         (* history: buffers that took a frame of another       *)
                    (* subject, or a frame twice                           *)
    seen            (* the frames so far                                   *)

hwVars   == << fifos, rx_interrupt >>
infoVars == << loop_back, loop_back_waker, rx_waker >>
rxVars   == << rx_pc, rx_woken, frame >>
treeVars == << entry_tree, next_push_ptr, delivered, owed, strays >>
vars == << hwVars, infoVars, rxVars, treeVars, seen, responderVars >>

Init ==
    /\ ResponderInit
    /\ fifos = [n \in Fifos |-> << >>] /\ rx_interrupt = FALSE
    /\ loop_back = None /\ loop_back_waker = FALSE /\ rx_waker = FALSE
    /\ rx_pc = "loop-back" /\ rx_woken = FALSE /\ frame = None
    /\ entry_tree = << >> /\ next_push_ptr = None
    /\ delivered = {} /\ owed = {} /\ strays = {}
    /\ seen = 0

-----------------------------------------------------------------------------
(* The controller, the interrupt, and the transmit task.                    *)

\* The message filters store in FIFO 0, the service filter in FIFO 1.
FifoOf(f) == IF f.kind = "message" THEN 0 ELSE 1

\* A frame that a filter accepts. It is lost if its FIFO is full.
Receive(f) ==
    /\ seen < MaxFrames  \* BOUND
    /\ seen' = seen + 1
    /\ fifos' = [fifos EXCEPT ![FifoOf(f)] = IF Len(@) = FifoMax THEN @ ELSE Append(@, f)]
    /\ rx_interrupt' = TRUE
    /\ UNCHANGED << infoVars, rxVars, treeVars, responderVars >>

\* IT0InterruptHandler and wake_rx. A waker wakes once.
OnInterrupt ==
    /\ rx_interrupt
    /\ rx_interrupt' = FALSE
    /\ rx_woken' = (rx_woken \/ rx_waker)
    /\ rx_waker' = FALSE
    /\ UNCHANGED << fifos, loop_back, loop_back_waker, rx_pc, frame, treeVars, seen,
                    responderVars >>

\* The transmit task waits for room in the channel.
ReturnFrame(f) ==
    /\ seen < MaxFrames  \* BOUND
    /\ seen' = seen + 1
    /\ loop_back = None
    /\ loop_back' = f
    /\ rx_woken' = (rx_woken \/ loop_back_waker)
    /\ loop_back_waker' = FALSE
    /\ UNCHANGED << hwVars, rx_waker, rx_pc, frame, treeVars, responderVars >>

-----------------------------------------------------------------------------
(* The receive task waits: the loop-back channel is looked at first, then,  *)
(* behind its waker, each FIFO.                                             *)

Take(f) == frame' = f /\ rx_pc' = "push"

CheckLoopBack ==
    /\ rx_pc = "loop-back"
    /\ loop_back' = None
    /\ IF loop_back # None
       THEN Take(loop_back) /\ UNCHANGED loop_back_waker
       ELSE /\ loop_back_waker' = TRUE
            /\ rx_pc' = "register"
            /\ UNCHANGED frame
    /\ UNCHANGED << hwVars, rx_waker, rx_woken, treeVars, seen, responderVars >>

RegisterWaker ==
    /\ rx_pc = "register"
    /\ rx_waker' = TRUE
    /\ rx_pc' = "fifo 0"
    /\ UNCHANGED << hwVars, loop_back, loop_back_waker, rx_woken, frame, treeVars, seen,
                    responderVars >>

\* Mutant: the task leaves the second FIFO to the next interrupt.
MutantNextFifo(n) == "asleep"

NextFifo(n) == IF n = 0 THEN "fifo 1" ELSE "asleep"

FifoPc(n) == IF n = 0 THEN "fifo 0" ELSE "fifo 1"

\* Frames without a header that can be read are skipped.
PopFifo(n) ==
    LET valid == {i \in DOMAIN fifos[n] : fifos[n][i].kind # "invalid"}
        rest  == IF valid = {} THEN << >>
                               ELSE SubSeq(fifos[n], Min(valid) + 1, Len(fifos[n]))
    IN  /\ rx_pc = FifoPc(n)
        /\ fifos' = [fifos EXCEPT ![n] = rest]
        /\ IF valid = {} THEN rx_pc' = NextFifo(n) /\ UNCHANGED frame
                         ELSE Take(fifos[n][Min(valid)])
        /\ UNCHANGED << rx_interrupt, infoVars, rx_woken, treeVars, seen, responderVars >>

Wake ==
    /\ rx_pc = "asleep"
    /\ rx_woken
    /\ rx_woken' = FALSE
    /\ rx_pc' = "loop-back"
    /\ UNCHANGED << hwVars, infoVars, frame, treeVars, seen, responderVars >>

-----------------------------------------------------------------------------
(* poll_push of the node.                                                   *)

Done == frame' = None /\ rx_pc' = "loop-back"

IsOwnRequest(f) == f.kind = "request" /\ ~ f.loop_back /\ f.own
IsLoopBackMessage(f) == f.kind = "message" /\ f.loop_back

PushOwnRequest ==
    /\ rx_pc = "push"
    /\ IsOwnRequest(frame)
    /\ ReceiveRequest(frame.port, frame.ok)
    /\ Done
    /\ UNCHANGED << hwVars, infoVars, rx_woken, treeVars, seen >>

\* Responses that come back, requests to other nodes, and messages for the regular half.
Ignore ==
    /\ rx_pc = "push"
    /\ ~ IsOwnRequest(frame) /\ ~ IsLoopBackMessage(frame)
    /\ Done
    /\ UNCHANGED << hwVars, infoVars, rx_woken, treeVars, seen, responderVars >>

IndexOf(e) == CHOOSE i \in DOMAIN entry_tree : entry_tree[i] = e

\* The entry behind another one, of whatever subject: is_head is never set here.
Following(e) ==
    IF IndexOf(e) = Len(entry_tree) THEN None ELSE entry_tree[IndexOf(e) + 1]

\* hub_push_start
LoopBackStart ==
    LET behind == {i \in DOMAIN entry_tree : SubjectOf[entry_tree[i]] >= frame.port}
        first  == entry_tree[Min(behind)]
        found  == behind # {} /\ SubjectOf[first] = frame.port
    IN  /\ rx_pc = "push"
        /\ IsLoopBackMessage(frame)
        /\ delivered' = {}
        /\ owed' = {e \in ToSet(entry_tree) : SubjectOf[e] = frame.port}
        /\ IF found
           THEN next_push_ptr' = first /\ rx_pc' = "loop-back push" /\ UNCHANGED frame
           ELSE next_push_ptr' = None /\ Done
        /\ UNCHANGED << hwVars, infoVars, rx_woken, entry_tree, strays, seen,
                        responderVars >>

\* Mutant: the buffer takes whatever is pushed to it.
MutantAccepts(e, f) == TRUE

\* The first thing push_frame of a buffer looks at.
Accepts(e, f) == SubjectOf[e] = f.port

\* hub_push_next, under one lock: the pointer is never null here unless its entry, and
\* all behind it, were dropped.
LoopBackNext ==
    LET e == next_push_ptr
    IN  /\ rx_pc = "loop-back push"
        /\ IF e # None /\ Accepts(e, frame)
           THEN /\ delivered' = delivered \cup {e}
                /\ strays' = strays \cup
                    {x \in {e} : x \in delivered \/ SubjectOf[x] # frame.port}
           ELSE UNCHANGED << delivered, strays >>
        /\ next_push_ptr' = IF e = None THEN None ELSE Following(e)
        /\ IF next_push_ptr' = None THEN Done ELSE UNCHANGED << rx_pc, frame >>
        /\ UNCHANGED << hwVars, infoVars, rx_woken, entry_tree, owed, seen,
                        responderVars >>

-----------------------------------------------------------------------------
(* Loop-back endpoints.                                                     *)

\* reg_register: behind the entries of its subject.
Register(e) ==
    /\ entry_tree' = InsertAt(entry_tree,
           Min({Len(entry_tree) + 1} \cup
               {i \in DOMAIN entry_tree : SubjectOf[entry_tree[i]] > SubjectOf[e]}), e)
    /\ UNCHANGED << next_push_ptr, delivered, owed >>

\* An endpoint takes its buffer for as long as it lives.
CreateMessageLoopBack(e) ==
    /\ e \notin ToSet(entry_tree)
    /\ Register(e)
    /\ UNCHANGED << hwVars, infoVars, rxVars, strays, seen, responderVars >>

PushPtrWithout(e) == IF next_push_ptr = e THEN Following(e) ELSE next_push_ptr

Unregister(e) ==
    /\ entry_tree' = RemoveAt(entry_tree, IndexOf(e))
    /\ next_push_ptr' = PushPtrWithout(e)
    /\ delivered' = delivered \ {e}
    /\ owed' = owed \ {e}

DropLoopBack(e) ==
    /\ e \in ToSet(entry_tree)
    /\ Unregister(e)
    /\ UNCHANGED << hwVars, infoVars, rxVars, strays, seen, responderVars >>

-----------------------------------------------------------------------------
ReceiveTask ==
    \/ CheckLoopBack \/ RegisterWaker \/ Wake
    \/ \E n \in Fifos : PopFifo(n)
    \/ PushOwnRequest \/ Ignore \/ LoopBackStart \/ LoopBackNext

Endpoint == \E e \in Entries : CreateMessageLoopBack(e) \/ DropLoopBack(e)

\* The worker's part, but for the requests, which the receive task brings.
WorkerStep ==
    /\ Create \/ Drop \/ Worker \/ \E p \in Priorities : FetchResponse(p)
    /\ UNCHANGED << hwVars, infoVars, rxVars, treeVars, seen >>

Bus ==
    \/ \E f \in Frames : Receive(f)
    \/ \E f \in LoopBackFrames : ReturnFrame(f)

Next == Bus \/ OnInterrupt \/ ReceiveTask \/ Endpoint \/ WorkerStep

NodeSpec == Init /\ [][Next]_vars

-----------------------------------------------------------------------------
\* The pointer the receive task keeps between two locks is to a registered endpoint, and
\* what is still due of the frame lies at or behind it: no endpoint is left out, and
\* none takes the frame twice or takes another subject's, although the push runs over
\* the entries of all larger subjects (lines 527 to 605 of rx_msg.rs).
LoopBackPushIsExact ==
    /\ strays = {}
    /\ next_push_ptr # None => next_push_ptr \in ToSet(entry_tree)
    /\ rx_pc = "loop-back push" =>
        \A e \in owed \ delivered :
            next_push_ptr # None /\ IndexOf(next_push_ptr) <= IndexOf(e)
    /\ rx_pc # "loop-back push" => owed \subseteq delivered \/ rx_pc = "push"

\* The receive task does not sleep over a frame: it registers with the interrupt before
\* it looks into the FIFOs, and with the channel before that.
ReceiverIsWoken ==
    rx_pc = "asleep" /\ ~ rx_woken
        => loop_back = None /\ (rx_interrupt \/ \A n \in Fifos : fifos[n] = << >>)

=============================================================================
