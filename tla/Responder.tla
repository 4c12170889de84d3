------------------------------- MODULE Responder -------------------------------
(***************************************************************************)
(* The request-answering worker (socket.rs, Responder): its task waits for *)
(* requests in a receive buffer and for room in a transmit buffer, both    *)
(* behind the mutexes of the node's registries, answers a request and      *)
(* waits again. The receive task of the driver adds requests meanwhile,    *)
(* the transmit task fetches the frames of the responses.                  *)
(*                                                                         *)
(* A request is whether its payload can be deserialized. The sessions that *)
(* assemble requests are those of RxPriorityFifo; here they are complete.  *)
(***************************************************************************)
EXTENDS TxBuffers

CONSTANTS
    TN,             (* transfer slots of the request buffer                *)
    Lengths,        (* how many frames a response may have                 *)
    MaxRequests     (* BOUND: the requests that arrive                     *)

ASSUME ResponderAssumption ==
    /\ Lengths \subseteq Nat
    /\ None \notin Nat \cup [buffer_idx : Nat, frames : Lengths, sent : Nat]

VARIABLES
    requests,       (* the request buffer's queue, by priority             *)
    req_filter,     (* the priorities its trigger has a waker for          *)
    responses,      (* the response buffer                                 *)
    resp_filter,    (* the priorities its trigger has a waker for          *)
    pc, asleep, woken,                  (* of the worker's task            *)
    req_priorities, resp_priorities,    (* of process_request              *)
    priority,       (* of the request that is handled                      *)
    arrived

bufferVars == << requests, req_filter, responses, resp_filter >>
taskVars   == << pc, asleep, woken, req_priorities, resp_priorities, priority >>
responderVars == << bufferVars, taskVars, arrived >>

NoRequests == [p \in Priorities |-> << >>]

ResponderInit ==
    /\ requests = NoRequests /\ req_filter = {}
    /\ responses = New("Response", None) /\ resp_filter = {}
    /\ pc = "none" /\ asleep = FALSE /\ woken = FALSE
    /\ req_priorities = {} /\ resp_priorities = {} /\ priority = None
    /\ arrived = 0

-----------------------------------------------------------------------------
(* The buffers.                                                             *)

Readiness == {p \in Priorities : requests[p] # << >>}
Room      == PushReadiness(responses)

IsFull == FoldFunction(LAMBDA q, n : Len(q) + n, 0, requests) = TN

\* Mutant: a request wakes the task if it waits for a less urgent one.
MutantWakes(p) == \E q \in req_filter : q > p

Wakes(p) == p \in req_filter

\* A complete request is queued. If the queue is full, the oldest of the least urgent
\* ones makes room for it, or it is dropped.
PushRequest(p, ok) ==
    LET least == Max(Readiness)
        from == IF IsFull THEN [requests EXCEPT ![least] = Tail(@)] ELSE requests
    IN  IF IsFull /\ p > least THEN UNCHANGED << requests, req_filter, woken >>
        ELSE /\ requests' = [from EXCEPT ![p] = Append(@, ok)]
             /\ woken' = (woken \/ Wakes(p))
             /\ req_filter' = IF Wakes(p) THEN {} ELSE req_filter

\* Whether the request endpoint is in the registry's tree.
Registered == pc \notin {"none", "dropping"}

\* Frames of a service without a worker go nowhere.
HubPush(p, ok) ==
    IF Registered THEN PushRequest(p, ok) ELSE UNCHANGED << requests, req_filter, woken >>

\* poll_push of the request registry.
ReceiveRequest(p, ok) ==
    /\ arrived < MaxRequests  \* BOUND
    /\ arrived' = arrived + 1
    /\ HubPush(p, ok)
    /\ UNCHANGED << responses, resp_filter, pc, asleep, req_priorities,
                    resp_priorities, priority >>

\* The driver fetches a frame of a response.
FetchResponse(p) ==
    LET o == TryPop(responses, p)
        wakes == o.ready \cap resp_filter # {}
    IN  /\ o.frame # None
        /\ responses' = o.buffer
        /\ woken' = (woken \/ wakes)
        /\ resp_filter' = IF wakes THEN {} ELSE resp_filter
        /\ UNCHANGED << requests, req_filter, pc, asleep, req_priorities,
                        resp_priorities, priority, arrived >>

-----------------------------------------------------------------------------
(* The worker's task.                                                       *)

\* A service has one worker: another one is refused as long as it lives. Requests come
\* in as soon as the request endpoint is registered.
CreateRequest ==
    /\ pc = "none"
    /\ pc' = "creating"
    /\ UNCHANGED << bufferVars, asleep, woken, req_priorities, resp_priorities,
                    priority, arrived >>

CreateResponse ==
    /\ pc = "creating"
    /\ pc' = "requests"
    /\ UNCHANGED << bufferVars, asleep, woken, req_priorities, resp_priorities,
                    priority, arrived >>

Create == CreateRequest \/ CreateResponse

\* The task can be dropped wherever it awaits: waiting, or in the handle. Its endpoints
\* are dropped one after the other.
DropRequest ==
    /\ asleep \/ pc = "handle"
    /\ requests' = NoRequests /\ req_filter' = {}
    /\ pc' = "dropping" /\ asleep' = FALSE /\ woken' = FALSE
    /\ req_priorities' = {} /\ resp_priorities' = {} /\ priority' = None
    /\ UNCHANGED << responses, resp_filter, arrived >>

DropResponse ==
    /\ pc = "dropping"
    /\ pc' = "none"
    /\ responses' = New("Response", None) /\ resp_filter' = {}
    /\ woken' = FALSE
    /\ UNCHANGED << requests, req_filter, asleep, req_priorities, resp_priorities,
                    priority, arrived >>

Drop == DropRequest \/ DropResponse

Polls == ~ asleep \/ woken

\* The task is polled and goes on.
Continue == asleep' = FALSE /\ woken' = FALSE

Suspend == asleep' = TRUE /\ woken' = FALSE

\* What the loop does with the masks it has.
LoopPc(req, resp) == IF req \cap resp = {} THEN "select" ELSE "pop"

\* A wait looks at the buffer under the registry's lock, and leaves a waker with the
\* mask there if it finds nothing.
PollRequests(mask) ==
    req_filter' = IF Readiness \cap mask = {} THEN mask ELSE req_filter

PollResponses(mask) ==
    resp_filter' = IF Room \cap mask = {} THEN mask ELSE resp_filter

\* wait_pop_readiness(ALL)
WaitRequests ==
    /\ pc = "requests" /\ Polls
    /\ IF Readiness # {}
       THEN /\ req_priorities' = Readiness
            /\ pc' = "responses"
            /\ Continue
       ELSE /\ Suspend
            /\ UNCHANGED << req_priorities, pc >>
    /\ PollRequests(Priorities)
    /\ UNCHANGED << requests, responses, resp_filter, resp_priorities, priority, arrived >>

\* wait_push_readiness(ALL)
WaitResponses ==
    /\ pc = "responses" /\ Polls
    /\ IF Room # {}
       THEN /\ resp_priorities' = Room
            /\ pc' = LoopPc(req_priorities, Room)
            /\ Continue
       ELSE /\ Suspend
            /\ UNCHANGED << resp_priorities, pc >>
    /\ PollResponses(Priorities)
    /\ UNCHANGED << requests, req_filter, responses, req_priorities, priority, arrived >>

\* The first future of the select. It is the only one polled if it is ready.
SelectRequests ==
    LET ready == Readiness \cap req_priorities
    IN  /\ pc = "select" /\ Polls
        /\ IF ready # {}
           THEN /\ req_priorities' = req_priorities \cup ready
                /\ pc' = LoopPc(req_priorities', resp_priorities)
           ELSE /\ pc' = "select responses"
                /\ UNCHANGED req_priorities
        /\ PollRequests(req_priorities)
        /\ Continue
        /\ UNCHANGED << requests, responses, resp_filter, resp_priorities, priority, arrived >>

SelectResponses ==
    LET ready == Room \cap resp_priorities
    IN  /\ pc = "select responses"
        /\ IF ready # {}
           THEN /\ resp_priorities' = resp_priorities \cup ready
                /\ pc' = LoopPc(req_priorities, resp_priorities')
                /\ Continue
           ELSE /\ pc' = "select"
                /\ asleep' = TRUE
                /\ UNCHANGED << resp_priorities, woken >>
        /\ PollResponses(resp_priorities)
        /\ UNCHANGED << requests, req_filter, responses, req_priorities, priority, arrived >>

\* The requests the task may take; it takes the most urgent one.
Candidates == Readiness \cap resp_priorities

\* One that cannot be deserialized ends the turn, and so does one that was displaced.
Pop ==
    LET p == Min(Candidates)
    IN  /\ pc = "pop"
        /\ IF Candidates = {}
           THEN pc' = "requests" /\ UNCHANGED << requests, priority >>
           ELSE /\ requests' = [requests EXCEPT ![p] = Tail(@)]
                /\ pc' = IF Head(requests[p]) THEN "handle" ELSE "requests"
                /\ priority' = IF Head(requests[p]) THEN p ELSE priority
        /\ UNCHANGED << req_filter, responses, resp_filter, asleep, woken,
                        req_priorities, resp_priorities, arrived >>

\* The handle returns, and the response is unwrapped into the buffer.
Respond(frames) ==
    LET b == GetScratchpad(responses)
    IN  /\ pc = "handle"
        /\ IF priority \in Room
           THEN responses' = Push(b, priority, frames) /\ pc' = "requests"
           ELSE pc' = "panicked" /\ UNCHANGED responses
        /\ priority' = None
        /\ UNCHANGED << requests, req_filter, resp_filter, asleep, woken,
                        req_priorities, resp_priorities, arrived >>

Worker ==
    \/ WaitRequests \/ WaitResponses \/ SelectRequests \/ SelectResponses
    \/ Pop \/ \E frames \in Lengths : Respond(frames)

ResponderNext ==
    \/ Create \/ Drop \/ Worker
    \/ \E p \in Priorities : FetchResponse(p) \/ \E ok \in BOOLEAN : ReceiveRequest(p, ok)

\* The executor runs the task, the handle returns, and the bus takes the frames of each
\* response in the end.
ResponderFairness ==
    /\ WF_responderVars(Worker)
    /\ \A p \in Priorities : WF_responderVars(FetchResponse(p))

Spec == ResponderInit /\ [][ResponderNext]_responderVars /\ ResponderFairness

-----------------------------------------------------------------------------
\* The worker goes on: process_request's unwrap never fails, since room for the
\* response, looked for before the request was taken, is still there after the handle;
\* and the task does not sleep over a request or over room that it waits for, although
\* it looks, registers and is woken for masks of priorities.
WorkerGoesOn ==
    /\ pc # "panicked"
    /\ asleep /\ ~ woken => /\ pc = "requests" => Readiness = {}
                            /\ pc = "responses" => Room = {}

\* "The responder processes each priority queue independently; a lower-priority request
\* can be executed even when a higher-priority queue is full" (socket.rs, lines 233 and
\* 234): a request with room for its response is taken, or the worker is dropped.
QueuesAreIndependent ==
    \A p \in Priorities :
        p \in Readiness \cap Room ~> (p \notin Readiness \/ ~ Registered)

=============================================================================
