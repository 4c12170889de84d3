--------------------------- MODULE SubjectRegistry ---------------------------
(***************************************************************************)
(* The registry of message subscribers of a node (registry/rx_msg.rs):     *)
(* the "regular" half, which shares the driver's acceptance filter.        *)
(*                                                                         *)
(* Three actors meet in it, each step one critical section of the mutex:   *)
(*   - endpoints, created and dropped by tasks: Register, Unregister;      *)
(*   - the driver's receive task, which pushes a frame to every subscriber *)
(*     of its subject, releasing the mutex between two buffers:            *)
(*     HubPushStart, HubPushNext;                                          *)
(*   - the driver's filter task, which pulls filter updates and programs   *)
(*     them into its slots: PollPopFilterUpdate, ApplyUpdate.              *)
(*                                                                         *)
(* The active tree is its iteration order, a sequence sorted by subject    *)
(* in which an entry is inserted after the entries of an equal subject.    *)
(* Only membership of the inactive tree is ever read, so it is a set.      *)
(***************************************************************************)
EXTENDS Integers, SequencesExt

CONSTANTS
    Entries,       (* registry entries, one for each endpoint              *)
    MaxSubject,    (* the largest subject identifier                       *)
    SubjectOf,     (* the subject of each entry, fixed when it is made     *)
    SlotCount,     (* subject slots of the driver's acceptance filter      *)
    MaxFreeSlots,  (* BOUND: the free slot counter is not counted past it  *)
    NoEntry        (* the null entry pointer                               *)

Subjects == 0 .. MaxSubject

ASSUME ConstantsAssumption ==
    /\ MaxSubject \in Nat
    /\ SubjectOf \in [Entries -> Subjects]
    /\ SlotCount \in Nat
    /\ MaxFreeSlots \in Nat
    /\ SlotCount <= MaxFreeSlots
    /\ NoEntry \notin Entries

VARIABLES
    inactive_entry_tree,  (* entries waiting for their subject's filter    *)
    active_entry_tree,    (* entries frames are delivered to, in order     *)
    is_active,            (* entries whose is_active flag is set           *)
    is_head,              (* entries whose is_head flag is set             *)
    next_push_ptr,        (* the entry that gets the current frame next    *)
    clean_up_queue,       (* heads with a stale filter gap in front        *)
    clean_up_last,        (* there is a stale gap behind the last entry    *)
    activation_queue,     (* the inactive entries in registration order    *)
    free_slot_count,      (* the registry's account of free filter slots   *)
    frame_subject,        (* subject of the frame in hub_push_regular      *)
    driver,               (* program counter of the filter task            *)
    update,               (* the filter update the filter task holds       *)
    filter,               (* subjects in the driver's filter slots         *)
    delivered,            (* history: buffers the current frame went to    *)
    owed                  (* history: subscribers active since its start   *)

entryVars  == << inactive_entry_tree, active_entry_tree, is_active, is_head >>
queueVars  == << clean_up_queue, clean_up_last, activation_queue >>
pushVars   == << next_push_ptr, frame_subject, delivered, owed >>
driverVars == << driver, update, filter >>
vars == << entryVars, queueVars, free_slot_count, pushVars, driverVars >>

NoSubject == MaxSubject + 1

NoUpdate == [kind |-> "None", first |-> 0, last |-> 0]
Updates  == [kind : {"AddSubject", "RemoveSubjectRange", "None"},
             first : Subjects, last : Subjects]

TypeOK ==
    /\ inactive_entry_tree \subseteq Entries
    /\ active_entry_tree \in Seq(Entries)
    /\ is_active \subseteq Entries
    /\ is_head \subseteq Entries
    /\ next_push_ptr \in Entries \cup {NoEntry}
    /\ clean_up_queue \in Seq(Entries)
    /\ clean_up_last \in BOOLEAN
    /\ activation_queue \in Seq(Entries)
    /\ free_slot_count \in 0 .. MaxFreeSlots
    /\ frame_subject \in Subjects \cup {NoSubject}
    /\ driver \in {"polling", "waiting", "applying", "panicked"}
    /\ update \in Updates
    /\ filter \subseteq Subjects
    /\ delivered \subseteq Entries
    /\ owed \subseteq Entries

Init ==
    /\ inactive_entry_tree = {}
    /\ active_entry_tree = << >>
    /\ is_active = {}
    /\ is_head = {}
    /\ next_push_ptr = NoEntry
    /\ clean_up_queue = << >>
    /\ clean_up_last = FALSE
    /\ activation_queue = << >>
    /\ free_slot_count = SlotCount
    /\ frame_subject = NoSubject
    /\ driver = "polling"
    /\ update = NoUpdate
    /\ filter = {}
    /\ delivered = {}
    /\ owed = {}

-----------------------------------------------------------------------------
(* Cursors of the trees and links of the lists.                            *)

Active     == ToSet(active_entry_tree)
Registered == inactive_entry_tree \cup Active

HasSubject(tree, s) == \E e \in tree : SubjectOf[e] = s

IndexOf(seq, e) == CHOOSE i \in DOMAIN seq : seq[i] = e

Without(seq, e) == RemoveAt(seq, IndexOf(seq, e))

\* Where insert_after puts an entry behind the cursor upper_bound_mut(s).
InsertPos(s) ==
    Min({Len(active_entry_tree) + 1} \cup
        {i \in DOMAIN active_entry_tree : SubjectOf[active_entry_tree[i]] > s})

Insert(e) == InsertAt(active_entry_tree, InsertPos(SubjectOf[e]), e)

IsLast(e) == IndexOf(active_entry_tree, e) = Len(active_entry_tree)
Succ(e)   == active_entry_tree[IndexOf(active_entry_tree, e) + 1]

\* The next entry of the same subject: the successor, unless it is a head.
NextTail(e) ==
    IF IsLast(e) \/ Succ(e) \in is_head THEN NoEntry ELSE Succ(e)

\* Mutant: the filter task is not woken.
MutantWake == UNCHANGED driver

\* filter_update_waker.wake() makes a suspended filter task poll again.
Wake == driver' = IF driver = "waiting" THEN "polling" ELSE driver

-----------------------------------------------------------------------------
(* Endpoints.                                                              *)

Enqueue(e) ==
    /\ inactive_entry_tree' = inactive_entry_tree \cup {e}
    /\ activation_queue' = Append(activation_queue, e)
    /\ UNCHANGED << active_entry_tree, is_active, is_head >>

\* Another entry of the subject waits already: it brings the filter update.
RegisterEnqueuedSubject(e) ==
    /\ HasSubject(inactive_entry_tree, SubjectOf[e])
    /\ Enqueue(e)
    /\ UNCHANGED << free_slot_count, driver >>

\* The filter lets the subject through already.
RegisterActiveSubject(e) ==
    /\ ~ HasSubject(inactive_entry_tree, SubjectOf[e])
    /\ HasSubject(Active, SubjectOf[e])
    /\ active_entry_tree' = Insert(e)
    /\ is_active' = is_active \cup {e}
    /\ UNCHANGED << inactive_entry_tree, is_head, activation_queue,
                    free_slot_count, driver >>

\* Mutant: the slot account is not looked at.
MutantRegisterNewSubject(e) ==
    /\ ~ HasSubject(Registered, SubjectOf[e])
    /\ free_slot_count' = free_slot_count - 1
    /\ Enqueue(e)
    /\ Wake

\* With no free slot registration fails and changes nothing.
RegisterNewSubject(e) ==
    /\ ~ HasSubject(Registered, SubjectOf[e])
    /\ free_slot_count > 0
    /\ free_slot_count' = free_slot_count - 1
    /\ Enqueue(e)
    /\ Wake

Register(e) ==
    /\ e \notin Registered
    /\ \/ RegisterEnqueuedSubject(e)
       \/ RegisterActiveSubject(e)
       \/ RegisterNewSubject(e)
    /\ UNCHANGED << clean_up_queue, clean_up_last, pushVars, update, filter >>

\* Mutant: the frame is abandoned with the entry it is due to.
MutantPushPtrWithout(e) == IF next_push_ptr = e THEN NoEntry ELSE next_push_ptr

\* The entry a pending frame goes to once e is out of the tree.
PushPtrWithout(e) == IF next_push_ptr = e THEN NextTail(e) ELSE next_push_ptr

\* The part that the removals of active entries share.
UnlinkActive(e) ==
    /\ active_entry_tree' = Without(active_entry_tree, e)
    /\ is_active' = is_active \ {e}
    /\ next_push_ptr' = PushPtrWithout(e)
    /\ delivered' = delivered \ {e}
    /\ owed' = owed \ {e}

\* Mutant: a removed head stays in the clean-up list.
MutantUnlinkCleanUp(e) == clean_up_queue

\* The list entry of a removed head is unlinked with it.
UnlinkCleanUp(e) ==
    IF e \in ToSet(clean_up_queue) THEN Without(clean_up_queue, e)
                                   ELSE clean_up_queue

\* Mutant: the mark of the removed head is lost.
MutantTakesOver(e) ==
    /\ Succ(e) \in is_head
    /\ Succ(e) \notin ToSet(clean_up_queue)

\* Mutant: any entry that follows a removed head is queued.
MutantAlwaysTakesOver(e) == Succ(e) \notin ToSet(clean_up_queue)

\* The next entry is to clean up the gap that the removal of head e leaves: one
\* that e was to clean up itself, or e's own, if no entry of its subject is left.
TakesOver(e) ==
    /\ e \in ToSet(clean_up_queue) \/ Succ(e) \in is_head
    /\ Succ(e) \notin ToSet(clean_up_queue)

FreeSlot ==
    /\ free_slot_count < MaxFreeSlots  \* BOUND
    /\ free_slot_count' = free_slot_count + 1

PassCleanUp(e) ==
    \/ /\ TakesOver(e)
       /\ clean_up_queue' = Append(UnlinkCleanUp(e), Succ(e))
       /\ FreeSlot
       /\ Wake
    \/ /\ ~ TakesOver(e)
       /\ clean_up_queue' = UnlinkCleanUp(e)
       /\ UNCHANGED << free_slot_count, driver >>

UnregisterActiveHead(e) ==
    /\ e \in is_active
    /\ e \in is_head
    /\ UnlinkActive(e)
    /\ \/ /\ ~ IsLast(e)
          /\ is_head' = (is_head \ {e}) \cup {Succ(e)}
          /\ PassCleanUp(e)
          /\ UNCHANGED clean_up_last
       \/ /\ IsLast(e)
          /\ is_head' = is_head \ {e}
          /\ clean_up_queue' = UnlinkCleanUp(e)
          /\ clean_up_last' = TRUE
          /\ FreeSlot
          /\ Wake
    /\ UNCHANGED << inactive_entry_tree, activation_queue, frame_subject,
                    update, filter >>

UnregisterActiveTail(e) ==
    /\ e \in is_active
    /\ e \notin is_head
    /\ UnlinkActive(e)
    /\ UNCHANGED << inactive_entry_tree, is_head, queueVars, free_slot_count,
                    frame_subject, driverVars >>

UnregisterInactive(e) ==
    /\ e \in inactive_entry_tree
    /\ e \notin is_active
    /\ inactive_entry_tree' = inactive_entry_tree \ {e}
    /\ activation_queue' = Without(activation_queue, e)
    /\ UNCHANGED << active_entry_tree, is_active, is_head, clean_up_queue,
                    clean_up_last, free_slot_count, pushVars, driverVars >>

Unregister(e) ==
    \/ UnregisterActiveHead(e)
    \/ UnregisterActiveTail(e)
    \/ UnregisterInactive(e)

-----------------------------------------------------------------------------
(* The receive task. A frame nobody subscribes to changes nothing.         *)

SubscribersOf(s) == {e \in Active : SubjectOf[e] = s}

HubPushStart(s) ==
    /\ frame_subject = NoSubject
    /\ SubscribersOf(s) # {}
    /\ next_push_ptr' = active_entry_tree[
           Min({i \in DOMAIN active_entry_tree :
                    SubjectOf[active_entry_tree[i]] >= s})]
    /\ frame_subject' = s
    /\ delivered' = {}
    /\ owed' = SubscribersOf(s)
    /\ UNCHANGED << entryVars, queueVars, free_slot_count, driverVars >>

\* The buffers the frame has gone to after this critical section.
Delivery == delivered \cup ({next_push_ptr} \ {NoEntry})

HubPushNext ==
    /\ frame_subject # NoSubject
    /\ next_push_ptr' = IF next_push_ptr = NoEntry THEN NoEntry
                                                   ELSE NextTail(next_push_ptr)
    /\ IF next_push_ptr' = NoEntry
       THEN frame_subject' = NoSubject /\ delivered' = {} /\ owed' = {}
       ELSE /\ delivered' = Delivery
            /\ UNCHANGED << frame_subject, owed >>
    /\ UNCHANGED << entryVars, queueVars, free_slot_count, driverVars >>

-----------------------------------------------------------------------------
(* The filter task.                                                        *)

\* The stale gap in front of a queued head, and the one behind the last entry.
FirstCleanUp(i) == IF i = 1 THEN 0 ELSE SubjectOf[active_entry_tree[i - 1]] + 1

Hold(kind, first, last) ==
    /\ driver' = "applying"
    /\ update' = [kind |-> kind, first |-> first, last |-> last]

\* Mutant: the range includes the subject of the queued head.
MutantLastCleanUp(entry) == SubjectOf[entry]

LastCleanUp(entry) == SubjectOf[entry] - 1

PopCleanUpQueue ==
    /\ clean_up_queue # << >>
    /\ LET entry == Head(clean_up_queue)
           i == IndexOf(active_entry_tree, entry)
       IN  Hold("RemoveSubjectRange", FirstCleanUp(i), LastCleanUp(entry))
    /\ clean_up_queue' = Tail(clean_up_queue)
    /\ UNCHANGED << entryVars, clean_up_last, activation_queue >>

PopCleanUpLast ==
    /\ clean_up_queue = << >>
    /\ clean_up_last
    /\ clean_up_last' = FALSE
    /\ Hold("RemoveSubjectRange", FirstCleanUp(Len(active_entry_tree) + 1),
            MaxSubject)
    /\ UNCHANGED << entryVars, clean_up_queue, activation_queue >>

\* Mutant: every activated entry becomes a head and adds its subject.
MutantBecomesHead(e) == TRUE

BecomesHead(e) == ~ HasSubject(Active, SubjectOf[e])

Activate(e) ==
    /\ activation_queue' = Tail(activation_queue)
    /\ inactive_entry_tree' = inactive_entry_tree \ {e}
    /\ active_entry_tree' = Insert(e)
    /\ is_active' = is_active \cup {e}
    /\ \/ /\ BecomesHead(e)
          /\ is_head' = is_head \cup {e}
          /\ Hold("AddSubject", SubjectOf[e], SubjectOf[e])
       \/ /\ ~ BecomesHead(e)            \* CallAgain: the task polls once more
          /\ UNCHANGED << is_head, driver, update >>

PopRegistrationQueue ==
    /\ clean_up_queue = << >>
    /\ ~ clean_up_last
    /\ activation_queue # << >>
    /\ Activate(Head(activation_queue))
    /\ UNCHANGED << clean_up_queue, clean_up_last >>

\* The queues are empty: the waker is registered and the task suspends.
Suspend ==
    /\ clean_up_queue = << >>
    /\ ~ clean_up_last
    /\ activation_queue = << >>
    /\ driver' = "waiting"
    /\ UNCHANGED << entryVars, queueVars, update >>

PollPopFilterUpdate ==
    /\ driver = "polling"
    /\ \/ PopCleanUpQueue
       \/ PopCleanUpLast
       \/ PopRegistrationQueue
       \/ Suspend
    /\ UNCHANGED << free_slot_count, pushVars, filter >>

\* Both drivers panic when a subject is added and no slot is left.
ApplyUpdate ==
    /\ driver = "applying"
    /\ \/ /\ update.kind = "AddSubject"
          /\ Cardinality(filter) < SlotCount
          /\ filter' = filter \cup {update.first}
          /\ driver' = "polling"
          /\ update' = NoUpdate
       \/ /\ update.kind = "AddSubject"
          /\ Cardinality(filter) >= SlotCount
          /\ driver' = "panicked"
          /\ UNCHANGED << filter, update >>
       \/ /\ update.kind = "RemoveSubjectRange"
          /\ filter' = filter \ (update.first .. update.last)
          /\ driver' = "polling"
          /\ update' = NoUpdate
    /\ UNCHANGED << entryVars, queueVars, free_slot_count, pushVars >>

\* Another future of the executor's task is woken and polls this one too.
SpuriousPoll ==
    /\ driver = "waiting"
    /\ driver' = "polling"
    /\ UNCHANGED << entryVars, queueVars, free_slot_count, pushVars, update,
                    filter >>

-----------------------------------------------------------------------------
FilterTask == PollPopFilterUpdate \/ ApplyUpdate

Next ==
    \/ \E e \in Entries : Register(e) \/ Unregister(e)
    \/ \E s \in Subjects : HubPushStart(s)
    \/ HubPushNext
    \/ FilterTask
    \/ SpuriousPoll

Spec == Init /\ [][Next]_vars

\* The executor runs the filter task whenever its waker has been called.
FairSpec == Spec /\ WF_vars(FilterTask)

-----------------------------------------------------------------------------
(***************************************************************************)
(* Safety.                                                                 *)
(***************************************************************************)

\* The active tree is in the order of the subjects and holds an entry once.
TreeInOrder ==
    /\ \A i, j \in DOMAIN active_entry_tree :
           i < j => SubjectOf[active_entry_tree[i]] <= SubjectOf[active_entry_tree[j]]
    /\ IsInjective(active_entry_tree)

\* An active entry has the is_head flag exactly if it is the first of its
\* subject, through every order of registration, removal and activation.
\* hub_push_start asserts it of any subject, and the end of a push relies on it.
HeadIsFirst ==
    /\ is_head \subseteq Active
    /\ \A i \in DOMAIN active_entry_tree :
           active_entry_tree[i] \in is_head <=>
               \/ i = 1
               \/ SubjectOf[active_entry_tree[i - 1]] #
                      SubjectOf[active_entry_tree[i]]

\* The flags and the two intrusive links of an entry agree with the tree and the
\* lists it is in: reg_unregister chooses the unsafe cursor it takes from the
\* flags alone, and a tail is asserted to be in no list.
LinksMatchFlags ==
    /\ is_active = Active
    /\ inactive_entry_tree = ToSet(activation_queue)
    /\ inactive_entry_tree \cap Active = {}
    /\ ToSet(clean_up_queue) \subseteq is_head
    /\ IsInjective(activation_queue)
    /\ IsInjective(clean_up_queue)

\* A RemoveSubjectRange on its way to the driver holds no subject that has an
\* active subscriber, although endpoints go on registering while it travels.
RemovalSparesActive ==
    update.kind = "RemoveSubjectRange" =>
        /\ update.first <= update.last
        /\ \A e \in Active : SubjectOf[e] \notin update.first .. update.last

\* An AddSubject never brings a second slot to a subject the filter holds:
\* the drivers put it into the first empty slot without looking.
AddIsNew == update.kind = "AddSubject" => update.first \notin filter

\* Every active subscriber's subject passes the driver's filter, or its
\* AddSubject is on its way: no update that is computed from the tree and applied
\* later takes it out again, or takes a second slot for it.
FilterCoversActive ==
    /\ \A e \in Active :
           \/ SubjectOf[e] \in filter
           \/ update.kind = "AddSubject" /\ update.first = SubjectOf[e]
    /\ RemovalSparesActive
    /\ AddIsNew

\* A pending clean-up has a gap to clean: prev_subject and next_subject do not
\* fail and first_clean_up <= last_clean_up, as the driver side asserts.
CleanUpGapsNonEmpty ==
    /\ \A i \in DOMAIN active_entry_tree :
           active_entry_tree[i] \in ToSet(clean_up_queue) =>
               FirstCleanUp(i) < SubjectOf[active_entry_tree[i]]
    /\ clean_up_last => FirstCleanUp(Len(active_entry_tree) + 1) <= MaxSubject

\* Each critical section of a push puts the frame into the buffer of an active
\* entry of its subject that has not had it. When the push ends, every endpoint
\* that has been a subscriber since it began has had the frame.
DeliversExactlyOnce ==
    [][/\ HubPushNext =>
              /\ \A e \in Delivery : e \in Active /\ SubjectOf[e] = frame_subject
              /\ next_push_ptr \notin delivered
       /\ frame_subject # NoSubject /\ frame_subject' = NoSubject =>
              owed \subseteq Delivery]_vars

(***************************************************************************)
(* Liveness.                                                               *)
(***************************************************************************)

\* A registered endpoint is activated, or dropped, unless the filter task
\* panicked: other endpoints that come and go, and the clean-ups that go first,
\* cannot hold its activation back for ever.
ActivationHappens ==
    \A e \in Entries :
        e \in inactive_entry_tree ~>
            e \notin inactive_entry_tree \/ driver = "panicked"

\* A filter slot nobody subscribes to is freed, unless the filter task panicked:
\* an endpoint that subscribes again does not take the stale slot over.
StaleSlotIsFreed ==
    \A s \in Subjects :
        s \in filter /\ ~ HasSubject(Active, s) ~>
            s \notin filter \/ driver = "panicked"

(***************************************************************************)
(* What the documentation says of the slots.                               *)
(***************************************************************************)

\* driver.rs: SlotCount is the number of subjects "the driver can
\* simultaneously subscribe to": the registry never asks it for one more.
NeverOversubscribed ==
    update.kind = "AddSubject" => Cardinality(filter) < SlotCount

=============================================================================
