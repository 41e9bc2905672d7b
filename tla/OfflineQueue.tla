---------------------------- MODULE OfflineQueue -----------------------------
(***************************************************************************)
(* The offline queue of the web client: SOS requests and ground reports    *)
(* that a citizen submits without a connection are kept in IndexedDB and   *)
(* sent by syncOfflineQueue when the browser fires 'online' or the citizen *)
(* presses the sync button.                                                *)
(*                                                                         *)
(* A device has one store and any number of tabs of the application.  Each *)
(* tab is single-threaded but gives way at every await; isSyncing, the     *)
(* only guard, is a variable of the tab.  The server is what POST /sos and *)
(* POST /ground-reports do with a request of this client: createSos sends  *)
(* no Authorization header and is refused, submitGroundReport sends the    *)
(* stored token, and the deduplicator marks a report it has seen before.   *)
(*                                                                         *)
(* Not covered: what an item contains (items differ in place or type, so   *)
(* an item is a duplicate only of itself), the snapshot cache, the counter *)
(* of pending items, and IndexedDB version upgrades.                       *)
(***************************************************************************)
EXTENDS Naturals, FiniteSets

CONSTANTS
  Sos,            \* SOS requests a citizen makes on this device
  Reports,        \* ground reports a citizen makes on this device
  Tabs,           \* tabs of the application on this device
  MaxFaults,      \* bound on closed tabs and on network, server and storage faults
  None

Items == Sos \cup Reports

ASSUME OfflineAssumption ==
  /\ Sos \cap Reports = {}
  /\ None \notin Items \cup Tabs
  /\ MaxFaults \in Nat

VARIABLES
  online,         \* navigator.onLine
  store,          \* [Items -> status of the entry in IndexedDB, or "absent"]
  form,           \* [Items -> what has become of its submission, and in which tab]
  tab,            \* [Tabs -> the state of the tab]
  rows,           \* [Items -> rows the server holds for the item]
  faults          \* faults so far

queueVars == <<online, store, form, tab, rows, faults>>

Entry == {"absent", "QUEUED_OFFLINE", "SYNC_FAILED"}

\* "queueing" while the put is in flight; then what the citizen is shown.
Form == [stage : {"blank", "queueing", "queued", "sent", "error"}, by : Tabs \cup {None}]

\* A tab: the phase of its syncOfflineQueue ("idle" when isSyncing is false), the
\* list it is working through, what is left of it, the item whose request it
\* awaits, and whether an 'online' event waits to be handled.
Tab == [phase : {"closed", "idle", "listing", "ready", "posted", "accepted", "refused"},
        list : {"sos", "reports"}, todo : SUBSET Items, item : Items \cup {None},
        woken : BOOLEAN]

NewTab == [phase |-> "idle", list |-> "sos", todo |-> {}, item |-> None, woken |-> FALSE]

QueueInit ==
  /\ online \in BOOLEAN
  /\ store = [i \in Items |-> "absent"]
  /\ form = [i \in Items |-> [stage |-> "blank", by |-> None]]
  /\ tab = [t \in Tabs |-> NewTab]
  /\ rows = [i \in Items |-> [original |-> 0, duplicate |-> 0]]
  /\ faults = 0

Open(t) == tab[t].phase # "closed"

Fault == faults < MaxFaults /\ faults' = faults + 1

-----------------------------------------------------------------------------
(* The server                                                              *)

\* Only a request that carries a token passes get_current_user.
Authorised(i) == i \in Reports

\* A report that is there already is stored again as a duplicate.
Graded(row) == IF row.original = 0 THEN [row EXCEPT !.original = 1]
                                   ELSE [row EXCEPT !.duplicate = @ + 1]

\* The server answers 201.
Accept(i) == Authorised(i) /\ rows' = [rows EXCEPT ![i] = Graded(@)]

-----------------------------------------------------------------------------
(* Submission                                                              *)

Decide(t, i, stage) == form' = [form EXCEPT ![i] = [stage |-> stage, by |-> t]]

\* The browser is offline: queueSOS or queueReport is called and awaited.
SubmitOffline(t, i) ==
  /\ Open(t)
  /\ form[i].stage = "blank"
  /\ ~online
  /\ Decide(t, i, "queueing")
  /\ UNCHANGED <<online, store, tab, rows, faults>>

\* The browser is online: the request is made at once.  An SOS that cannot reach
\* the server is queued; a report is not, the citizen is shown the error.
SubmitOnline(t, i) ==
  /\ Open(t)
  /\ form[i].stage = "blank"
  /\ online
  /\ \/ Accept(i) /\ Decide(t, i, "sent") /\ UNCHANGED faults
     \/ ~Authorised(i) /\ Decide(t, i, "error") /\ UNCHANGED <<rows, faults>>
     \/ /\ Fault
        /\ Decide(t, i, IF i \in Sos THEN "queueing" ELSE "error")
        /\ (UNCHANGED rows \/ Accept(i))
  /\ UNCHANGED <<online, store, tab>>

\* The put has succeeded: the citizen is told that the item is queued, and that
\* it will be sent when the connection is back.
Stored(i) ==
  /\ form[i].stage = "queueing"
  /\ store' = [store EXCEPT ![i] = "QUEUED_OFFLINE"]
  /\ form' = [form EXCEPT ![i].stage = "queued"]
  /\ UNCHANGED <<online, tab, rows, faults>>

\* The put has failed: the citizen is told that the item was not queued.
NotStored(i) ==
  /\ form[i].stage = "queueing"
  /\ Fault
  /\ form' = [form EXCEPT ![i].stage = "error"]
  /\ UNCHANGED <<online, store, tab, rows>>

-----------------------------------------------------------------------------
(* syncOfflineQueue                                                        *)

\* The run of tab t begins with the list of SOS requests.
Begun(t) == [tab[t] EXCEPT !.phase = "listing", !.list = "sos", !.woken = FALSE]

\* The 'online' handler: it starts a run, unless one is under way or the
\* connection has gone again.
OnlineEvent(t) ==
  /\ Open(t)
  /\ tab[t].woken
  /\ tab' = [tab EXCEPT ![t] = IF online /\ tab[t].phase = "idle"
                                 THEN Begun(t) ELSE [@ EXCEPT !.woken = FALSE]]
  /\ UNCHANGED <<online, store, form, rows, faults>>

\* The citizen presses the sync button.
ManualSync(t) ==
  /\ tab[t].phase = "idle"
  /\ online
  /\ tab' = [tab EXCEPT ![t] = [Begun(t) EXCEPT !.woken = tab[t].woken]]
  /\ UNCHANGED <<online, store, form, rows, faults>>

\* Mutation: only entries that have never failed are read back.
QueueFresh(list) == {i \in IF list = "sos" THEN Sos ELSE Reports : store[i] = "QUEUED_OFFLINE"}

\* The entries of one object store, those that failed before included.
Queue(list) == {i \in IF list = "sos" THEN Sos ELSE Reports : store[i] # "absent"}

\* getAll returns the entries of one object store, as they are now.
List(t) ==
  /\ tab[t].phase = "listing"
  /\ tab' = [tab EXCEPT ![t].phase = "ready", ![t].todo = Queue(tab[t].list)]
  /\ UNCHANGED <<online, store, form, rows, faults>>

\* Mutation: isSyncing is not reset when IndexedDB ends a run.
ReleasedNever(q) == [q EXCEPT !.phase = "abandoned"]

\* What the finally block leaves of a run.
Released(q) == [q EXCEPT !.phase = "idle", !.list = "sos", !.todo = {}, !.item = None]

\* The loop goes on: the next request, the next list, or the end.
Advance(t) ==
  LET q == tab[t] IN
  /\ q.phase = "ready"
  /\ \/ \E i \in q.todo :
          tab' = [tab EXCEPT ![t] = [q EXCEPT !.phase = "posted", !.item = i, !.todo = @ \ {i}]]
     \/ /\ q.todo = {} /\ q.list = "sos"
        /\ tab' = [tab EXCEPT ![t] = [q EXCEPT !.phase = "listing", !.list = "reports"]]
     \/ /\ q.todo = {} /\ q.list = "reports"
        /\ tab' = [tab EXCEPT ![t] = [q EXCEPT !.phase = "idle", !.list = "sos"]]
  /\ UNCHANGED <<online, store, form, rows, faults>>

\* The server answers the request of tab t.
Serve(t) ==
  LET i == tab[t].item IN
  /\ tab[t].phase = "posted"
  /\ online
  /\ \/ Accept(i) /\ tab' = [tab EXCEPT ![t].phase = "accepted"]
     \/ ~Authorised(i) /\ tab' = [tab EXCEPT ![t].phase = "refused"] /\ UNCHANGED rows
  /\ UNCHANGED <<online, store, form, faults>>

\* The connection has gone: fetch fails and the catch block comes next.
Unreachable(t) ==
  /\ tab[t].phase = "posted"
  /\ ~online
  /\ tab' = [tab EXCEPT ![t].phase = "refused"]
  /\ UNCHANGED <<online, store, form, rows, faults>>

\* What becomes of the entry of an item that has been sent.
SentEntry == "absent"

\* Mutation: an item that could not be sent is removed like one that was.
FailedEntryDropped == "absent"

\* What becomes of the entry of an item that could not be sent.
FailedEntry == "SYNC_FAILED"

\* The entry of the item of tab t is written, and the loop goes on.
Settle(t, entry) ==
  /\ store' = [store EXCEPT ![tab[t].item] = entry]
  /\ tab' = [tab EXCEPT ![t] = [@ EXCEPT !.phase = "ready", !.item = None]]
  /\ UNCHANGED <<online, form, rows, faults>>

RemoveSent(t) == tab[t].phase = "accepted" /\ Settle(t, SentEntry)

\* The catch block puts the item as it was read, even if another tab has sent
\* and removed it meanwhile.
PutBack(t) == tab[t].phase = "refused" /\ Settle(t, FailedEntry)

\* What a run does by itself.
SyncStep(t) == \/ List(t) \/ Advance(t)
               \/ Serve(t) \/ Unreachable(t)
               \/ RemoveSent(t) \/ PutBack(t)

-----------------------------------------------------------------------------
(* Failures                                                                *)

\* The request is lost or answered with an error, its answer is lost, or the
\* sent item cannot be removed: in each case the catch block comes next.
RequestFault(t) ==
  /\ tab[t].phase \in {"posted", "accepted"}
  /\ Fault
  /\ tab' = [tab EXCEPT ![t].phase = "refused"]
  /\ UNCHANGED <<online, store, form, rows>>

\* IndexedDB fails outside the try of the loop: the error ends the run.
StorageFault(t) ==
  /\ tab[t].phase \in {"listing", "refused"}
  /\ Fault
  /\ tab' = [tab EXCEPT ![t] = Released(@)]
  /\ UNCHANGED <<online, store, form, rows>>

\* The tab is closed in the middle of whatever it is doing; an item it was about
\* to put is gone with it.
Close(t) ==
  /\ Open(t)
  /\ Fault
  /\ tab' = [tab EXCEPT ![t] = [NewTab EXCEPT !.phase = "closed"]]
  /\ form' = [i \in Items |-> IF form[i] = [stage |-> "queueing", by |-> t]
                                THEN [form[i] EXCEPT !.stage = "error"] ELSE form[i]]
  /\ UNCHANGED <<online, store, rows>>

\* The tab is opened again: the pending items are counted, none is sent.
Reopen(t) ==
  /\ ~Open(t)
  /\ tab' = [tab EXCEPT ![t] = NewTab]
  /\ UNCHANGED <<online, store, form, rows, faults>>

Running(t) == tab[t].phase \notin {"idle", "closed"}

\* The connection goes; during a run of the queue that counts as a fault.
GoOffline ==
  /\ online
  /\ online' = FALSE
  /\ IF \E t \in Tabs : Running(t) THEN Fault ELSE UNCHANGED faults
  /\ UNCHANGED <<store, form, tab, rows>>

\* The browser is online again and fires 'online' in every open tab.
GoOnline ==
  /\ ~online
  /\ online' = TRUE
  /\ tab' = [t \in Tabs |-> [tab[t] EXCEPT !.woken = Open(t)]]
  /\ UNCHANGED <<store, form, rows, faults>>

QueueNext ==
  \/ \E t \in Tabs, i \in Items : SubmitOffline(t, i) \/ SubmitOnline(t, i)
  \/ \E i \in Items : Stored(i) \/ NotStored(i)
  \/ \E t \in Tabs : \/ OnlineEvent(t) \/ ManualSync(t) \/ SyncStep(t)
                     \/ RequestFault(t) \/ StorageFault(t) \/ Close(t) \/ Reopen(t)
  \/ GoOffline \/ GoOnline

QueueSpec == QueueInit /\ [][QueueNext]_queueVars

\* A tab that is open runs its handlers, and the browser settles every request
\* and every IndexedDB call.  The citizen need not press the button.
FairSpec ==
  /\ QueueSpec
  /\ \A i \in Items : WF_queueVars(Stored(i))
  /\ \A t \in Tabs : WF_queueVars(OnlineEvent(t)) /\ WF_queueVars(SyncStep(t))

-----------------------------------------------------------------------------
(* Properties                                                              *)

\* Every variable holds a value the program could hold.
QueueTypeOK ==
  /\ online \in BOOLEAN
  /\ store \in [Items -> Entry]
  /\ form \in [Items -> Form]
  /\ tab \in [Tabs -> Tab]
  /\ rows \in [Items -> [original : Nat, duplicate : Nat]]
  /\ faults \in Nat

\* What a run relies on between its steps: it works on one item, and removes an
\* entry only when the server has the item.
RunInv ==
  \A t \in Tabs :
    /\ tab[t].phase \in {"posted", "accepted", "refused"} => tab[t].item \in Items
    /\ tab[t].phase = "accepted" => rows[tab[t].item].original > 0

\* An item the citizen was told is queued is not lost, whatever tabs are closed
\* and whatever fails: it is in the store until the server has it.
NothingLost ==
  \A i \in Items :
    form[i].stage = "queued" => store[i] # "absent" \/ rows[i].original > 0

\* However often tabs send a report again after lost answers, failed removals
\* and entries put back by a slower tab, it counts once: every row beyond the
\* first is a duplicate.
CountsOnce == \A i \in Items : rows[i].original <= 1

\* The inductive invariant: whatever other tabs do, an entry is about to be removed
\* only after its item has been stored by the server.
QueueInv == QueueTypeOK /\ RunInv /\ NothingLost /\ CountsOnce

\* Every run of syncOfflineQueue ends, so isSyncing never shuts out later runs.
EverySyncEnds ==
  \A t \in Tabs : Running(t) ~> ~Running(t)

\* A report is not forgotten after failed attempts: if the citizen keeps pressing
\* the sync button, a queued report reaches the server.
PressingDelivers ==
  (\A t \in Tabs : []<><<ManualSync(t)>>_queueVars) =>
    \A i \in Reports : (form[i].stage = "queued") ~> (rows[i].original > 0)

=============================================================================
