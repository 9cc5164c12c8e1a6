---------------------------- MODULE PaymentStream ----------------------------
(***************************************************************************)
(* How the payments of one watched account reach the remittances: the SSE  *)
(* streamer (src/modules/horizon/PaymentStreamer.ts), the polling          *)
(* reconciler (Reconciler.ts) and the table both of them dedupe with       *)
(* (payments.ts).                                                          *)
(*                                                                         *)
(* Horizon numbers the records of the account 1, 2, ...; a cursor is the   *)
(* number of a record.  The streamer does not wait for the handler of one  *)
(* message before it takes the next, and the reconciler runs beside it.    *)
(* The accounts share nothing but the reconciler's running flag, which     *)
(* here is the single pass.                                                *)
(***************************************************************************)
EXTENDS Naturals, FiniteSets

CONSTANTS
  MaxRecords,  \* bound: how many records the account gets
  Others,      \* the records that are no payments: normalizePayment drops them
  PageSize,    \* records on a page of Horizon
  MaxFaults,   \* bound: how many restarts and failed passes
  Now          \* the cursor of an account that has none yet

ASSUME StreamAssumption ==
  /\ MaxRecords \in Nat
  /\ PageSize \in Nat \ {0}
  /\ MaxFaults \in Nat
  /\ Now \notin Nat

Records == 1..MaxRecords
Events == Records \ Others

VARIABLES
  ledger,      \* Horizon: the number of the account's last record
  cursor,      \* stream_cursors: the account's row
  stored,      \* payment_events: the events persisted for the account
  dispatched,  \* how often each event was handed to the remittances
  stream,      \* the subscription: its point, and the last record it delivered
  messages,    \* the running onMessage handlers
  pass,        \* the running reconcile pass
  due,         \* ghost: the records made while the account had a cursor
  overlooked,  \* ghost: the due events a subscription at "now" started behind
  interrupted, \* ghost: the events whose handler or pass a fault cut short
  faults       \* how many faults there were

vars == <<ledger, cursor, stored, dispatched, stream, messages, pass, due, overlooked, interrupted, faults>>

database == <<cursor, stored, dispatched>>

-----------------------------------------------------------------------------
NoStream == [pc |-> "off", at |-> 0]
NoPass == [pc |-> "idle", from |-> 0, upto |-> 0, events |-> {}, fresh |-> {}]

Cursors == {Now} \union 0..MaxRecords

Passes == [pc     : {"idle", "fetch", "persist", "dispatch"},
           from   : Cursors,
           upto   : 0..MaxRecords,
           events : SUBSET Events,
           fresh  : SUBSET Events]

\* A new account, which has no cursor (latestCursor and loadCursor answer "now").
Init ==
  /\ ledger = 0
  /\ cursor = Now
  /\ stored = {}
  /\ dispatched = [c \in Records |-> 0]
  /\ stream = NoStream
  /\ messages = {}
  /\ pass = NoPass
  /\ due = {}
  /\ overlooked = {}
  /\ interrupted = {}
  /\ faults = 0

\* A payment, or another operation, of the account: due once there is a cursor
\* from which it could be read.
Pay ==
  /\ ledger < MaxRecords
  /\ ledger' = ledger + 1
  /\ due' = IF cursor # Now THEN due \union {ledger + 1} ELSE due
  /\ UNCHANGED <<database, stream, messages, pass, overlooked, interrupted, faults>>

\* Event c is in the hands of the running pass, or of a running handler.
InPass(c) == (c \in pass.events /\ pass.pc = "persist") \/ c \in pass.fresh
InHand(c) ==
  \/ \E m \in messages : m.at = c /\ m.pc \in {"persist", "dispatch"}
  \/ InPass(c)

\* Event c was handed over, or somebody has or had it in hand.
TakenCareOf(c) == dispatched[c] > 0 \/ InHand(c) \/ c \in interrupted

-----------------------------------------------------------------------------
\* The streamer

\* watch: the cursor is loaded ...
LoadCursor ==
  /\ stream.pc = "off"
  /\ stream' = [pc |-> "loaded", at |-> cursor]
  /\ UNCHANGED <<ledger, database, messages, pass, due, overlooked, interrupted, faults>>

\* ... and the subscription starts after it; "now" is Horizon's last record, also
\* when a handler has saved a cursor since "now" was loaded.
Subscribe ==
  /\ stream.pc = "loaded"
  /\ stream' = [pc |-> "open", at |-> IF stream.at = Now THEN ledger ELSE stream.at]
  /\ overlooked' = IF stream.at = Now
                     THEN overlooked \union {c \in due \intersect Events : ~TakenCareOf(c)}
                     ELSE overlooked
  /\ UNCHANGED <<ledger, database, messages, pass, due, interrupted, faults>>

\* Faulty variant: a record is handled whatever it is.
OnMessageUnfiltered ==
  /\ stream.pc = "open"
  /\ stream.at < ledger
  /\ stream' = [stream EXCEPT !.at = @ + 1]
  /\ messages' = messages \union {[at |-> stream.at + 1, pc |-> "persist"]}
  /\ UNCHANGED <<ledger, database, pass, due, overlooked, interrupted, faults>>

\* The next record arrives: a handler starts, unless it is no payment.
OnMessage ==
  /\ stream.pc = "open"
  /\ stream.at < ledger
  /\ stream' = [stream EXCEPT !.at = @ + 1]
  /\ messages' = IF stream.at + 1 \in Events
                   THEN messages \union {[at |-> stream.at + 1, pc |-> "persist"]}
                   ELSE messages
  /\ UNCHANGED <<ledger, database, pass, due, overlooked, interrupted, faults>>

\* onError: the subscription is closed and watched again after a while.  The
\* handlers of its messages go on.
OnError ==
  /\ stream.pc = "open"
  /\ stream' = NoStream
  /\ UNCHANGED <<ledger, database, messages, pass, due, overlooked, interrupted, faults>>

Becomes(m, pc) == messages' = (messages \ {m}) \union {[m EXCEPT !.pc = pc]}
Ends(m) == messages' = messages \ {m}

\* Faulty variant: an event that is persisted already is handled again.
PersistMessageAlways(m) ==
  /\ m.pc = "persist"
  /\ stored' = stored \union {m.at}
  /\ Becomes(m, "dispatch")
  /\ UNCHANGED <<ledger, cursor, dispatched, stream, pass, due, overlooked, interrupted, faults>>

\* persistEvents in onMessage: only a new event is handled.
PersistMessage(m) ==
  /\ m.pc = "persist"
  /\ stored' = stored \union {m.at}
  /\ IF m.at \in stored THEN Ends(m) ELSE Becomes(m, "dispatch")
  /\ UNCHANGED <<ledger, cursor, dispatched, stream, pass, due, overlooked, interrupted, faults>>

\* handleEvents in onMessage.
DispatchMessage(m) ==
  /\ m.pc = "dispatch"
  /\ dispatched' = [dispatched EXCEPT ![m.at] = @ + 1]
  /\ Becomes(m, "save")
  /\ UNCHANGED <<ledger, cursor, stored, stream, pass, due, overlooked, interrupted, faults>>

\* setCursor in onMessage: whatever the cursor is by now.
SaveMessageCursor(m) ==
  /\ m.pc = "save"
  /\ cursor' = m.at
  /\ Ends(m)
  /\ UNCHANGED <<ledger, stored, dispatched, stream, pass, due, overlooked, interrupted, faults>>

-----------------------------------------------------------------------------
\* The reconciler

\* Faulty variant: the reconciler only polls while the stream is down.
StartPassWhenDown ==
  /\ pass = NoPass
  /\ stream.pc # "open"
  /\ pass' = [NoPass EXCEPT !.pc = "fetch", !.from = cursor]
  /\ UNCHANGED <<ledger, database, stream, messages, due, overlooked, interrupted, faults>>

\* A pass starts, unless one is running, by reading the cursor.
StartPass ==
  /\ pass = NoPass
  /\ pass' = [NoPass EXCEPT !.pc = "fetch", !.from = cursor]
  /\ UNCHANGED <<ledger, database, stream, messages, due, overlooked, interrupted, faults>>

\* The last record on the page after cursor c; an empty page, as every page
\* after "now", ends where it starts.
PageEnd(c) == IF c = Now THEN 0
              ELSE IF c + PageSize <= ledger THEN c + PageSize ELSE ledger

PageIsEmpty(c) == c = Now \/ PageEnd(c) = c

\* A page is fetched; an empty one ends the pass.
FetchPage ==
  LET from == pass.from IN
  /\ pass.pc = "fetch"
  /\ pass' = IF PageIsEmpty(from) THEN NoPass
             ELSE [pass EXCEPT !.pc = "persist",
                               !.upto = PageEnd(from),
                               !.events = {c \in Events : from < c /\ c <= PageEnd(from)}]
  /\ UNCHANGED <<ledger, database, stream, messages, due, overlooked, interrupted, faults>>

\* persistEvents: only the new events of the page are handled.
PersistPage ==
  /\ pass.pc = "persist"
  /\ stored' = stored \union pass.events
  /\ pass' = [pass EXCEPT !.pc = "dispatch", !.fresh = pass.events \ stored]
  /\ UNCHANGED <<ledger, cursor, dispatched, stream, messages, due, overlooked, interrupted, faults>>

\* handleEvents, one event after the other.
DispatchNext ==
  /\ pass.pc = "dispatch"
  /\ \E c \in pass.fresh :
       /\ \A k \in pass.fresh : c <= k
       /\ dispatched' = [dispatched EXCEPT ![c] = @ + 1]
       /\ pass' = [pass EXCEPT !.fresh = @ \ {c}]
  /\ UNCHANGED <<ledger, cursor, stored, stream, messages, due, overlooked, interrupted, faults>>

\* The cursor is set to the last of the events, if there is one.
SaveLast(events) ==
  \/ /\ cursor' \in events
     /\ \A c \in events : c <= cursor'
  \/ events = {} /\ UNCHANGED cursor

\* Faulty variant: the cursor is saved before the new events are handled.
SavePageCursorEarly ==
  /\ pass.pc = "dispatch"
  /\ SaveLast(pass.events)
  /\ pass' = [NoPass EXCEPT !.pc = "fetch", !.from = pass.upto]
  /\ UNCHANGED <<ledger, stored, dispatched, stream, messages, due, overlooked, interrupted, faults>>

\* The cursor is saved after the last event of the page, and the next page is
\* that after its last record.
SavePageCursor ==
  /\ pass.pc = "dispatch"
  /\ pass.fresh = {}
  /\ SaveLast(pass.events)
  /\ pass' = [NoPass EXCEPT !.pc = "fetch", !.from = pass.upto]
  /\ UNCHANGED <<ledger, stored, dispatched, stream, messages, due, overlooked, interrupted, faults>>

-----------------------------------------------------------------------------
\* Faults

\* The process restarts; a handler that rejects takes it down as well.
Restart ==
  /\ faults < MaxFaults
  /\ faults' = faults + 1
  /\ interrupted' = interrupted \union {c \in Events : InHand(c)}
  /\ stream' = NoStream
  /\ messages' = {}
  /\ pass' = NoPass
  /\ UNCHANGED <<ledger, database, due, overlooked>>

\* A pass that throws is given up; the next one starts from the cursor.
PassFails ==
  /\ pass # NoPass
  /\ faults < MaxFaults
  /\ faults' = faults + 1
  /\ interrupted' = interrupted \union {c \in Events : InPass(c)}
  /\ pass' = NoPass
  /\ UNCHANGED <<ledger, database, stream, messages, due, overlooked>>

-----------------------------------------------------------------------------
HandleMessage == \E m \in messages : PersistMessage(m) \/ DispatchMessage(m) \/ SaveMessageCursor(m)
Reconcile == StartPass \/ FetchPage \/ PersistPage \/ DispatchNext \/ SavePageCursor

Next ==
  \/ Pay
  \/ LoadCursor \/ Subscribe \/ OnMessage \/ OnError
  \/ HandleMessage
  \/ Reconcile
  \/ Restart \/ PassFails

Spec == Init /\ [][Next]_vars

\* Fairness: handlers that run go on, and the reconciler's interval fires
\* forever.  Nothing is assumed of the stream, which may fail again and again.
FairSpec == Spec /\ WF_vars(HandleMessage) /\ WF_vars(Reconcile)

-----------------------------------------------------------------------------
\* Properties

\* Every variable stays within its type: cursors name records, handlers and
\* passes only hold events.
TypeOK ==
  /\ ledger \in 0..MaxRecords
  /\ cursor \in Cursors
  /\ stored \subseteq Events
  /\ dispatched \in [Records -> Nat]
  /\ stream \in [pc : {"loaded"}, at : Cursors] \union [pc : {"off", "open"}, at : 0..MaxRecords]
  /\ messages \subseteq [at : Events, pc : {"persist", "dispatch", "save"}]
  /\ pass \in Passes
  /\ due \subseteq Records
  /\ overlooked \subseteq Events
  /\ interrupted \subseteq Events
  /\ faults \in 0..MaxFaults

\* Reconciler.ts: "Dedupe via unique(cursor, account) makes stream + poll
\* overlap safe": however stream, replays, passes and restarts overlap, no
\* event is handed to the remittances twice (persistEvents).
DispatchedOnce == \A c \in Events : dispatched[c] <= 1

\* The events the poll of the reconciler has to find if the stream does not: all
\* that are due, but for those a subscription at "now" started behind.
Owed == (due \ overlooked) \intersect Events

\* Every event owed up to record n is taken care of.
Covered(n) == \A c \in Owed : c <= n => TakenCareOf(c)

\* The cursor never moves past an event that is owed and that nobody has in hand,
\* although handlers of later messages and a pass may save theirs first; what may
\* be behind it undone are the events in hand when a restart or a failing pass
\* struck, and those a subscription at "now" started behind (setCursor in
\* onMessage and in reconcileAccount).
CursorSkipsNothing == cursor # Now => Covered(cursor)

\* Reconciler.ts: "If the streamer silently drops events (reconnect gaps, proxy
\* timeouts), polling Horizon for payments after the last persisted cursor fills
\* the hole": it can fill no hole that is not after the cursor, so where nothing
\* fails but the stream no payment made since there is a cursor is behind it
\* unless somebody has it in hand.
NoHoleBehindCursor ==
  cursor # Now => \A c \in due \intersect Events : c <= cursor => TakenCareOf(c)

\* PaymentStreamer.ts: cursors are persisted "so a crash mid-stream resumes
\* exactly where it stopped", and Reconciler.ts: polling "for payments after the
\* last persisted cursor fills the hole": a payment made to an account that has a
\* cursor is handed to the remittances sooner or later.
NothingIsLost == \A c \in Events : c \in due ~> dispatched[c] > 0

\* What the code does ensure: a payment made to an account that has a cursor is
\* handed over sooner or later, unless it was in hand when a restart or a failing
\* pass struck, or a subscription at a stale "now" started behind it.  Whatever
\* else the stream drops, polling from the cursor finds (reconcileAccount).
OnlyInterruptedEventsAreLost ==
  \A c \in Events :
    c \in due ~> dispatched[c] > 0 \/ c \in interrupted \/ c \in overlooked

-----------------------------------------------------------------------------
\* The inductive invariant

\* An event is handed over at most once because only one handler can ever get
\* it from persistEvents, and keeps it to itself until it hands it over.
HandedOverOnce ==
  /\ \A c \in Events : dispatched[c] <= 1 /\ (c \notin stored => dispatched[c] = 0)
  /\ \A m \in messages :
       m.pc = "dispatch" => m.at \in stored \ pass.fresh /\ dispatched[m.at] = 0
  /\ \A c \in pass.fresh : c \in stored /\ dispatched[c] = 0

\* A stored event is accounted for: handed over, about to be, or interrupted.
Accounted(c) ==
  \/ dispatched[c] > 0
  \/ c \in interrupted
  \/ [at |-> c, pc |-> "dispatch"] \in messages
  \/ c \in pass.fresh

\* Everything up to record n, which exists, is taken care of.
Reached(n) == n \in 0..ledger /\ Covered(n)

\* The positions from which the streamer and the reconciler go on reading, and
\* those to which the cursor is or may yet be set (0 where they are at rest).
Positions ==
  ({0, cursor, stream.at, pass.from, pass.upto} \union {m.at : m \in messages}) \ {Now}

\* No position leaves an event behind that is owed.
NothingSkipped ==
  /\ \A n \in Positions : Reached(n)
  /\ cursor = Now => due = {}
  /\ \A c \in pass.events : c <= pass.upto
  /\ pass.pc # "dispatch" => pass.fresh = {}
  /\ pass.pc \in {"idle", "fetch"} => pass.events = {}
  /\ \A c \in stored : Accounted(c)

\* Every event persisted or passed is accounted for: in all behaviours each is
\* handed over at most once, and none that is owed is left out, unless a fault
\* interrupted it (the handlers of PaymentStreamer.ts and Reconciler.ts around
\* persistEvents).
EventsAccounted ==
  /\ TypeOK
  /\ due \subseteq 1..ledger
  /\ HandedOverOnce
  /\ NothingSkipped
=============================================================================
