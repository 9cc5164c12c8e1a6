------------------------- MODULE PaymentStreamProofs -------------------------
(***************************************************************************)
(* Proofs about PaymentStream, for any number of records, any page size    *)
(* and any number of faults.  The invariant has two halves: HandedOverOnce *)
(* says that an event has one handler at most, and NothingSkipped that no  *)
(* position from which anything is read or saved leaves an event behind    *)
(* that nobody has in hand and no fault interrupted.                       *)
(***************************************************************************)
EXTENDS PaymentStream, TLAPS

\* Initially nothing is due, stored or running.
LEMMA InitAccounted == Init => EventsAccounted
<1>1. SUFFICES ASSUME Init PROVE EventsAccounted
  OBVIOUS
<1>2. TypeOK
  BY <1>1, StreamAssumption DEF Init, TypeOK, Cursors, Passes, Records, Events, NoStream, NoPass
<1>3. HandedOverOnce
  BY <1>1 DEF Init, HandedOverOnce, NoPass, Events
<1>4. NothingSkipped
  BY <1>1, StreamAssumption
     DEF Init, NothingSkipped, Positions, Reached, Covered, Owed, NoStream, NoPass
<1> QED
  BY <1>1, <1>2, <1>3, <1>4 DEF EventsAccounted, Init

-----------------------------------------------------------------------------
\* Types

\* Every step keeps the types.
LEMMA TypeStep == TypeOK /\ due \subseteq 1..ledger /\ [Next]_vars => TypeOK' /\ due' \subseteq 1..ledger'
<1> SUFFICES ASSUME TypeOK, due \subseteq 1..ledger, [Next]_vars
             PROVE  TypeOK' /\ due' \subseteq 1..ledger'
  OBVIOUS
<1>0. NoPass \in Passes
  BY StreamAssumption DEF NoPass, Passes, Cursors
<1>1. CASE Pay
  BY <1>1, StreamAssumption DEF TypeOK, Records, Pay, database
<1>2. CASE LoadCursor \/ Subscribe \/ OnMessage \/ OnError
  BY <1>2, StreamAssumption
     DEF TypeOK, Records, Events, Cursors, LoadCursor, Subscribe, OnMessage,
         OnError, NoStream, database
<1>3. ASSUME NEW m \in messages, PersistMessage(m)
      PROVE  TypeOK' /\ due' \subseteq 1..ledger'
  BY <1>3 DEF TypeOK, PersistMessage, Becomes, Ends
<1>4. ASSUME NEW m \in messages, DispatchMessage(m)
      PROVE  TypeOK' /\ due' \subseteq 1..ledger'
  BY <1>4 DEF TypeOK, Events, DispatchMessage, Becomes
<1>5. ASSUME NEW m \in messages, SaveMessageCursor(m)
      PROVE  TypeOK' /\ due' \subseteq 1..ledger'
  BY <1>5 DEF TypeOK, Events, Records, Cursors, SaveMessageCursor, Ends
<1>6. CASE StartPass
  <2>1. pass' \in Passes
    BY <1>6 DEF StartPass, TypeOK, NoPass, Passes
  <2> QED
    BY <1>6, <2>1 DEF StartPass, TypeOK, database
<1>7. CASE FetchPage
  <2>1. pass.from # Now => PageEnd(pass.from) \in 0..MaxRecords
    BY StreamAssumption DEF TypeOK, Passes, Cursors, PageEnd
  <2>2. pass' \in Passes
    BY <1>0, <1>7, <2>1 DEF FetchPage, PageIsEmpty, TypeOK, Passes
  <2> QED
    BY <1>7, <2>2 DEF FetchPage, TypeOK, database
<1>8. CASE PersistPage
  <2>1. pass' \in Passes
    BY <1>8 DEF PersistPage, TypeOK, Passes
  <2>2. stored' \subseteq Events
    BY <1>8 DEF PersistPage, TypeOK, Passes
  <2> QED
    BY <1>8, <2>1, <2>2 DEF PersistPage, TypeOK
<1>9. CASE DispatchNext
  <2>1. pass' \in Passes
    BY <1>9 DEF DispatchNext, TypeOK, Passes
  <2>2. dispatched' \in [Records -> Nat]
    BY <1>9 DEF DispatchNext, TypeOK, Passes, Events
  <2> QED
    BY <1>9, <2>1, <2>2 DEF DispatchNext, TypeOK
<1>10. CASE SavePageCursor
  <2>1. pass' \in Passes
    BY <1>0, <1>10 DEF SavePageCursor, TypeOK, Passes, Cursors
  <2>2. cursor' \in Cursors
    BY <1>10 DEF SavePageCursor, SaveLast, TypeOK, Passes, Cursors, Events, Records
  <2> QED
    BY <1>10, <2>1, <2>2 DEF SavePageCursor, TypeOK
<1>11. CASE Restart \/ PassFails
  <2>1. interrupted' \subseteq Events
    BY <1>11 DEF TypeOK, Restart, PassFails
  <2>2. /\ faults' \in 0..MaxFaults /\ stream' \in {stream, NoStream}
        /\ messages' \subseteq messages /\ pass' = NoPass
        /\ UNCHANGED <<ledger, database, due, overlooked>>
    BY <1>11, StreamAssumption DEF TypeOK, Restart, PassFails
  <2> QED
    <3>1. stream' \in [pc : {"loaded"}, at : Cursors] \union [pc : {"off", "open"}, at : 0..MaxRecords]
      BY <2>2, StreamAssumption DEF TypeOK, NoStream
    <3> QED
      BY <1>0, <2>1, <2>2, <3>1 DEF TypeOK, database
<1>12. CASE UNCHANGED vars
  BY <1>12 DEF TypeOK, vars
<1> QED
  BY <1>1, <1>2, <1>3, <1>4, <1>5, <1>6, <1>7, <1>8, <1>9, <1>10, <1>11, <1>12
     DEF Next, HandleMessage, Reconcile

-----------------------------------------------------------------------------
\* At most once

\* No step hands an event over a second time.
LEMMA HandedOverStep ==
  TypeOK /\ HandedOverOnce /\ [Next]_vars => HandedOverOnce'
<1> SUFFICES ASSUME TypeOK, HandedOverOnce, [Next]_vars
             PROVE  HandedOverOnce'
  OBVIOUS
<1>1. CASE Pay \/ LoadCursor \/ Subscribe \/ OnError
  BY <1>1 DEF HandedOverOnce, Pay, LoadCursor, Subscribe, OnError, database
<1>2. CASE OnMessage
  BY <1>2 DEF HandedOverOnce, OnMessage, database
<1>3. ASSUME NEW m \in messages, PersistMessage(m)
      PROVE  HandedOverOnce'
  BY <1>3 DEF HandedOverOnce, TypeOK, PersistMessage, Becomes, Ends
<1>4. ASSUME NEW m \in messages, DispatchMessage(m)
      PROVE  HandedOverOnce'
  <2>1. m.at \in Events /\ m.at \in stored \ pass.fresh /\ dispatched[m.at] = 0
    BY <1>4 DEF DispatchMessage, HandedOverOnce, TypeOK
  <2>2. /\ dispatched'[m.at] = 1
        /\ \A c \in Events \ {m.at} : dispatched'[c] = dispatched[c]
    BY <1>4, <2>1 DEF DispatchMessage, TypeOK, Events
  <2>3. \A k \in messages : k.pc = "dispatch" /\ k.at = m.at => k = m
    BY <1>4 DEF DispatchMessage, TypeOK
  <2>4. \A k \in messages' :
          k.pc = "dispatch" => k \in messages /\ k.at # m.at
    BY <1>4, <2>3 DEF DispatchMessage, Becomes, TypeOK
  <2> QED
    BY <1>4, <2>1, <2>2, <2>4 DEF HandedOverOnce, TypeOK, DispatchMessage, Passes
<1>5. ASSUME NEW m \in messages, SaveMessageCursor(m)
      PROVE  HandedOverOnce'
  BY <1>5 DEF HandedOverOnce, SaveMessageCursor, Ends
<1>6. CASE StartPass \/ FetchPage
  <2>1. pass'.fresh \subseteq pass.fresh
    <3>1. CASE StartPass
      BY <3>1 DEF StartPass, NoPass
    <3>2. CASE FetchPage
      BY <3>2 DEF FetchPage, NoPass, TypeOK, Passes
    <3> QED
      BY <1>6, <3>1, <3>2
  <2> QED
    BY <1>6, <2>1 DEF HandedOverOnce, StartPass, FetchPage, database
<1>7. CASE PersistPage
  <2>1. pass'.fresh = pass.events \ stored
    BY <1>7 DEF PersistPage, TypeOK, Passes
  <2> QED
    BY <1>7, <2>1 DEF HandedOverOnce, PersistPage, TypeOK, Passes
<1>8. CASE DispatchNext
  <2>1. PICK c \in pass.fresh : /\ dispatched' = [dispatched EXCEPT ![c] = @ + 1]
                                /\ pass' = [pass EXCEPT !.fresh = @ \ {c}]
    BY <1>8 DEF DispatchNext
  <2>2. c \in Events /\ c \in stored /\ dispatched[c] = 0 /\ pass'.fresh = pass.fresh \ {c}
    BY <2>1 DEF HandedOverOnce, TypeOK, Passes
  <2>3. /\ dispatched'[c] = 1
        /\ \A k \in Events \ {c} : dispatched'[k] = dispatched[k]
    BY <2>1, <2>2 DEF TypeOK, Events
  <2> QED
    BY <1>8, <2>2, <2>3 DEF HandedOverOnce, DispatchNext, TypeOK, Passes
<1>9. CASE SavePageCursor
  BY <1>9 DEF HandedOverOnce, SavePageCursor, NoPass
<1>10. CASE Restart \/ PassFails
  BY <1>10 DEF HandedOverOnce, Restart, PassFails, NoPass, database
<1>11. CASE UNCHANGED vars
  BY <1>11 DEF HandedOverOnce, vars
<1> QED
  BY <1>1, <1>2, <1>3, <1>4, <1>5, <1>6, <1>7, <1>8, <1>9, <1>10, <1>11
     DEF Next, HandleMessage, Reconcile

-----------------------------------------------------------------------------
\* Nothing skipped

\* Whoever is taken care of stays so in a step, and nothing new is owed that is
\* not after the ledger's end.
Kept ==
  /\ \A c \in Events : TakenCareOf(c) => TakenCareOf(c)'
  /\ ledger' \in Nat /\ ledger <= ledger'
  /\ \A c \in Owed' : c \in Owed \/ c > ledger

\* Then positions that were reached still are.
LEMMA ReachedIsStable ==
  ASSUME Kept, ledger \in Nat, Records \subseteq Nat, NEW n, Reached(n)
  PROVE  /\ n \in 0..ledger'
         /\ \A c \in Owed' : c <= n => TakenCareOf(c)'
<1>1. n \in Nat /\ n <= ledger
  BY DEF Reached
<1>2. Covered(n)
  BY DEF Reached
<1>3. ASSUME NEW c \in Owed', c <= n
      PROVE  TakenCareOf(c)'
  <2>1. c \in Nat /\ c \in Events
    BY <1>3 DEF Owed, Events
  <2>2. c \in Owed \/ c > ledger
    BY <1>3 DEF Kept
  <2>3. c \in Owed
    BY <1>1, <1>3, <2>1, <2>2
  <2>4. TakenCareOf(c)
    BY <1>2, <1>3, <2>3 DEF Covered
  <2> QED
    BY <2>1, <2>4 DEF Kept
<1>4. n \in 0..ledger'
  BY <1>1 DEF Kept
<1> QED
  BY <1>3, <1>4

\* A step that keeps what is taken care of only has to account for the positions
\* it adds.
LEMMA PositionsStayReached ==
  ASSUME Kept, ledger \in Nat, Records \subseteq Nat,
         \A n \in Positions : Reached(n),
         \A n \in Positions' : n \in Positions \/ Reached(n)'
  PROVE  \A n \in Positions' : Reached(n)'
<1> SUFFICES ASSUME NEW n \in Positions', Reached(n)
             PROVE  Reached(n)'
  OBVIOUS
<1>1. /\ n \in 0..ledger'
      /\ \A c \in Owed' : c <= n => TakenCareOf(c)'
  BY ReachedIsStable
<1> QED
  BY <1>1 DEF Reached, Covered

\* What every step preserves, given the types before and after.
Carried == /\ TypeOK
           /\ due \subseteq 1..ledger
           /\ NothingSkipped
           /\ TypeOK'
           /\ due' \subseteq 1..ledger'

\* The numbers among the types.
LEMMA Numbers ==
  ASSUME TypeOK
  PROVE  ledger \in Nat /\ Records \subseteq Nat /\ Events \subseteq Records
BY StreamAssumption DEF TypeOK, Records, Events

\* Pay: what is new is owed only after the ledger's end.
LEMMA PaySkipsNothing ==
  ASSUME Carried, Pay
  PROVE  NothingSkipped'
<1>1. Kept
  BY Numbers DEF Carried, Kept, Owed, Pay, database, TakenCareOf, InHand, InPass
<1>2. Positions' = Positions
  BY DEF Pay, Positions, database
<1>3. \A n \in Positions' : Reached(n)'
  BY <1>1, <1>2, PositionsStayReached, Numbers DEF Carried, NothingSkipped
<1> QED
  BY <1>3 DEF Carried, NothingSkipped, Pay, database, Accounted

\* The streamer's own steps.
LEMMA StreamSkipsNothing ==
  ASSUME Carried, LoadCursor \/ Subscribe \/ OnMessage \/ OnError
  PROVE  NothingSkipped'
<1>0. UNCHANGED <<ledger, database, pass, due, interrupted, faults>> /\ overlooked \subseteq overlooked'
  BY DEF LoadCursor, Subscribe, OnMessage, OnError
<1>1. messages \subseteq messages'
  BY DEF LoadCursor, Subscribe, OnMessage, OnError
<1>2. Kept
  BY <1>0, <1>1, Numbers DEF Carried, Kept, Owed, database, TakenCareOf, InHand, InPass
<1>3. ASSUME NEW n \in Positions'
      PROVE  n \in Positions \/ Reached(n)'
  <2>1. CASE LoadCursor
    BY <1>0, <1>3, <2>1 DEF LoadCursor, Positions, database
  <2>2. CASE Subscribe /\ stream.at # Now
    BY <1>0, <1>3, <2>2 DEF Subscribe, Positions, database
  <2>3. CASE Subscribe /\ stream.at = Now
    <3>1. n \in Positions \/ n = ledger
      BY <1>0, <1>3, <2>3 DEF Subscribe, Positions, database
    <3>2. ASSUME NEW c \in Owed'
          PROVE  TakenCareOf(c)'
      <4>1. c \in Events /\ TakenCareOf(c)
        BY <1>0, <2>3 DEF Subscribe, Owed
      <4> QED
        BY <1>2, <4>1 DEF Kept
    <3>3. Reached(ledger)'
      BY <1>0, <3>2, Numbers DEF Carried, Reached, Covered
    <3> QED
      BY <1>0, <3>1, <3>3
  <2>4. CASE OnMessage
    <3>1. n \in Positions \/ n = stream.at + 1
      BY <1>0, <1>3, <2>4 DEF OnMessage, Positions, database
    <3>2. stream.at \in Positions /\ stream.at \in Nat
      BY <2>4, StreamAssumption DEF OnMessage, Positions, Carried, TypeOK
    <3>3. \A c \in Owed' : c <= stream.at => TakenCareOf(c)'
      BY <1>2, <3>2, ReachedIsStable, Numbers DEF Carried, NothingSkipped
    <3>4. ASSUME NEW c \in Events, c = stream.at + 1
          PROVE  TakenCareOf(c)'
      <4>1. [at |-> c, pc |-> "persist"] \in messages'
        BY <2>4, <3>4 DEF OnMessage
      <4> QED
        BY <4>1 DEF TakenCareOf, InHand, InPass
    <3>5. ASSUME NEW c \in Owed', c <= stream.at + 1
          PROVE  TakenCareOf(c)'
      <4>1. c \in Events /\ c \in Nat
        BY <3>5, Numbers DEF Carried, Owed
      <4>2. c <= stream.at \/ c = stream.at + 1
        BY <3>2, <3>5, <4>1
      <4> QED
        BY <3>3, <3>4, <3>5, <4>1, <4>2
    <3>6. stream.at + 1 \in 0..ledger'
      BY <1>0, <2>4, <3>2, Numbers DEF OnMessage, Carried
    <3>7. n = stream.at + 1 => Reached(n)'
      BY <3>5, <3>6 DEF Reached, Covered
    <3> QED
      BY <3>1, <3>7
  <2>5. CASE OnError
    BY <1>0, <1>3, <2>5 DEF OnError, NoStream, Positions, database
  <2> QED
    BY <2>1, <2>2, <2>3, <2>4, <2>5
<1>4. \A n \in Positions' : Reached(n)'
  BY <1>2, <1>3, PositionsStayReached, Numbers DEF Carried, NothingSkipped
<1>5. \A c \in stored' : Accounted(c)'
  BY <1>0, <1>1 DEF Carried, NothingSkipped, database, Accounted
<1>6. cursor' = Now => due' = {}
  BY <1>0 DEF Carried, NothingSkipped, database
<1> QED
  BY <1>0, <1>4, <1>5, <1>6 DEF Carried, NothingSkipped

\* persistEvents in onMessage: a handler only ends when the event, already
\* stored, is accounted for elsewhere.
LEMMA PersistMessageSkipsNothing ==
  ASSUME Carried, NEW m \in messages, PersistMessage(m)
  PROVE  NothingSkipped'
<1>1. /\ m.at \in Events /\ m.pc = "persist"
      /\ UNCHANGED <<ledger, cursor, dispatched, stream, pass, due, overlooked, interrupted, faults>>
      /\ stored' = stored \union {m.at}
  BY DEF PersistMessage, Carried, TypeOK
<1>2. ASSUME NEW k \in messages, k.pc = "dispatch"
      PROVE  k \in messages'
  BY <1>1, <1>2 DEF PersistMessage, Becomes, Ends
<1>3. ASSUME NEW k \in messages, k # m
      PROVE  k \in messages'
  BY <1>3 DEF PersistMessage, Becomes, Ends
<1>4. m.at \notin stored => [at |-> m.at, pc |-> "dispatch"] \in messages'
  BY <1>1 DEF PersistMessage, Becomes, Carried, TypeOK
<1>5. \A c \in stored : Accounted(c)
  BY DEF Carried, NothingSkipped
<1>6. ASSUME NEW c \in stored'
      PROVE  Accounted(c)'
  BY <1>1, <1>2, <1>4, <1>5, <1>6 DEF Accounted
<1>7. ASSUME NEW c \in Events, Accounted(c)'
      PROVE  TakenCareOf(c)'
  BY <1>7 DEF Accounted, TakenCareOf, InHand, InPass
<1>8. ASSUME NEW c \in Events, TakenCareOf(c)
      PROVE  TakenCareOf(c)'
  <2>1. CASE c = m.at
    BY <1>1, <1>6, <1>7, <2>1
  <2>2. CASE c # m.at
    BY <1>1, <1>3, <1>8, <2>2 DEF TakenCareOf, InHand, InPass
  <2> QED
    BY <2>1, <2>2
<1>9. Kept
  BY <1>1, <1>8, Numbers DEF Carried, Kept, Owed
<1>10. \A k \in messages' : \E j \in messages : k.at = j.at
  BY <1>1 DEF PersistMessage, Becomes, Ends, Carried, TypeOK
<1>11. \A n \in Positions' : n \in Positions
  BY <1>1, <1>10 DEF Positions
<1>12. \A n \in Positions' : Reached(n)'
  BY <1>9, <1>11, PositionsStayReached, Numbers DEF Carried, NothingSkipped
<1> QED
  BY <1>1, <1>6, <1>12 DEF Carried, NothingSkipped

\* handleEvents in onMessage.
LEMMA DispatchMessageSkipsNothing ==
  ASSUME Carried, NEW m \in messages, DispatchMessage(m)
  PROVE  NothingSkipped'
<1>1. /\ m.at \in Events /\ m.pc = "dispatch"
      /\ UNCHANGED <<ledger, cursor, stored, stream, pass, due, overlooked, interrupted, faults>>
  BY DEF DispatchMessage, Carried, TypeOK
<1>2. /\ dispatched'[m.at] > 0
      /\ \A c \in Events : dispatched[c] > 0 => dispatched'[c] > 0
  <2>1. dispatched \in [Records -> Nat] /\ m.at \in Records /\ Events \subseteq Records
    BY <1>1, Numbers DEF Carried, TypeOK
  <2>2. dispatched' = [dispatched EXCEPT ![m.at] = @ + 1]
    BY DEF DispatchMessage
  <2> QED
    BY <2>1, <2>2
<1>3. ASSUME NEW k \in messages, k.at # m.at
      PROVE  k \in messages'
  BY <1>3 DEF DispatchMessage, Becomes
<1>4. ASSUME NEW c \in Events, TakenCareOf(c)
      PROVE  TakenCareOf(c)'
  BY <1>1, <1>2, <1>3, <1>4 DEF TakenCareOf, InHand, InPass
<1>5. ASSUME NEW c \in stored'
      PROVE  Accounted(c)'
  BY <1>1, <1>2, <1>3, <1>5 DEF Accounted, Carried, NothingSkipped, TypeOK
<1>6. Kept
  BY <1>1, <1>4, Numbers DEF Carried, Kept, Owed
<1>7. \A k \in messages' : \E j \in messages : k.at = j.at
  BY <1>1 DEF DispatchMessage, Becomes, Carried, TypeOK
<1>8. \A n \in Positions' : n \in Positions
  BY <1>1, <1>7 DEF Positions
<1>9. \A n \in Positions' : Reached(n)'
  BY <1>6, <1>8, PositionsStayReached, Numbers DEF Carried, NothingSkipped
<1> QED
  BY <1>1, <1>5, <1>9 DEF Carried, NothingSkipped

\* setCursor in onMessage: to a position that was reached before.
LEMMA SaveMessageCursorSkipsNothing ==
  ASSUME Carried, NEW m \in messages, SaveMessageCursor(m)
  PROVE  NothingSkipped'
<1>1. /\ m.at \in Events /\ m.pc = "save" /\ cursor' = m.at
      /\ messages' = messages \ {m}
      /\ UNCHANGED <<ledger, stored, dispatched, stream, pass, due, overlooked, interrupted, faults>>
  BY DEF SaveMessageCursor, Ends, Carried, TypeOK
<1>2. ASSUME NEW c \in Events, TakenCareOf(c)
      PROVE  TakenCareOf(c)'
  BY <1>1, <1>2 DEF TakenCareOf, InHand, InPass
<1>3. ASSUME NEW c \in stored'
      PROVE  Accounted(c)'
  BY <1>1, <1>3 DEF Accounted, Carried, NothingSkipped
<1>4. Kept
  BY <1>1, <1>2, Numbers DEF Carried, Kept, Owed
<1>5. \A n \in Positions' : n \in Positions
  BY <1>1 DEF Positions
<1>6. \A n \in Positions' : Reached(n)'
  BY <1>4, <1>5, PositionsStayReached, Numbers DEF Carried, NothingSkipped
<1>7. cursor' # Now
  BY <1>1, StreamAssumption, Numbers DEF Carried
<1> QED
  BY <1>1, <1>3, <1>6, <1>7 DEF Carried, NothingSkipped

\* The start of a pass, at the cursor, and the page it fetches: all its events
\* are now in its hands.
LEMMA FetchSkipsNothing ==
  ASSUME Carried, StartPass \/ FetchPage
  PROVE  NothingSkipped'
<1>1. UNCHANGED <<ledger, database, stream, messages, due, overlooked, interrupted, faults>>
  BY DEF StartPass, FetchPage
<1>2. pass.events = {} /\ pass.fresh = {} /\ pass'.fresh = {}
  <2>1. pass.pc \in {"idle", "fetch"}
    BY DEF StartPass, FetchPage, NoPass
  <2>2. pass.events = {} /\ pass.fresh = {}
    BY <2>1 DEF Carried, NothingSkipped
  <2>3. CASE StartPass
    BY <2>2, <2>3 DEF StartPass, NoPass
  <2>4. CASE FetchPage
    BY <2>2, <2>4 DEF FetchPage, NoPass, Carried, TypeOK, Passes
  <2> QED
    BY <2>2, <2>3, <2>4
<1>3. Kept
  BY <1>1, <1>2, Numbers DEF Carried, Kept, Owed, database, TakenCareOf, InHand, InPass
<1>4. \A c \in stored' : Accounted(c)'
  BY <1>1, <1>2 DEF Accounted, Carried, NothingSkipped, database
<1>5. CASE pass' = NoPass \/ StartPass
  <2>1. /\ pass'.from \in {0, cursor} /\ pass'.upto = 0
        /\ pass'.events = {} /\ pass'.pc \in {"idle", "fetch"}
    <3>1. CASE pass' = NoPass
      BY <3>1 DEF NoPass
    <3>2. CASE StartPass
      BY <3>2 DEF StartPass, NoPass
    <3> QED
      BY <1>5, <3>1, <3>2
  <2>2. \A n \in Positions' : n \in Positions
    BY <1>1, <2>1 DEF Positions, database
  <2>3. \A n \in Positions' : Reached(n)'
    BY <1>3, <2>2, PositionsStayReached, Numbers DEF Carried, NothingSkipped
  <2> QED
    BY <1>1, <1>2, <1>4, <2>1, <2>3 DEF Carried, NothingSkipped, database
<1>6. CASE FetchPage /\ pass' # NoPass
  <2>1. PICK from \in Nat, upto \in Nat :
          /\ pass.from = from
          /\ PageEnd(from) = upto
          /\ from <= upto /\ upto <= ledger
          /\ pass' = [pass EXCEPT !.pc = "persist",
                                  !.upto = upto,
                                  !.events = {c \in Events : from < c /\ c <= upto}]
    <3>1. pass.from # Now
      BY <1>6 DEF FetchPage, PageIsEmpty
    <3>2. pass.from \in Positions /\ pass.from \in Nat /\ pass.from <= ledger
      BY <3>1, Numbers, StreamAssumption
         DEF Positions, Carried, NothingSkipped, Reached, TypeOK, Passes, Cursors
    <3>3. PageEnd(pass.from) \in Nat /\ pass.from <= PageEnd(pass.from) /\ PageEnd(pass.from) <= ledger
      BY <3>1, <3>2, Numbers, StreamAssumption DEF PageEnd, Carried
    <3> QED
      BY <1>6, <3>2, <3>3 DEF FetchPage
  <2>2. /\ pass'.pc = "persist" /\ pass'.upto = upto /\ pass'.from = from
        /\ pass'.events = {c \in Events : from < c /\ c <= upto}
    BY <2>1 DEF Carried, TypeOK, Passes
  <2>3. \A c \in Owed' : c <= from => TakenCareOf(c)'
    <3>1. from \in Positions
      BY <2>1, StreamAssumption DEF Positions
    <3> QED
      BY <1>3, <3>1, ReachedIsStable, Numbers DEF Carried, NothingSkipped
  <2>4. ASSUME NEW c \in Owed', c <= upto
        PROVE  TakenCareOf(c)'
    <3>1. c \in Events /\ c \in Nat
      BY Numbers DEF Carried, Owed
    <3>2. CASE c <= from
      BY <2>3, <3>2
    <3>3. CASE from < c
      BY <2>2, <2>4, <3>1, <3>3 DEF TakenCareOf, InHand, InPass
    <3> QED
      BY <2>1, <3>1, <3>2, <3>3
  <2>5. Reached(upto)'
    BY <1>1, <2>1, <2>4, Numbers DEF Reached, Covered, Carried
  <2>6. ASSUME NEW n \in Positions'
        PROVE  n \in Positions \/ Reached(n)'
    BY <1>1, <2>1, <2>2, <2>5, <2>6 DEF Positions, database
  <2>7. \A n \in Positions' : Reached(n)'
    BY <1>3, <2>6, PositionsStayReached, Numbers DEF Carried, NothingSkipped
  <2> QED
    BY <1>1, <1>2, <1>4, <2>2, <2>7 DEF Carried, NothingSkipped, database
<1> QED
  BY <1>5, <1>6

\* persistEvents in a pass: every event of the page is now fresh, or was stored
\* and is accounted for.
LEMMA PersistPageSkipsNothing ==
  ASSUME Carried, PersistPage
  PROVE  NothingSkipped'
<1>1. /\ pass.pc = "persist" /\ pass.fresh = {}
      /\ pass'.pc = "dispatch" /\ pass'.from = pass.from /\ pass'.upto = pass.upto
      /\ pass'.events = pass.events /\ pass'.fresh = pass.events \ stored
      /\ stored' = stored \union pass.events
      /\ UNCHANGED <<ledger, cursor, dispatched, stream, messages, due, overlooked, interrupted, faults>>
  BY DEF PersistPage, Carried, NothingSkipped, TypeOK, Passes
<1>2. \A c \in stored : Accounted(c)
  BY DEF Carried, NothingSkipped
<1>3. ASSUME NEW c \in stored'
      PROVE  Accounted(c)'
  BY <1>1, <1>2, <1>3 DEF Accounted
<1>4. ASSUME NEW c \in Events, Accounted(c)'
      PROVE  TakenCareOf(c)'
  BY <1>4 DEF Accounted, TakenCareOf, InHand, InPass
<1>5. ASSUME NEW c \in Events, TakenCareOf(c)
      PROVE  TakenCareOf(c)'
  <2>1. CASE c \in pass.events
    BY <1>1, <1>3, <1>4, <2>1
  <2>2. CASE c \notin pass.events
    BY <1>1, <1>5, <2>2 DEF TakenCareOf, InHand, InPass
  <2> QED
    BY <2>1, <2>2
<1>6. Kept
  BY <1>1, <1>5, Numbers DEF Carried, Kept, Owed
<1>7. \A n \in Positions' : n \in Positions
  BY <1>1 DEF Positions
<1>8. \A n \in Positions' : Reached(n)'
  BY <1>6, <1>7, PositionsStayReached, Numbers DEF Carried, NothingSkipped
<1> QED
  BY <1>1, <1>3, <1>8 DEF Carried, NothingSkipped

\* handleEvents in a pass.
LEMMA DispatchNextSkipsNothing ==
  ASSUME Carried, DispatchNext
  PROVE  NothingSkipped'
<1>1. PICK d \in pass.fresh : /\ dispatched' = [dispatched EXCEPT ![d] = @ + 1]
                              /\ pass' = [pass EXCEPT !.fresh = @ \ {d}]
  BY DEF DispatchNext
<1>2. /\ pass.pc = "dispatch" /\ pass'.pc = "dispatch"
      /\ pass'.from = pass.from /\ pass'.upto = pass.upto
      /\ pass'.events = pass.events /\ pass'.fresh = pass.fresh \ {d}
      /\ UNCHANGED <<ledger, cursor, stored, stream, messages, due, overlooked, interrupted, faults>>
  BY <1>1 DEF DispatchNext, Carried, TypeOK, Passes
<1>3. /\ dispatched'[d] > 0
      /\ \A c \in Events : dispatched[c] > 0 => dispatched'[c] > 0
  <2>1. dispatched \in [Records -> Nat] /\ d \in Records /\ Events \subseteq Records
    BY Numbers DEF Carried, TypeOK, Passes
  <2> QED
    BY <1>1, <2>1
<1>4. ASSUME NEW c \in Events, TakenCareOf(c)
      PROVE  TakenCareOf(c)'
  BY <1>2, <1>3, <1>4 DEF TakenCareOf, InHand, InPass
<1>5. ASSUME NEW c \in stored'
      PROVE  Accounted(c)'
  BY <1>2, <1>3, <1>5 DEF Accounted, Carried, NothingSkipped, TypeOK
<1>6. Kept
  BY <1>2, <1>4, Numbers DEF Carried, Kept, Owed
<1>7. \A n \in Positions' : n \in Positions
  BY <1>2 DEF Positions
<1>8. \A n \in Positions' : Reached(n)'
  BY <1>6, <1>7, PositionsStayReached, Numbers DEF Carried, NothingSkipped
<1> QED
  BY <1>2, <1>5, <1>8 DEF Carried, NothingSkipped

\* The cursor after a page: the last event of a page that was dealt with.
LEMMA SavePageCursorSkipsNothing ==
  ASSUME Carried, SavePageCursor
  PROVE  NothingSkipped'
<1>1. /\ pass.pc = "dispatch" /\ pass.fresh = {}
      /\ SaveLast(pass.events)
      /\ pass'.pc = "fetch" /\ pass'.from = pass.upto /\ pass'.upto = 0
      /\ pass'.events = {} /\ pass'.fresh = {}
      /\ UNCHANGED <<ledger, stored, dispatched, stream, messages, due, overlooked, interrupted, faults>>
  BY DEF SavePageCursor, NoPass
<1>2. ASSUME NEW c \in Events, TakenCareOf(c)
      PROVE  TakenCareOf(c)'
  BY <1>1, <1>2 DEF TakenCareOf, InHand, InPass
<1>3. ASSUME NEW c \in stored'
      PROVE  Accounted(c)'
  BY <1>1, <1>3 DEF Accounted, Carried, NothingSkipped
<1>4. Kept
  BY <1>1, <1>2, Numbers DEF Carried, Kept, Owed
<1>5. pass.upto \in Positions /\ pass.upto \in Nat /\ pass.upto <= ledger
  BY StreamAssumption DEF Positions, Carried, TypeOK, Passes, NothingSkipped, Reached
<1>6. \A c \in Owed' : c <= pass.upto => TakenCareOf(c)'
  BY <1>4, <1>5, ReachedIsStable, Numbers DEF Carried, NothingSkipped
<1>7. ASSUME NEW d \in pass.events, cursor' = d
      PROVE  /\ \A n \in Positions' : n \in Positions \/ Reached(n)'
             /\ cursor' # Now
  <2>1. d \in Events /\ d \in Nat /\ d <= pass.upto
    BY Numbers DEF Carried, NothingSkipped, TypeOK, Passes
  <2>2. ASSUME NEW c \in Owed', c <= d
        PROVE  TakenCareOf(c)'
    <3>1. c \in Nat
      BY Numbers DEF Carried, Owed
    <3> QED
      BY <1>5, <1>6, <2>1, <2>2, <3>1
  <2>3. Reached(d)'
    <3>1. d \in 0..ledger'
      BY <1>1, <1>5, <2>1, Numbers DEF Carried
    <3> QED
      BY <2>2, <3>1 DEF Reached, Covered
  <2>4. Positions' \subseteq Positions \union {d}
    BY <1>1, <1>5, <1>7 DEF Positions
  <2>5. d # Now
    BY <2>1, StreamAssumption
  <2> QED
    BY <1>7, <2>3, <2>4, <2>5
<1>8. CASE UNCHANGED cursor
  <2>1. \A n \in Positions' : n \in Positions
    BY <1>1, <1>8 DEF Positions
  <2> QED
    BY <1>1, <1>3, <1>4, <1>8, <2>1, PositionsStayReached, Numbers
       DEF Carried, NothingSkipped
<1>9. CASE cursor' \in pass.events
  <2>1. \A n \in Positions' : Reached(n)'
    BY <1>4, <1>7, <1>9, PositionsStayReached, Numbers DEF Carried, NothingSkipped
  <2> QED
    BY <1>1, <1>3, <1>7, <1>9, <2>1 DEF Carried, NothingSkipped
<1> QED
  BY <1>1, <1>8, <1>9 DEF SaveLast

\* A restart or a failing pass: what was in hand and is not any more is among
\* the interrupted events, and reading goes on from positions there were.
LEMMA FaultsSkipNothing ==
  ASSUME Carried, Restart \/ PassFails
  PROVE  NothingSkipped'
<1>1. /\ UNCHANGED <<ledger, database, due, overlooked>> /\ pass' = NoPass
      /\ interrupted \subseteq interrupted' /\ messages' \subseteq messages
      /\ stream' \in {stream, NoStream}
  BY DEF Restart, PassFails
<1>2. ASSUME NEW c \in Events, InHand(c)
      PROVE  InHand(c)' \/ c \in interrupted'
  BY <1>2 DEF InHand, InPass, Restart, PassFails
<1>3. ASSUME NEW c \in Events, TakenCareOf(c)
      PROVE  TakenCareOf(c)'
  BY <1>1, <1>2, <1>3 DEF TakenCareOf, database
<1>4. Kept
  BY <1>1, <1>3, Numbers DEF Carried, Kept, Owed
<1>5. ASSUME NEW c \in stored'
      PROVE  Accounted(c)'
  <2>1. c \in Events /\ Accounted(c)
    BY <1>1 DEF Carried, NothingSkipped, TypeOK, database
  <2>2. CASE dispatched[c] > 0 \/ c \in interrupted
    BY <1>1, <2>2 DEF Accounted, database
  <2>3. CASE [at |-> c, pc |-> "dispatch"] \in messages
    <3>1. CASE Restart
      BY <2>1, <2>3, <3>1 DEF Restart, Accounted, InHand
    <3>2. CASE PassFails
      BY <2>3, <3>2 DEF PassFails, Accounted
    <3> QED
      BY <3>1, <3>2
  <2>4. CASE c \in pass.fresh
    BY <2>1, <2>4 DEF Restart, PassFails, Accounted, InHand, InPass
  <2> QED
    BY <2>1, <2>2, <2>3, <2>4 DEF Accounted
<1>6. \A n \in Positions' : n \in Positions
  BY <1>1 DEF Positions, NoPass, NoStream, database
<1>7. \A n \in Positions' : Reached(n)'
  BY <1>4, <1>6, PositionsStayReached, Numbers DEF Carried, NothingSkipped
<1> QED
  BY <1>1, <1>5, <1>7 DEF Carried, NothingSkipped, NoPass, NoStream, database

-----------------------------------------------------------------------------
\* The invariant

\* No step leaves an event behind that it does not interrupt.
LEMMA NothingSkippedStep ==
  ASSUME TypeOK, due \subseteq 1..ledger, TypeOK', due' \subseteq 1..ledger',
         NothingSkipped, [Next]_vars
  PROVE  NothingSkipped'
<1>1. Carried
  BY DEF Carried
<1>2. CASE Restart \/ PassFails
  BY <1>1, <1>2, FaultsSkipNothing
<1>3. CASE Pay
  BY <1>1, <1>3, PaySkipsNothing
<1>4. CASE LoadCursor \/ Subscribe \/ OnMessage \/ OnError
  BY <1>1, <1>4, StreamSkipsNothing
<1>5. CASE HandleMessage
  <2>1. PICK m \in messages : PersistMessage(m) \/ DispatchMessage(m) \/ SaveMessageCursor(m)
    BY <1>5 DEF HandleMessage
  <2> QED
    BY <1>1, <2>1, PersistMessageSkipsNothing, DispatchMessageSkipsNothing,
       SaveMessageCursorSkipsNothing
<1>6. CASE Reconcile
  BY <1>1, <1>6, FetchSkipsNothing, PersistPageSkipsNothing, DispatchNextSkipsNothing,
     SavePageCursorSkipsNothing DEF Reconcile
<1>7. CASE UNCHANGED vars
  BY <1>1, <1>7
     DEF vars, Carried, NothingSkipped, Positions, Reached, Covered, Owed, TakenCareOf,
         InHand, InPass, Accounted
<1> QED
  BY <1>2, <1>3, <1>4, <1>5, <1>6, <1>7 DEF Next

\* Every step keeps the invariant.
LEMMA AccountedStep == EventsAccounted /\ [Next]_vars => EventsAccounted'
<1> SUFFICES ASSUME EventsAccounted, [Next]_vars
             PROVE  EventsAccounted'
  OBVIOUS
<1>1. TypeOK' /\ due' \subseteq 1..ledger'
  BY TypeStep DEF EventsAccounted
<1>2. HandedOverOnce'
  BY HandedOverStep DEF EventsAccounted
<1>3. NothingSkipped'
  BY <1>1, NothingSkippedStep DEF EventsAccounted
<1> QED
  BY <1>1, <1>2, <1>3 DEF EventsAccounted

\* The invariant gives the cursor's property: the cursor is one of the positions.
LEMMA AccountedCursor == EventsAccounted => CursorSkipsNothing
<1> SUFFICES ASSUME EventsAccounted, cursor # Now
             PROVE  Covered(cursor)
  BY DEF CursorSkipsNothing
<1>1. cursor \in Positions
  BY DEF Positions
<1> QED
  BY <1>1 DEF EventsAccounted, NothingSkipped, Reached

\* However the streamer, the reconciler, replays, failed passes and restarts
\* overlap, every stored event is accounted for as EventsAccounted says.
THEOREM EventsAlwaysAccounted == Spec => []EventsAccounted
BY InitAccounted, AccountedStep, PTL DEF Spec

\* The variables keep their types: cursors name records of the ledger, handlers
\* and passes hold events that normalizePayment lets through.
THEOREM StreamTypeCorrect == Spec => []TypeOK
<1>1. EventsAccounted => TypeOK
  BY DEF EventsAccounted
<1> QED
  BY <1>1, EventsAlwaysAccounted, PTL

\* persistEvents makes the overlap of stream and poll safe: no event is handed
\* to the remittances twice, whatever restarts and replays there are.
THEOREM NeverHandedOverTwice == Spec => []DispatchedOnce
<1>1. EventsAccounted => DispatchedOnce
  BY DEF EventsAccounted, HandedOverOnce, DispatchedOnce
<1> QED
  BY <1>1, EventsAlwaysAccounted, PTL

\* setCursor, called by handlers and passes in any order, never moves the cursor
\* past a due event, unless somebody has it in hand or had it in hand when a
\* restart or a failing pass struck, or a subscription at "now" started behind it.
THEOREM CursorNeverSkips == Spec => []CursorSkipsNothing
BY AccountedCursor, EventsAlwaysAccounted, PTL

-----------------------------------------------------------------------------
\* What is lost stays lost

\* Event c is persisted, and neither handed over nor about to be.
Lost(c) ==
  /\ c \in stored
  /\ dispatched[c] = 0
  /\ [at |-> c, pc |-> "dispatch"] \notin messages
  /\ c \notin pass.fresh

\* No step gives a lost event to anybody.
LEMMA LostStays ==
  ASSUME EventsAccounted, [Next]_vars, NEW c \in Events, Lost(c)
  PROVE  Lost(c)'
<1> USE DEF Lost
<1>1. TypeOK /\ c \in Records
  BY DEF EventsAccounted, Events
<1>2. CASE Pay \/ LoadCursor \/ Subscribe \/ OnError
  BY <1>2 DEF Pay, LoadCursor, Subscribe, OnError, database
<1>3. CASE OnMessage
  BY <1>3 DEF OnMessage, database
<1>4. ASSUME NEW m \in messages, PersistMessage(m) PROVE Lost(c)'
  <2>1. m.at = c => Ends(m)
    BY <1>4 DEF PersistMessage
  <2> QED
    BY <1>1, <1>4, <2>1 DEF PersistMessage, Becomes, Ends, TypeOK
<1>5. ASSUME NEW m \in messages, DispatchMessage(m) PROVE Lost(c)'
  <2>1. m = [at |-> m.at, pc |-> m.pc] /\ m.pc = "dispatch"
    BY <1>1, <1>5 DEF DispatchMessage, TypeOK
  <2>2. m.at # c
    BY <1>5, <2>1
  <2> QED
    BY <1>1, <1>5, <2>2 DEF DispatchMessage, Becomes, TypeOK
<1>6. ASSUME NEW m \in messages, SaveMessageCursor(m) PROVE Lost(c)'
  BY <1>6 DEF SaveMessageCursor, Ends
<1>7. CASE StartPass \/ FetchPage \/ SavePageCursor
  <2>1. pass'.fresh \in {{}, pass.fresh}
    <3>1. CASE StartPass \/ SavePageCursor
      BY <3>1 DEF StartPass, SavePageCursor, NoPass
    <3>2. CASE FetchPage
      BY <1>1, <3>2 DEF FetchPage, NoPass, TypeOK, Passes
    <3> QED
      BY <1>7, <3>1, <3>2
  <2>2. UNCHANGED <<stored, dispatched, messages>>
    BY <1>7 DEF StartPass, FetchPage, SavePageCursor, database
  <2> QED
    BY <2>1, <2>2
<1>8. CASE PersistPage
  BY <1>1, <1>8 DEF PersistPage, TypeOK, Passes
<1>9. CASE DispatchNext
  BY <1>1, <1>9 DEF DispatchNext, TypeOK, Passes
<1>10. CASE Restart \/ PassFails
  BY <1>10 DEF Restart, PassFails, NoPass, database
<1>11. CASE UNCHANGED vars
  BY <1>11 DEF vars
<1> QED
  BY <1>2, <1>3, <1>4, <1>5, <1>6, <1>7, <1>8, <1>9, <1>10, <1>11
     DEF Next, HandleMessage, Reconcile

\* An event that was persisted and not handed over is one that a fault cut short,
\* and no replay of the stream, no later pass and no restart hands it over: the
\* unique index that makes repetitions harmless also hides it for good
\* (persistEvents, which both onMessage and reconcileAccount go by).
THEOREM LostForGood ==
  ASSUME NEW c \in Events
  PROVE  Spec => [](Lost(c) => c \in interrupted /\ []Lost(c))
<1> DEFINE Cut == c \in interrupted
<1>1. EventsAccounted => (Lost(c) => Cut)
  BY DEF EventsAccounted, NothingSkipped, Accounted, Lost, HandedOverOnce
<1>2. EventsAccounted /\ [Next]_vars => (Lost(c) => Lost(c)')
  BY LostStays
<1>3. Cut <=> c \in interrupted
  OBVIOUS
<1> HIDE DEF Lost, Cut
<1>4. Spec => [](Lost(c) => Cut /\ []Lost(c))
  BY <1>1, <1>2, EventsAlwaysAccounted, PTL DEF Spec
<1> QED
  BY <1>3, <1>4, PTL
=============================================================================
