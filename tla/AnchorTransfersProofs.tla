------------------------ MODULE AnchorTransfersProofs ------------------------
(***************************************************************************)
(* Proofs about AnchorTransfers, for any remittances, transfers, slots and *)
(* failures: with its routes and its poll the backend still implements     *)
(* RemittanceService, and it settles nothing before the anchor delivered.  *)
(***************************************************************************)
EXTENDS AnchorTransfers, RemittanceServiceProofs, FiniteSetTheorems

-----------------------------------------------------------------------------
\* Types

\* Initially there are neither records nor jobs.
LEMMA TransfersInitTypes == TransfersInit => TransfersTypeOK
BY TransfersAssumption
   DEF TransfersInit, TransfersTypeOK, OpeningTypeOK, Openings, Records, Jobs, RemittanceOrNone

\* The steps of the routes that are opening a transfer, and the others.
LEMMA OpeningSteps ==
  ASSUME [TransfersNext]_allVars
  PROVE  \/ \E q \in Requests, t \in Transfers : OpenAtAnchor(q, t) \/ AnswerLost(q, t)
         \/ \E q \in Requests, r \in Remittances : StartTransfer(q, r)
         \/ \E q \in Requests : \/ AnchorRefuses(q) \/ InsertFails(q) \/ InsertRefused(q) \/ InsertRecord(q)
                              \/ JobDies(q)
         \/ /\ UNCHANGED openingVars
            /\ \E q \in Requests : StoreSession(q) \/ RecordAnswer(q)
         \/ UNCHANGED <<openingVars, transfer>>
BY DEF TransfersNext, Run, ServiceStep, OnAnchorTransferStarted, StoreSession, QueryAnchor,
       RecordAnswer, Notify, HandlerDies, Poll, ServiceStart, Deliver, allVars, transferVars

\* A route goes on opening, or stops.
LEMMA OpeningTypeStep ==
  ASSUME TransfersTypeOK, [TransfersNext]_allVars
  PROVE  OpeningTypeOK'
<1>1. /\ opened \in [Transfers -> RemittanceOrNone] /\ opening \in [Requests -> Openings]
      /\ refused \subseteq Transfers
  BY DEF TransfersTypeOK, OpeningTypeOK
<1>2. ASSUME NEW q \in Requests, opening[q] # NoOpening, NEW t \in Transfers \union {NoTransfer},
             NEW again \in BOOLEAN
      PROVE  /\ [opening[q] EXCEPT !.tx = t] \in Openings
             /\ [opening[q] EXCEPT !.tx = t, !.again = again] \in Openings
             /\ opening[q].rem \in RemittanceOrNone
  BY <1>1, <1>2 DEF Openings, RemittanceOrNone
<1>3. NoOpening \in Openings
  BY DEF Openings
<1>4. ASSUME NEW q \in Requests, opening[q] # NoOpening, AttemptFails(q)
      PROVE  opening' \in [Requests -> Openings]
  <2> DEFINE next == IF opening[q].again
                       THEN [opening[q] EXCEPT !.tx = NoTransfer, !.again = FALSE] ELSE NoOpening
  <2>1. next \in Openings
    BY <1>2, <1>3, <1>4
  <2>2. opening' = [opening EXCEPT ![q] = next]
    BY <1>4, Zenon DEF AttemptFails
  <2> HIDE DEF next
  <2> QED
    BY <1>1, <2>1, <2>2
<1>5. ASSUME NEW q \in Requests, NEW t \in Transfers, OpenAtAnchor(q, t) \/ AnswerLost(q, t)
      PROVE  OpeningTypeOK'
  <2>1. opening[q] # NoOpening /\ opened' = [opened EXCEPT ![t] = opening[q].rem]
    BY <1>5 DEF OpenAtAnchor, AnswerLost, Asking
  <2>2. opened' \in [Transfers -> RemittanceOrNone]
    BY <1>1, <1>2, <2>1
  <2>3. CASE OpenAtAnchor(q, t)
    <3>1. [opening[q] EXCEPT !.tx = t] \in Openings
      BY <1>2, <2>1
    <3> QED
      BY <1>1, <2>2, <2>3, <3>1 DEF OpenAtAnchor, OpeningTypeOK
  <2>4. CASE AnswerLost(q, t)
    BY <1>1, <1>4, <2>1, <2>2, <2>4 DEF AnswerLost, OpeningTypeOK
  <2> QED
    BY <1>5, <2>3, <2>4
<1>6. ASSUME NEW q \in Requests, AnchorRefuses(q) \/ InsertFails(q) \/ InsertRefused(q)
      PROVE  OpeningTypeOK'
  <2>1. opening[q] # NoOpening
    BY <1>6 DEF AnchorRefuses, InsertFails, InsertRefused, Asking, Inserting, NoOpening
  <2>2. AttemptFails(q) /\ UNCHANGED opened
    BY <1>6 DEF AnchorRefuses, InsertFails, InsertRefused
  <2>3. refused' \subseteq Transfers
    <3>1. Inserting(q) => opening[q].tx \in Transfers
      BY <1>1, <2>1 DEF Inserting, Openings, NoOpening
    <3> QED
      BY <1>1, <1>6, <3>1 DEF AnchorRefuses, InsertFails, InsertRefused
  <2> QED
    BY <1>1, <1>4, <2>1, <2>2, <2>3 DEF OpeningTypeOK
<1>7. ASSUME NEW q \in Requests, InsertRecord(q) \/ JobDies(q)
      PROVE  OpeningTypeOK'
  BY <1>1, <1>3, <1>7 DEF InsertRecord, JobDies, OpeningTypeOK
<1>8. ASSUME NEW q \in Requests, NEW r \in Remittances, StartTransfer(q, r)
      PROVE  OpeningTypeOK'
  BY <1>1, <1>8 DEF StartTransfer, OpeningTypeOK, Openings
<1>9. CASE UNCHANGED openingVars
  BY <1>1, <1>9 DEF openingVars, OpeningTypeOK
<1> QED
  BY <1>5, <1>6, <1>7, <1>8, <1>9, OpeningSteps DEF openingVars

\* The job a route or poll goes on with.
LEMMA JobGoesOn ==
  ASSUME TransfersTypeOK, NEW q \in Requests, job[q] # NoJob,
         NEW pc \in {"started", "processing", "session",
                     "query", "completed", "unfinished", "notify"},
         Goes(q, pc)
  PROVE  /\ job' \in [Requests -> Jobs]
         /\ \A p \in Requests : job'[p].tx = job[p].tx
         /\ \A p \in Requests : job'[p] # NoJob => job[p] # NoJob
<1>1. job[q] \in [tx : Transfers, pc : {"started", "processing", "session",
                                         "query", "completed", "unfinished", "notify"}]
  BY DEF TransfersTypeOK, Jobs
<1>2. [job[q] EXCEPT !.pc = pc] \in Jobs /\ [job[q] EXCEPT !.pc = pc].tx = job[q].tx
  BY <1>1 DEF Jobs
<1>3. job \in [Requests -> Jobs] /\ job' = [job EXCEPT ![q].pc = pc]
  BY DEF TransfersTypeOK, Goes
<1>4. \A p \in Requests : job'[p] = IF p = q THEN [job[q] EXCEPT !.pc = pc] ELSE job[p]
  BY <1>3
<1> QED
  BY <1>2, <1>3, <1>4

\* A job that stops is no job.
LEMMA JobStops ==
  ASSUME TransfersTypeOK, NEW q \in Requests, Stops(q)
  PROVE  /\ job' \in [Requests -> Jobs]
         /\ \A p \in Requests : job'[p] = IF p = q THEN NoJob ELSE job[p]
BY DEF TransfersTypeOK, Stops, Jobs

\* The steps that leave the records alone and start no job.
LEMMA JobOnly ==
  ASSUME TransfersTypeOK, OpeningTypeOK', NEW q \in Requests,
         UNCHANGED transfer, delivered' \subseteq Transfers, jobAborts' \in 0..MaxJobAborts,
         \/ Stops(q)
         \/ job[q] # NoJob /\ Goes(q, "processing")
         \/ job[q] # NoJob /\ Goes(q, "session")
         \/ job[q] # NoJob /\ Goes(q, "completed")
         \/ job[q] # NoJob /\ Goes(q, "unfinished")
         \/ UNCHANGED job
  PROVE  TransfersTypeOK'
<1>1. CASE Stops(q)
  BY <1>1, JobStops DEF TransfersTypeOK
<1>2. ASSUME NEW pc \in {"processing", "session", "completed", "unfinished"},
             job[q] # NoJob, Goes(q, pc)
      PROVE  TransfersTypeOK'
  BY <1>2, JobGoesOn DEF TransfersTypeOK
<1>3. CASE UNCHANGED job
  BY <1>3 DEF TransfersTypeOK
<1> QED
  BY <1>1, <1>2, <1>3

\* Every step keeps the types.
LEMMA TransfersTypeStep ==
  TransfersTypeOK /\ [TransfersNext]_allVars => TransfersTypeOK'
<1> SUFFICES ASSUME TransfersTypeOK, [TransfersNext]_allVars
             PROVE  TransfersTypeOK'
  OBVIOUS
<1>0. OpeningTypeOK' /\ \A q \in Requests : job[q].pc # "idle" => job[q] # NoJob
  BY OpeningTypeStep DEF NoJob
<1>1. ASSUME NEW q \in Requests, ServiceStep(q) \/ HandlerDies(q) \/ OnAnchorTransferStarted(q)
                                   \/ QueryAnchor(q) \/ Notify(q) \/ JobDies(q)
      PROVE  TransfersTypeOK'
  <2>1. UNCHANGED transfer /\ delivered' \subseteq Transfers /\ jobAborts' \in 0..MaxJobAborts
    BY <1>1, TransfersAssumption
       DEF TransfersTypeOK, ServiceStep, HandlerDies, OnAnchorTransferStarted,
           QueryAnchor, Notify, JobDies, Fault
  <2>2. \/ Stops(q) \/ UNCHANGED job
        \/ job[q] # NoJob /\ Goes(q, "processing")
        \/ job[q] # NoJob /\ Goes(q, "session")
        \/ job[q] # NoJob /\ Goes(q, "completed")
        \/ job[q] # NoJob /\ Goes(q, "unfinished")
    BY <1>0, <1>1 DEF ServiceStep, HandlerDies, OnAnchorTransferStarted, QueryAnchor,
                      Notify, JobDies
  <2> QED
    BY <1>0, <2>1, <2>2, JobOnly
<1>2. ASSUME NEW q \in Requests, StoreSession(q)
      PROVE  TransfersTypeOK'
  <2>1. job[q] # NoJob /\ job[q].tx \in Transfers
    BY <1>0, <1>2 DEF StoreSession, TransfersTypeOK, Jobs
  <2>2. transfer[job[q].tx] \in [rem : Remittances, status : {"pending", "completed"},
                                 session : BOOLEAN]
    BY <2>1 DEF TransfersTypeOK, Records
  <2>3. /\ transfer' \in [Transfers -> Records]
        /\ \A t \in Transfers : transfer[t] # NoRecord => transfer'[t] # NoRecord
    BY <1>2, <2>1, <2>2 DEF StoreSession, TransfersTypeOK, Records, NoRecord
  <2> QED
    BY <1>0, <1>2, <2>3, JobStops DEF StoreSession, TransfersTypeOK, Jobs
<1>3. ASSUME NEW q \in Requests, RecordAnswer(q)
      PROVE  TransfersTypeOK'
  <2>1. job[q] # NoJob /\ job[q].tx \in Transfers
    BY <1>0, <1>3 DEF RecordAnswer, TransfersTypeOK, Jobs
  <2>2. transfer[job[q].tx] \in [rem : Remittances, status : {"pending", "completed"},
                                 session : BOOLEAN]
    BY <2>1 DEF TransfersTypeOK, Records
  <2>3. /\ transfer' \in [Transfers -> Records]
        /\ \A t \in Transfers : transfer[t] # NoRecord => transfer'[t] # NoRecord
    BY <1>3, <2>1, <2>2 DEF RecordAnswer, TransfersTypeOK, Records, NoRecord
  <2>4. CASE Stops(q)
    BY <1>0, <1>3, <2>3, <2>4, JobStops DEF RecordAnswer, TransfersTypeOK, Jobs
  <2>5. CASE Goes(q, "notify")
    BY <1>0, <1>3, <2>1, <2>3, <2>5, JobGoesOn DEF RecordAnswer, TransfersTypeOK, Jobs
  <2> QED
    BY <1>3, <2>4, <2>5 DEF RecordAnswer
<1>4. ASSUME NEW q \in Requests, NEW t \in Transfers, Poll(q, t)
      PROVE  TransfersTypeOK'
  <2>1. transfer[t] # NoRecord
    BY <1>4 DEF Poll, NoRecord
  <2> QED
    BY <1>0, <1>4, <2>1 DEF Poll, TransfersTypeOK, Jobs
<1>5. ASSUME NEW q \in Requests, InsertRecord(q)
      PROVE  TransfersTypeOK'
  <2>1. opening[q] \in [rem : Remittances, tx : Transfers \union {NoTransfer}, again : BOOLEAN,
                        wallet : BOOLEAN]
        /\ opening[q].tx \in Transfers
    BY <1>5 DEF InsertRecord, Inserting, NoOpening, TransfersTypeOK, OpeningTypeOK, Openings
  <2>2. [rem |-> opening[q].rem, status |-> "pending", session |-> FALSE] \in Records \ {NoRecord}
    BY <2>1, ConstantsAssumption DEF Records, NoRecord
  <2> QED
    BY <1>0, <1>5, <2>1, <2>2 DEF InsertRecord, TransfersTypeOK, Jobs
<1>6. ASSUME NEW q \in Requests, InsertFails(q) \/ InsertRefused(q) \/ \E t \in Transfers : AnswerLost(q, t)
      PROVE  TransfersTypeOK'
  BY <1>0, <1>6, TransfersAssumption
     DEF InsertFails, InsertRefused, AnswerLost, Fault, TransfersTypeOK, transferVars
<1>7. ASSUME NEW t \in Transfers, Deliver(t)
      PROVE  TransfersTypeOK'
  BY <1>0, <1>7 DEF Deliver, TransfersTypeOK
<1>8. CASE UNCHANGED transferVars
  BY <1>0, <1>8 DEF TransfersTypeOK, transferVars
<1> QED
  BY <1>1, <1>2, <1>3, <1>4, <1>5, <1>6, <1>7, <1>8
     DEF TransfersNext, Run, ServiceStart, StartTransfer, OpenAtAnchor, AnchorRefuses, allVars

-----------------------------------------------------------------------------
\* The composed system implements the service

\* A job is about a remittance that exists.
LEMMA SubjectExists ==
  ASSUME TransfersTypeOK, NEW q \in Requests, job[q].pc # "idle"
  PROVE  Subject(q) \in Remittances
<1>1. job[q] # NoJob
  BY DEF NoJob
<1>2. job[q].tx \in Transfers /\ transfer[job[q].tx] # NoRecord
  BY <1>1 DEF TransfersTypeOK, Jobs
<1> QED
  BY <1>2 DEF TransfersTypeOK, Records, Subject

\* Every step is a step of the service, or none for it.
LEMMA TransfersStepImplements ==
  TransfersTypeOK /\ [TransfersNext]_allVars => [Next]_vars
<1> SUFFICES ASSUME TransfersTypeOK, [TransfersNext]_allVars
             PROVE  [Next]_vars
  OBVIOUS
<1>1. ASSUME NEW q \in Requests, ServiceStep(q) \/ HandlerDies(q)
      PROVE  Next
  BY <1>1 DEF ServiceStep, HandlerDies, Next
<1>2. ASSUME NEW q \in Requests, OnAnchorTransferStarted(q) \/ Notify(q)
      PROVE  [Next]_vars
  <2>1. Subject(q) \in Remittances
    BY <1>2, SubjectExists DEF OnAnchorTransferStarted, Notify
  <2> QED
    BY <1>2, <2>1 DEF OnAnchorTransferStarted, Notify, Next, Start
<1>3. ASSUME NEW q \in Requests, StoreSession(q) \/ QueryAnchor(q) \/ RecordAnswer(q) \/ JobDies(q)
      PROVE  UNCHANGED vars
  BY <1>3 DEF StoreSession, QueryAnchor, RecordAnswer, JobDies
<1>4. ASSUME NEW q \in Requests,
             \/ (\E r \in Remittances : StartTransfer(q, r))
             \/ AnchorRefuses(q) \/ InsertRecord(q) \/ InsertFails(q) \/ InsertRefused(q)
      PROVE  UNCHANGED vars
  BY <1>4 DEF StartTransfer, AnchorRefuses, InsertRecord, InsertFails, InsertRefused
<1>5. ASSUME NEW q \in Requests, NEW t \in Transfers,
             Poll(q, t) \/ OpenAtAnchor(q, t) \/ AnswerLost(q, t)
      PROVE  UNCHANGED vars
  BY <1>5 DEF Poll, OpenAtAnchor, AnswerLost
<1>6. ASSUME NEW q \in Requests, NEW r \in Remittances, ServiceStart(q, r)
      PROVE  Next
  BY <1>6 DEF ServiceStart, Next, Start
<1>7. ASSUME NEW t \in Transfers, Deliver(t)
      PROVE  UNCHANGED vars
  BY <1>7 DEF Deliver
<1>8. ASSUME NEW r \in Remittances, Environment(r)
      PROVE  Next
  BY <1>8 DEF Next
<1>9. CASE UNCHANGED allVars
  BY <1>9 DEF allVars
<1> QED
  BY <1>1, <1>2, <1>3, <1>4, <1>5, <1>6, <1>7, <1>8, <1>9 DEF TransfersNext, Run

\* The records, routes and polls keep their types.
THEOREM TransfersTypeCorrect == TransfersSpec => []TransfersTypeOK
BY TransfersInitTypes, TransfersTypeStep, PTL DEF TransfersSpec

\* The routes and the poll only do to a remittance what the service allows:
\* everything proved of RemittanceService holds with them as well.
THEOREM TransfersImplementService == TransfersSpec => ImplementsRemittanceService
<1>1. TransfersInit => Init
  BY DEF TransfersInit
<1> QED
  BY <1>1, TransfersTypeCorrect, TransfersStepImplements, PTL
     DEF TransfersSpec, ImplementsRemittanceService, Spec

-----------------------------------------------------------------------------
\* The anchor's books and the backend's

\* A record is of a transfer that the anchor opened for its remittance, and a
\* route that is about to insert a record is the only one for its transfer.
BooksAgree ==
  /\ \A t \in Transfers : transfer[t] # NoRecord => transfer[t].rem = opened[t]
  /\ \A q \in Requests :
       Inserting(q) =>
         /\ opened[opening[q].tx] = opening[q].rem
         /\ transfer[opening[q].tx] = NoRecord
         /\ \A p \in Requests : opening[p].tx = opening[q].tx => p = q

\* The steps that touch no books: whatever runs in the slots, the records are
\* those that were there, for the same remittances.
LEMMA RecordsStand ==
  ASSUME TransfersTypeOK, UNCHANGED opened, UNCHANGED opening,
         \A t \in Transfers : /\ transfer'[t] = NoRecord <=> transfer[t] = NoRecord
                              /\ transfer'[t].rem = transfer[t].rem,
         BooksAgree
  PROVE  BooksAgree'
<1>1. \A q \in Requests : Inserting(q) => opening[q].tx \in Transfers
  BY DEF TransfersTypeOK, OpeningTypeOK, Openings, NoOpening, Inserting
<1> QED
  BY <1>1 DEF BooksAgree, Inserting

\* An attempt that fails gives up its transfer, or none.
LEMMA AttemptForgets ==
  ASSUME TransfersTypeOK, NEW q \in Requests, AttemptFails(q)
  PROVE  /\ opening'[q].tx = NoTransfer
         /\ \A p \in Requests \ {q} : opening'[p] = opening[p]
BY DEF AttemptFails, TransfersTypeOK, OpeningTypeOK, Openings, NoOpening

\* The records that polls and routes update stay where they are.
LEMMA RecordUpdates ==
  ASSUME TransfersTypeOK, NEW q \in Requests, StoreSession(q) \/ RecordAnswer(q)
  PROVE  \A t \in Transfers : /\ transfer'[t] = NoRecord <=> transfer[t] = NoRecord
                              /\ transfer'[t].rem = transfer[t].rem
<1>1. job[q].tx \in Transfers /\ transfer[job[q].tx] # NoRecord
  BY DEF StoreSession, RecordAnswer, NoJob, TransfersTypeOK, Jobs
<1>2. transfer[job[q].tx] \in [rem : Remittances, status : {"pending", "completed"},
                               session : BOOLEAN]
  BY <1>1 DEF TransfersTypeOK, Records
<1>3. /\ transfer'[job[q].tx].rem = transfer[job[q].tx].rem
      /\ transfer'[job[q].tx].rem \in Remittances
      /\ \A t \in Transfers \ {job[q].tx} : transfer'[t] = transfer[t]
  BY <1>1, <1>2 DEF StoreSession, RecordAnswer, TransfersTypeOK
<1>4. NoRecord.rem \notin Remittances
  BY ConstantsAssumption DEF NoRecord
<1> QED
  BY <1>1, <1>3, <1>4

\* Every step keeps the books in agreement.
LEMMA BooksStep ==
  TransfersTypeOK /\ BooksAgree /\ [TransfersNext]_allVars => BooksAgree'
<1> SUFFICES ASSUME TransfersTypeOK, BooksAgree, [TransfersNext]_allVars
             PROVE  BooksAgree'
  OBVIOUS
<1>1. /\ opened \in [Transfers -> RemittanceOrNone]
      /\ opening \in [Requests -> Openings]
      /\ transfer \in [Transfers -> Records]
      /\ \A q \in Requests : Inserting(q) => /\ opening[q].tx \in Transfers
                                              /\ opening[q].rem \in Remittances
  BY DEF TransfersTypeOK, OpeningTypeOK, Openings, NoOpening, Inserting
<1>2. \A t \in Transfers : opened[t] = NoRemittance => transfer[t] = NoRecord
  BY <1>1, ConstantsAssumption DEF BooksAgree, Records
<1>3. ASSUME NEW q \in Requests, NEW t \in Transfers, OpenAtAnchor(q, t) \/ AnswerLost(q, t)
      PROVE  BooksAgree'
  <2>1. /\ opened[t] = NoRemittance /\ transfer[t] = NoRecord /\ UNCHANGED transfer
        /\ opened' = [opened EXCEPT ![t] = opening[q].rem]
        /\ Asking(q)
    BY <1>2, <1>3 DEF OpenAtAnchor, AnswerLost, transferVars
  <2>2. /\ \A p \in Requests \ {q} : opening'[p] = opening[p]
        /\ \/ opening'[q].tx = NoTransfer
           \/ opening'[q].tx = t /\ opening'[q].rem = opening[q].rem
    <3>1. CASE OpenAtAnchor(q, t)
      BY <1>1, <2>1, <3>1 DEF OpenAtAnchor, Asking, Openings
    <3>2. CASE AnswerLost(q, t)
      BY <3>2, AttemptForgets DEF AnswerLost
    <3> QED
      BY <1>3, <3>1, <3>2
  <2>3. \A p \in Requests : Inserting(p) => opening[p].tx # t
    BY <1>1, <2>1, ConstantsAssumption DEF BooksAgree
  <2>4. opening[q].tx = NoTransfer
    BY <2>1 DEF Asking
  <2>5. ASSUME NEW p \in Requests, Inserting(p)'
        PROVE  /\ opened'[opening'[p].tx] = opening'[p].rem
               /\ transfer'[opening'[p].tx] = NoRecord
               /\ \A o \in Requests : opening'[o].tx = opening'[p].tx => o = p
    <3>1. CASE p = q
      BY <1>1, <2>1, <2>2, <2>3, <2>5, <3>1, TransfersAssumption DEF Inserting
    <3>2. CASE p # q
      <4>1. Inserting(p) /\ opening'[p] = opening[p] /\ opening[p].tx \in Transfers \ {t}
        BY <1>1, <2>2, <2>3, <2>5, <3>2 DEF Inserting
      <4>2. opening'[q].tx # opening[p].tx
        BY <2>2, <4>1, TransfersAssumption
      <4> QED
        BY <1>1, <2>1, <2>2, <3>2, <4>1, <4>2 DEF BooksAgree
    <3> QED
      BY <3>1, <3>2
  <2>6. \A u \in Transfers : transfer'[u] # NoRecord => transfer'[u].rem = opened'[u]
    BY <1>1, <2>1 DEF BooksAgree
  <2> QED
    BY <2>5, <2>6 DEF BooksAgree
<1>4. ASSUME NEW q \in Requests, UNCHANGED opened, opening'[q].tx = NoTransfer,
             \A p \in Requests \ {q} : opening'[p] = opening[p],
             \/ UNCHANGED transfer
             \/ /\ Inserting(q)
                /\ transfer' = [transfer EXCEPT ![opening[q].tx] =
                     [rem |-> opening[q].rem, status |-> "pending", session |-> FALSE]]
      PROVE  BooksAgree'
  <2>1. \A t \in Transfers : transfer'[t] # NoRecord => transfer'[t].rem = opened'[t]
    BY <1>1, <1>4 DEF BooksAgree
  <2>2. ASSUME NEW p \in Requests, Inserting(p)'
        PROVE  /\ opened'[opening'[p].tx] = opening'[p].rem
               /\ transfer'[opening'[p].tx] = NoRecord
               /\ \A o \in Requests : opening'[o].tx = opening'[p].tx => o = p
    <3>1. p # q /\ opening'[p] = opening[p] /\ Inserting(p)
      BY <1>4, <2>2 DEF Inserting
    <3>2. opening[p].tx \in Transfers /\ opening[p].tx # opening[q].tx
      BY <1>1, <3>1 DEF BooksAgree
    <3>3. transfer'[opening[p].tx] = NoRecord
      BY <1>1, <1>4, <3>1, <3>2 DEF BooksAgree
    <3> QED
      BY <1>4, <3>1, <3>2, <3>3, TransfersAssumption DEF BooksAgree
  <2> QED
    BY <2>1, <2>2 DEF BooksAgree
<1>5. ASSUME NEW q \in Requests, AnchorRefuses(q) \/ InsertFails(q) \/ InsertRefused(q)
      PROVE  BooksAgree'
  <2>1. UNCHANGED <<opened, transfer>> /\ AttemptFails(q)
    BY <1>5 DEF AnchorRefuses, InsertFails, InsertRefused, transferVars
  <2> QED
    BY <1>4, <2>1, AttemptForgets
<1>6. ASSUME NEW q \in Requests, InsertRecord(q) \/ JobDies(q)
      PROVE  BooksAgree'
  <2>1. /\ opening'[q].tx = NoTransfer /\ UNCHANGED opened
        /\ \A p \in Requests \ {q} : opening'[p] = opening[p]
    BY <1>1, <1>6 DEF InsertRecord, JobDies, NoOpening
  <2> QED
    BY <1>4, <1>6, <2>1 DEF InsertRecord, JobDies
<1>7. ASSUME NEW q \in Requests, NEW r \in Remittances, StartTransfer(q, r)
      PROVE  BooksAgree'
  <2>1. /\ opening'[q].tx = NoTransfer /\ UNCHANGED <<opened, refused, transfer>>
        /\ \A p \in Requests \ {q} : opening'[p] = opening[p]
    BY <1>1, <1>7 DEF StartTransfer, transferVars
  <2> QED
    BY <1>4, <2>1
<1>8. ASSUME NEW q \in Requests, StoreSession(q) \/ RecordAnswer(q), UNCHANGED openingVars
      PROVE  BooksAgree'
  BY <1>8, RecordUpdates, RecordsStand DEF openingVars
<1>9. CASE UNCHANGED <<openingVars, transfer>>
  BY <1>9, RecordsStand DEF openingVars
<1> QED
  BY <1>3, <1>5, <1>6, <1>7, <1>8, <1>9, OpeningSteps

\* The backend's records are those of the anchor's books (withFallback,
\* interactive, programmatic).
LEMMA BooksAlwaysAgree == TransfersSpec => []BooksAgree
<1>1. TransfersInit => BooksAgree
  BY DEF TransfersInit, BooksAgree, Inserting, NoOpening
<1> QED
  BY <1>1, BooksStep, TransfersTypeCorrect, PTL DEF TransfersSpec

\* A transfer is forgotten by a fault only, and then one at a time.
LEMMA ForgottenStep ==
  ASSUME TransfersTypeOK, BooksAgree, [TransfersNext]_allVars
  PROVE  \/ Forgotten' \subseteq Forgotten /\ jobAborts' >= jobAborts
         \/ /\ jobAborts' = jobAborts + 1
            /\ \E t \in Transfers : Forgotten' \subseteq Forgotten \union {t}
<1>1. /\ opened \in [Transfers -> RemittanceOrNone]
      /\ opening \in [Requests -> Openings]
      /\ transfer \in [Transfers -> Records]
      /\ jobAborts \in Nat
      /\ \A q \in Requests : Inserting(q) => opening[q].tx \in Transfers
  BY TransfersAssumption DEF TransfersTypeOK, OpeningTypeOK, Openings, NoOpening, Inserting
<1>2. ASSUME NEW q \in Requests, UNCHANGED <<opened, refused, transfer>>,
             \A p \in Requests \ {q} : opening'[p] = opening[p],
             Inserting(q) => opening'[q].tx = opening[q].tx
      PROVE  Forgotten' \subseteq Forgotten
  BY <1>1, <1>2, TransfersAssumption DEF Forgotten, Inserting
<1>3. ASSUME NEW q \in Requests, UNCHANGED <<opened, refused, transfer>>, Inserting(q),
             \A p \in Requests \ {q} : opening'[p] = opening[p]
      PROVE  \E t \in Transfers : Forgotten' \subseteq Forgotten \union {t}
  <2>1. Forgotten' \subseteq Forgotten \union {opening[q].tx}
    BY <1>1, <1>3 DEF Forgotten
  <2> QED
    BY <1>1, <1>3, <2>1
<1>4. ASSUME NEW q \in Requests, NEW t \in Transfers, OpenAtAnchor(q, t)
      PROVE  Forgotten' \subseteq Forgotten /\ jobAborts' = jobAborts
  <2>1. /\ opened' = [opened EXCEPT ![t] = opening[q].rem] /\ opening[q].tx = NoTransfer
        /\ opening' = [opening EXCEPT ![q].tx = t]
        /\ UNCHANGED <<refused, transfer, jobAborts>> /\ opening[q] # NoOpening
    BY <1>4 DEF OpenAtAnchor, Asking, transferVars
  <2>2. opening'[q].tx = t /\ \A p \in Requests \ {q} : opening'[p] = opening[p]
    BY <1>1, <2>1 DEF Openings
  <2> QED
    BY <1>1, <2>1, <2>2, TransfersAssumption DEF Forgotten
<1>5. ASSUME NEW q \in Requests, NEW t \in Transfers, AnswerLost(q, t)
      PROVE  /\ jobAborts' = jobAborts + 1
             /\ Forgotten' \subseteq Forgotten \union {t}
  <2>1. /\ opened' = [opened EXCEPT ![t] = opening[q].rem] /\ opening[q].tx = NoTransfer
        /\ UNCHANGED <<refused, transfer>> /\ jobAborts' = jobAborts + 1
        /\ \A p \in Requests \ {q} : opening'[p] = opening[p]
    BY <1>5, AttemptForgets DEF AnswerLost, Asking, Fault
  <2> QED
    BY <1>1, <2>1, TransfersAssumption DEF Forgotten
<1>6. ASSUME NEW q \in Requests, AnchorRefuses(q)
      PROVE  Forgotten' \subseteq Forgotten /\ jobAborts' = jobAborts
  BY <1>2, <1>6, AttemptForgets DEF AnchorRefuses, Asking, Inserting, transferVars
<1>7. ASSUME NEW q \in Requests, InsertFails(q)
      PROVE  /\ jobAborts' = jobAborts + 1
             /\ \E t \in Transfers : Forgotten' \subseteq Forgotten \union {t}
  BY <1>3, <1>7, AttemptForgets DEF InsertFails, Fault
<1>14. ASSUME NEW q \in Requests, InsertRefused(q)
       PROVE  Forgotten' \subseteq Forgotten /\ jobAborts' = jobAborts
  <2>1. /\ refused' = refused \union {opening[q].tx}
        /\ UNCHANGED <<opened, transfer, jobAborts>>
        /\ \A p \in Requests \ {q} : opening'[p] = opening[p]
    BY <1>14, AttemptForgets DEF InsertRefused, transferVars
  <2> QED
    BY <1>1, <2>1 DEF Forgotten
<1>8. ASSUME NEW q \in Requests, InsertRecord(q)
      PROVE  Forgotten' \subseteq Forgotten /\ jobAborts' = jobAborts
  <2>1. /\ opening[q].tx \in Transfers /\ opening[q].rem # NoRemittance
        /\ opening[q].rem \in Remittances
    BY <1>1, <1>8, ConstantsAssumption DEF InsertRecord, Inserting, Openings, NoOpening
  <2>2. [rem |-> opening[q].rem, status |-> "pending", session |-> FALSE] # NoRecord
    BY <2>1 DEF NoRecord
  <2>3. /\ transfer'[opening[q].tx] # NoRecord
        /\ \A t \in Transfers \ {opening[q].tx} : transfer'[t] = transfer[t]
        /\ \A p \in Requests \ {q} : opening'[p] = opening[p]
        /\ UNCHANGED <<opened, refused, jobAborts>>
    BY <1>1, <1>8, <2>1, <2>2 DEF InsertRecord
  <2> QED
    BY <1>1, <2>1, <2>3 DEF Forgotten
<1>9. ASSUME NEW q \in Requests, JobDies(q)
      PROVE  /\ jobAborts' = jobAborts + 1
             /\ Forgotten' \subseteq Forgotten \/ \E t \in Transfers : Forgotten' \subseteq Forgotten \union {t}
  <2>1. /\ UNCHANGED <<opened, refused, transfer>> /\ jobAborts' = jobAborts + 1
        /\ \A p \in Requests \ {q} : opening'[p] = opening[p]
    BY <1>1, <1>9 DEF JobDies, Fault
  <2> QED
    BY <1>2, <1>3, <2>1
<1>10. ASSUME NEW q \in Requests, NEW r \in Remittances, StartTransfer(q, r)
       PROVE  Forgotten' \subseteq Forgotten /\ jobAborts' = jobAborts
  BY <1>1, <1>2, <1>10 DEF StartTransfer, Free, Inserting, NoOpening, transferVars
<1>11. ASSUME NEW q \in Requests, StoreSession(q) \/ RecordAnswer(q), UNCHANGED openingVars
       PROVE  Forgotten' \subseteq Forgotten /\ jobAborts' = jobAborts
  BY <1>11, RecordUpdates DEF Forgotten, openingVars, StoreSession, RecordAnswer
<1>12. CASE UNCHANGED <<openingVars, transfer>> /\ jobAborts' >= jobAborts
  BY <1>12 DEF Forgotten, openingVars
<1>13. \/ \E q \in Requests, t \in Transfers : OpenAtAnchor(q, t) \/ AnswerLost(q, t)
       \/ \E q \in Requests, r \in Remittances : StartTransfer(q, r)
       \/ \E q \in Requests : \/ AnchorRefuses(q) \/ InsertFails(q) \/ InsertRefused(q) \/ InsertRecord(q)
                            \/ JobDies(q)
       \/ /\ UNCHANGED openingVars
          /\ \E q \in Requests : StoreSession(q) \/ RecordAnswer(q)
       \/ UNCHANGED <<openingVars, transfer>> /\ jobAborts' = jobAborts
  BY DEF TransfersNext, Run, ServiceStep, OnAnchorTransferStarted, StoreSession, QueryAnchor,
         RecordAnswer, Notify, HandlerDies, Poll, ServiceStart, Deliver, allVars, transferVars
<1> QED
  BY <1>1, <1>4, <1>5, <1>6, <1>7, <1>8, <1>9, <1>10, <1>11, <1>12, <1>13, <1>14

\* The count of the transfers, and that there is one: each fault costs at most
\* one transfer, since the record is inserted by the route that has the anchor's
\* answer and nothing else gives it up, but for the records of wallets, which the
\* database refuses (withFallback, interactive, programmatic).
THEOREM ForgottenTransfersCounted == TransfersSpec => []ForgottenOnlyByFaults
<1> DEFINE Counted == IsFiniteSet(Forgotten) /\ ForgottenOnlyByFaults
<1>1. TransfersInit => Counted
  <2> SUFFICES ASSUME TransfersInit PROVE Counted
    OBVIOUS
  <2>1. Forgotten = {}
    BY DEF TransfersInit, Forgotten
  <2> QED
    BY <2>1, FS_EmptySet DEF TransfersInit, ForgottenOnlyByFaults
<1>2. TransfersTypeOK /\ BooksAgree /\ Counted /\ [TransfersNext]_allVars => Counted'
  <2> SUFFICES ASSUME TransfersTypeOK, BooksAgree, Counted, [TransfersNext]_allVars
               PROVE  Counted'
    OBVIOUS
  <2>1. jobAborts \in Nat /\ jobAborts' \in Nat
    BY TransfersTypeStep, TransfersAssumption DEF TransfersTypeOK
  <2>2. IsFiniteSet(Forgotten') /\ Cardinality(Forgotten') <= jobAborts'
    BY <2>1, ForgottenStep, CountKeepsUp DEF ForgottenOnlyByFaults
  <2> QED
    BY <2>2 DEF ForgottenOnlyByFaults
<1> QED
  BY <1>1, <1>2, TransfersTypeCorrect, BooksAlwaysAgree, PTL
     DEF TransfersSpec

-----------------------------------------------------------------------------
\* Delivered first

Settled == {"SettlementAuthorized", "Released"}

\* No handler takes up the operation "settle".
NoneTakesUpSettle ==
  \A p \in Requests :
    req'[p].op = "settle" => req[p].op = "settle" /\ req'[p].rem = req[p].rem

\* A step that starts no settlement, and settles only what is being settled.
NoNewSettlement ==
  /\ NoneTakesUpSettle
  /\ \A r \in Remittances :
       escrow'[r] \in Settled =>
         \/ escrow[r] \in Settled
         \/ \E p \in Requests : req[p].op = "settle" /\ req[p].rem = r

\* What is delivered stays so: records keep their remittance.
LEMMA DeliveredGrows ==
  ASSUME TransfersTypeOK, BooksAgree, [TransfersNext]_allVars,
         NEW r \in Remittances, Delivered(r)
  PROVE  Delivered(r)'
<1>1. PICK t \in delivered : transfer[t].rem = r
  BY DEF Delivered
<1>2. t \in Transfers /\ transfer[t] # NoRecord
  BY <1>1, ConstantsAssumption DEF TransfersTypeOK, NoRecord
<1>3. ASSUME NEW u \in Transfers, NEW x,
             \/ transfer' = [transfer EXCEPT ![u].session = x]
             \/ transfer' = [transfer EXCEPT ![u].status = x]
      PROVE  transfer'[t].rem = r
  <2>1. CASE u = t
    <3>1. transfer[t] \in [rem : Remittances, status : {"pending", "completed"},
                           session : BOOLEAN]
      BY <1>2 DEF TransfersTypeOK, Records
    <3>2. [transfer[t] EXCEPT !.session = x].rem = r /\ [transfer[t] EXCEPT !.status = x].rem = r
      BY <1>1, <3>1
    <3> QED
      BY <1>2, <1>3, <2>1, <3>2 DEF TransfersTypeOK
  <2>2. CASE u # t
    BY <1>1, <1>2, <1>3, <2>2 DEF TransfersTypeOK
  <2> QED
    BY <2>1, <2>2
<1>4. ASSUME NEW q \in Requests, StoreSession(q) \/ RecordAnswer(q)
      PROVE  transfer'[t].rem = r /\ delivered' = delivered
  <2>1. job[q].tx \in Transfers
    BY <1>4 DEF StoreSession, RecordAnswer, TransfersTypeOK, Jobs, NoJob
  <2> QED
    BY <1>3, <1>4, <2>1 DEF StoreSession, RecordAnswer
<1>5. ASSUME NEW q \in Requests, InsertRecord(q)
      PROVE  transfer'[t].rem = r /\ delivered' = delivered
  BY <1>1, <1>2, <1>5 DEF InsertRecord, BooksAgree, TransfersTypeOK
<1>6. ASSUME NEW u \in Transfers, Deliver(u)
      PROVE  transfer' = transfer /\ delivered \subseteq delivered'
  BY <1>6 DEF Deliver
<1>7. \/ \E q \in Requests : StoreSession(q) \/ RecordAnswer(q)
      \/ \E q \in Requests : InsertRecord(q)
      \/ \E u \in Transfers : Deliver(u)
      \/ UNCHANGED <<transfer, delivered>>
  BY DEF TransfersNext, Run, ServiceStep, OnAnchorTransferStarted, QueryAnchor, Notify,
         HandlerDies, JobDies, Poll, ServiceStart, allVars, transferVars,
         StartTransfer, OpenAtAnchor, AnchorRefuses, AnswerLost, InsertFails, InsertRefused
<1> QED
  BY <1>1, <1>4, <1>5, <1>6, <1>7 DEF Delivered

\* One handler that goes on without it, or keeps it.
LEMMA OneRequestMoves ==
  ASSUME TypeOK, NEW q \in Requests, NEW d,
         req' = [req EXCEPT ![q] = d],
         d.op = "settle" => req[q].op = "settle" /\ d.rem = req[q].rem
  PROVE  NoneTakesUpSettle
<1>1. \A p \in Requests : req'[p] = IF p = q THEN d ELSE req[p]
  BY DEF TypeOK
<1> QED
  BY <1>1 DEF NoneTakesUpSettle

LEMMA RequestContinues ==
  ASSUME TypeOK, NEW q \in Requests, Finish(q) \/ \E pc, to : Continue(q, pc, to)
  PROVE  NoneTakesUpSettle
<1>1. req[q] \in RequestRecords /\ Idle.op # "settle"
  BY DEF TypeOK, Idle
<1>2. CASE Finish(q)
  BY <1>1, <1>2, OneRequestMoves DEF Finish
<1>3. ASSUME NEW pc, NEW to, Continue(q, pc, to)
      PROVE  NoneTakesUpSettle
  <2>1. [req[q] EXCEPT !.pc = pc, !.to = to].op = req[q].op
        /\ [req[q] EXCEPT !.pc = pc, !.to = to].rem = req[q].rem
    BY <1>1 DEF RequestRecords
  <2> QED
    BY <1>3, <2>1, OneRequestMoves DEF Continue
<1> QED
  BY <1>2, <1>3

\* Only authorize_settlement, and the release after it, settle an escrow.
LEMMA ContractCallSettles ==
  ASSUME TypeOK, NEW q \in Requests, ContractCall(q)
  PROVE  NoNewSettlement
<1> DEFINE c == req[q]
<1>1. c \in RequestRecords
  BY DEF TypeOK
<1>2. NoneTakesUpSettle
  <2>1. AfterCall(c).op = c.op /\ AfterCall(c).rem = c.rem
    BY <1>1 DEF AfterCall, RequestRecords
  <2> QED
    BY <2>1, OneRequestMoves DEF ContractCall
<1>3. ASSUME NEW r \in Remittances, escrow'[r] \in Settled, escrow[r] \notin Settled
      PROVE  c.op = "settle" /\ c.rem = r
  <2>1. escrow' = [escrow EXCEPT ![IF c.op = "create" THEN c.rem ELSE c.link] = Effect[c.op]]
    BY DEF ContractCall
  <2>2. r = (IF c.op = "create" THEN c.rem ELSE c.link) /\ Effect[c.op] \in Settled
    BY <1>3, <2>1 DEF TypeOK
  <2>3. c.op \in {"create", "fund", "process", "settle", "release", "cancel", "reclaim", "sweep"}
    BY DEF ContractCall, CallAllowed
  <2>4. c.op \in {"settle", "release"}
    BY <2>2, <2>3 DEF Effect, Settled
  <2>5. c.op # "release"
    BY <1>3, <2>2 DEF ContractCall, CallAllowed, ReleaseAllowed, Settled
  <2>6. c.op = "settle" => c.link = c.rem
    BY DEF ContractCall, CallAllowed
  <2> QED
    BY <2>2, <2>4, <2>5, <2>6
<1> QED
  BY <1>2, <1>3 DEF NoNewSettlement

\* The other steps of a running handler settle nothing.
LEMMA StepSettles ==
  ASSUME TypeOK, NEW q \in Requests, Step(q)
  PROVE  NoNewSettlement
<1>1. req[q] \in RequestRecords /\ Idle.op # "settle"
  BY DEF TypeOK, Idle
<1>2. CASE ContractCall(q)
  BY <1>2, ContractCallSettles
<1>3. ASSUME UNCHANGED escrow, NoneTakesUpSettle
      PROVE  NoNewSettlement
  BY <1>3 DEF NoNewSettlement
<1>4. ASSUME UNCHANGED escrow, NEW d, req' = [req EXCEPT ![q] = d],
             d.op = req[q].op /\ d.rem = req[q].rem
      PROVE  NoNewSettlement
  BY <1>3, <1>4, OneRequestMoves
<1>5. CASE CallRejected(q) \/ SetStateCheck(q) \/ PhaseWrite(q) \/ RecordContractId(q)
             \/ ReentryQuery(q) \/ WaitForTransaction(q) \/ VerifyRelay(q)
  <2>1. UNCHANGED escrow
    BY <1>5 DEF CallRejected, SetStateCheck, PhaseWrite, RecordContractId, ReentryQuery,
                WaitForTransaction, VerifyRelay, ledgerVars
  <2>2. Finish(q) \/ \E pc, to : Continue(q, pc, to)
    BY <1>5 DEF CallRejected, SetStateCheck, PhaseWrite, RecordContractId, ReentryQuery,
                WaitForTransaction, VerifyRelay, Advance
  <2> QED
    BY <1>3, <2>1, <2>2, RequestContinues
<1>6. CASE StatusWrite(q)
  <2>1. AfterWrite(req[q]).op # "settle" \/ AfterWrite(req[q]) = Idle
    BY <1>1 DEF AfterWrite, RequestRecords
  <2> QED
    BY <1>1, <1>6, <2>1, OneRequestMoves DEF StatusWrite, ledgerVars, NoNewSettlement
<1>7. CASE AuthorizeAndRelease(q)
  <2> DEFINE reread == [req[q] EXCEPT !.link = row[req[q].rem].link]
  <2>1. UNCHANGED escrow
    BY <1>7 DEF AuthorizeAndRelease, ledgerVars
  <2>2. \/ req' = [req EXCEPT ![q] = [reread EXCEPT !.pc = "query"]]
        \/ req' = [req EXCEPT ![q] = [reread EXCEPT !.pc = "call"]]
        \/ Finish(q)
    BY <1>7 DEF AuthorizeAndRelease, Finish
  <2>3. /\ [reread EXCEPT !.pc = "query"].op = req[q].op
        /\ [reread EXCEPT !.pc = "query"].rem = req[q].rem
        /\ [reread EXCEPT !.pc = "call"].op = req[q].op
        /\ [reread EXCEPT !.pc = "call"].rem = req[q].rem
    BY <1>1 DEF RequestRecords
  <2> HIDE DEF reread
  <2> QED
    BY <1>3, <1>4, <2>1, <2>2, <2>3, RequestContinues
<1>8. CASE RelaySubmit(q)
  <2>1. Finish(q) \/ \E pc, to : Continue(q, pc, to)
    BY <1>8 DEF RelaySubmit
  <2>2. ASSUME NEW r \in Remittances, escrow'[r] \in Settled
        PROVE  escrow[r] \in Settled
    BY <1>8, <2>2 DEF RelaySubmit, EnvelopeAllowed, EnvelopeEffect, ledgerVars, TypeOK, Settled
  <2> QED
    BY <2>1, <2>2, RequestContinues DEF NoNewSettlement
<1>9. CASE RelayReload(q)
  <2>1. [Loaded(req[q]) EXCEPT !.pc = "wait"].op = req[q].op
        /\ [Loaded(req[q]) EXCEPT !.pc = "wait"].rem = req[q].rem
    BY <1>1 DEF Loaded, RequestRecords
  <2> QED
    BY <1>1, <1>4, <1>9, <2>1, OneRequestMoves DEF RelayReload, ledgerVars, Idle, NoNewSettlement
<1>10. CASE ReconcileCreate(q)
  <2>1. UNCHANGED escrow
    BY <1>10 DEF ReconcileCreate, ledgerVars
  <2>2. \/ req' = [req EXCEPT ![q] = [req[q] EXCEPT !.pc = "link", !.link = newest]]
        \/ Finish(q)
    BY <1>10 DEF ReconcileCreate, Finish
  <2>3. /\ [req[q] EXCEPT !.pc = "link", !.link = newest].op = req[q].op
        /\ [req[q] EXCEPT !.pc = "link", !.link = newest].rem = req[q].rem
    BY <1>1 DEF RequestRecords
  <2> QED
    BY <1>3, <1>4, <2>1, <2>2, <2>3, RequestContinues
<1> QED
  BY <1>2, <1>5, <1>6, <1>7, <1>8, <1>9, <1>10 DEF Step

\* Neither do the entry points, the apps and the public, or a handler's death.
LEMMA StartSettles ==
  ASSUME TypeOK, NEW q \in Requests, NEW r \in Remittances,
         \/ Create(q, r) \/ Fund(q, r) \/ BeginProcessing(q, r) \/ Release(q, r)
         \/ Refund(q, r) \/ ExpirySweep(q, r) \/ Confirm(q, r) \/ Relay(q, r)
         \/ ApplyPaymentEvent(q, r)
  PROVE  NoNewSettlement
<1>1. UNCHANGED escrow
  BY DEF Create, Fund, BeginProcessing, Release, Refund, ExpirySweep, Confirm, Relay,
         ApplyPaymentEvent, ledgerVars
<1>2. ASSUME NEW op \in Ops \ {"settle"}, NEW pc, NEW to,
             \/ req' = [req EXCEPT ![q] = Started(op, r, pc, to)]
             \/ req' = [req EXCEPT ![q] = Loaded(Started(op, r, pc, to))]
      PROVE  NoNewSettlement
  <2>1. Started(op, r, pc, to).op # "settle" /\ Loaded(Started(op, r, pc, to)).op # "settle"
    BY DEF Started, Loaded
  <2> QED
    BY <1>1, <1>2, <2>1, OneRequestMoves DEF NoNewSettlement
<1>3. CASE Create(q, r)
  <2>1. CASE UNCHANGED req
    BY <1>1, <2>1 DEF NoNewSettlement, NoneTakesUpSettle
  <2>2. CASE req' = [req EXCEPT ![q] = Started("create", r, "call", "NONE")]
    BY <1>2, <2>2 DEF Ops
  <2> QED
    BY <1>3, <2>1, <2>2 DEF Create
<1>4. CASE Fund(q, r) \/ BeginProcessing(q, r) \/ Release(q, r)
  BY <1>2, <1>4 DEF Fund, BeginProcessing, Release, Begin, Ops
<1>5. CASE Refund(q, r)
  BY <1>2, <1>5 DEF Refund, Begin, Ops
<1>6. CASE ExpirySweep(q, r)
  BY <1>2, <1>6 DEF ExpirySweep, Begin, Ops
<1>7. CASE ApplyPaymentEvent(q, r)
  BY <1>2, <1>7 DEF ApplyPaymentEvent, Begin, Ops
<1>8. CASE Confirm(q, r)
  BY <1>2, <1>8 DEF Confirm, Begin, Ops
<1>9. CASE Relay(q, r)
  BY <1>2, <1>9 DEF Relay, Begin, Ops
<1> QED
  BY <1>3, <1>4, <1>5, <1>6, <1>7, <1>8, <1>9

LEMMA OthersSettle ==
  ASSUME TypeOK,
         \/ \E r \in Remittances : Environment(r)
         \/ \E q \in Requests : Abort(q)
         \/ UNCHANGED vars
  PROVE  NoNewSettlement
<1>1. ASSUME NEW q \in Requests, Abort(q)
      PROVE  NoNewSettlement
  BY <1>1, RequestContinues DEF Abort, ledgerVars, NoNewSettlement
<1>2. ASSUME NEW r \in Remittances, Environment(r)
      PROVE  NoNewSettlement
  <2>1. UNCHANGED req
    BY <1>2 DEF Environment, PrepareFund, PrepareRefund, AppSubmits, PublicCall, Expire,
                SenderSplits, LedgerExpire
  <2>2. ASSUME NEW s \in Remittances, escrow'[s] \in Settled
        PROVE  escrow[s] \in Settled
    BY <1>2, <2>2
       DEF Environment, PrepareFund, PrepareRefund, AppSubmits, PublicCall, Expire,
           SenderSplits, LedgerExpire, EnvelopeAllowed, EnvelopeEffect, ReleaseAllowed, ledgerVars,
           TypeOK, Settled
  <2> QED
    BY <2>1, <2>2 DEF NoNewSettlement, NoneTakesUpSettle
<1>3. CASE UNCHANGED vars
  BY <1>3 DEF vars, NoNewSettlement, NoneTakesUpSettle
<1> QED
  BY <1>1, <1>2, <1>3

\* A step that starts no settlement keeps the invariant, if what it makes of the
\* jobs does.
LEMMA NoNewSettlementKeeps ==
  ASSUME DeliveredFirst, NoNewSettlement,
         \A r \in Remittances : Delivered(r) => Delivered(r)',
         \A q \in Requests : req[q].op = "settle" => req[q].rem \in Remittances,
         \A q \in Requests :
           job'[q].pc \in {"completed", "notify"} => job'[q].tx \in delivered'
  PROVE  DeliveredFirst'
<1>1. PaidOnlyWhenDelivered'
  BY DEF DeliveredFirst, PaidOnlyWhenDelivered, NoNewSettlement, Settled
<1>2. ASSUME NEW q \in Requests, req'[q].op = "settle"
      PROVE  Delivered(req[q].rem)'
  <2>1. req[q].op = "settle" /\ req'[q].rem = req[q].rem
    BY <1>2 DEF NoNewSettlement, NoneTakesUpSettle
  <2>2. PICK r \in Remittances : r = req[q].rem
    BY <2>1
  <2>3. Delivered(r)'
    BY <2>1, <2>2 DEF DeliveredFirst
  <2> QED
    BY <2>1, <2>2, <2>3 DEF Delivered
<1> QED
  BY <1>1, <1>2 DEF DeliveredFirst

\* The jobs: only the anchor's answer makes a poll say "completed".
LEMMA JobsKnow ==
  ASSUME TransfersTypeOK, DeliveredFirst, [TransfersNext]_allVars, NEW p \in Requests,
         job'[p].pc \in {"completed", "notify"}
  PROVE  job'[p].tx \in delivered'
<1>0. delivered \subseteq delivered'
  BY DEF TransfersNext, Run, ServiceStep, OnAnchorTransferStarted, StoreSession, QueryAnchor,
         RecordAnswer, Notify, HandlerDies, JobDies, Poll, ServiceStart, StartTransfer,
         OpenAtAnchor, AnchorRefuses, AnswerLost, InsertRecord, InsertFails, InsertRefused,
         Deliver, allVars, transferVars
<1>1. job[p].pc \in {"completed", "notify"} => job[p].tx \in delivered
  BY DEF DeliveredFirst
<1>2. CASE job'[p] = job[p]
  BY <1>0, <1>1, <1>2
<1>3. ASSUME NEW q \in Requests, Stops(q)
      PROVE  job'[p] = NoJob \/ job'[p] = job[p]
  BY <1>3, JobStops
<1>4. ASSUME NEW q \in Requests, NEW pc, Goes(q, pc)
      PROVE  \/ job'[p] = job[p]
             \/ p = q /\ job'[p] = [job[q] EXCEPT !.pc = pc]
  BY <1>4 DEF Goes, TransfersTypeOK
<1>5. ASSUME NEW q \in Requests, NEW t \in Transfers,
             job' = [job EXCEPT ![q] = [tx |-> t, pc |-> "query"]]
      PROVE  job'[p] = job[p]
  BY <1>5 DEF TransfersTypeOK
<1>6. ASSUME NEW q \in Requests, NEW pc, Goes(q, pc), pc \in {"completed", "notify"} =>
                                                     job[q].tx \in delivered
      PROVE  job'[p].tx \in delivered'
  <2>1. CASE p = q /\ job'[p] = [job[q] EXCEPT !.pc = pc]
    <3>1. job[q] \in [tx : Transfers \union {NoTransfer}, 
                      pc : {"idle", "started", "processing", "session",
                            "query", "completed", "unfinished", "notify"}]
      BY DEF TransfersTypeOK, Jobs, NoJob
    <3>2. [job[q] EXCEPT !.pc = pc].pc = pc /\ [job[q] EXCEPT !.pc = pc].tx = job[q].tx
      BY <3>1
    <3> QED
      BY <1>0, <1>6, <2>1, <3>2
  <2> QED
    BY <1>2, <1>4, <1>6, <2>1
<1>7. CASE UNCHANGED job
  BY <1>2, <1>7
<1>8. ASSUME NEW q \in Requests, Run(q) \/ HandlerDies(q) \/ JobDies(q)
      PROVE  job'[p].tx \in delivered'
  <2>1. CASE Stops(q)
    BY <1>2, <1>3, <2>1 DEF NoJob
  <2>2. CASE RecordAnswer(q) /\ Goes(q, "notify")
    <3>1. job[q].pc = "completed"
      BY <2>2, <1>3 DEF RecordAnswer, Goes, Stops, NoJob, TransfersTypeOK, Jobs
    <3> QED
      BY <1>6, <2>2, <3>1 DEF DeliveredFirst
  <2>3. CASE QueryAnchor(q)
    BY <1>6, <2>3 DEF QueryAnchor
  <2>4. CASE Goes(q, "processing") \/ Goes(q, "session")
    BY <1>6, <2>4
  <2>5. CASE InsertRecord(q)
    <3>1. opening[q].tx \in Transfers
      BY <2>5 DEF InsertRecord, Inserting, NoOpening, TransfersTypeOK, OpeningTypeOK, Openings
    <3>2. job'[p] = job[p] \/ job'[p] = [tx |-> opening[q].tx, pc |-> "started"]
      BY <2>5 DEF InsertRecord, TransfersTypeOK
    <3> QED
      BY <1>2, <3>2
  <2>6. CASE (\E t \in Transfers : OpenAtAnchor(q, t)) \/ AnchorRefuses(q) \/ InsertRefused(q)
    BY <1>7, <2>6 DEF OpenAtAnchor, AnchorRefuses, InsertRefused, transferVars
  <2> QED
    BY <1>7, <1>8, <2>1, <2>2, <2>3, <2>4, <2>5, <2>6
       DEF Run, HandlerDies, JobDies, ServiceStep, OnAnchorTransferStarted, StoreSession,
           RecordAnswer, Notify
<1> QED
  BY <1>2, <1>5, <1>7, <1>8
     DEF TransfersNext, Poll, StartTransfer, AnswerLost, InsertFails, InsertRefused, Deliver, ServiceStart,
         allVars, transferVars

\* A poll that has heard of the delivery starts a settlement; nothing else does.
LEMMA NotifyDelivered ==
  ASSUME TypeOK, TransfersTypeOK, DeliveredFirst,
         \A r \in Remittances : Delivered(r) => Delivered(r)',
         \A p \in Requests : req[p].op = "settle" => req[p].rem \in Remittances,
         \A p \in Requests :
           job'[p].pc \in {"completed", "notify"} => job'[p].tx \in delivered',
         NEW q \in Requests, job[q].pc = "notify", OnAnchorStatus(q, Subject(q))
  PROVE  DeliveredFirst'
<1>1. Subject(q) \in Remittances
  BY SubjectExists
<1>2. Delivered(Subject(q))
  BY DEF DeliveredFirst, Delivered, Subject
<1>3. PICK r \in Remittances : r = Subject(q) /\ Delivered(r)'
  BY <1>1, <1>2
<1>4. UNCHANGED escrow
  BY DEF OnAnchorStatus, ledgerVars
<1>5. \A p \in Requests :
        req'[p] = IF p = q THEN Started("settle", Subject(q), "read", "NONE") ELSE req[p]
  BY DEF OnAnchorStatus, Begin, TypeOK
<1>6. PaidOnlyWhenDelivered'
  BY <1>4 DEF DeliveredFirst, PaidOnlyWhenDelivered
<1>7. ASSUME NEW p \in Requests, req'[p].op = "settle"
      PROVE  Delivered(req[p].rem)'
  <2>1. CASE p = q
    <3>1. req'[p].rem = r
      BY <1>3, <1>5, <2>1 DEF Started
    <3> QED
      BY <1>3, <3>1 DEF Delivered
  <2>2. CASE p # q
    <3>1. req'[p] = req[p]
      BY <1>5, <2>2
    <3>2. PICK s \in Remittances : s = req[p].rem
      BY <1>7, <3>1
    <3>3. Delivered(s) => Delivered(s)'
      OBVIOUS
    <3>4. Delivered(s)
      BY <1>7, <3>1, <3>2 DEF DeliveredFirst
    <3> QED
      BY <3>1, <3>2, <3>3, <3>4 DEF Delivered
  <2> QED
    BY <2>1, <2>2
<1> QED
  BY <1>6, <1>7 DEF DeliveredFirst

\* Only a poll that is to report a completed transfer starts a settlement.
LEMMA SettlementsComeFrom ==
  ASSUME DecisionsJustified, TransfersTypeOK, [TransfersNext]_allVars
  PROVE  \/ NoNewSettlement
         \/ \E q \in Requests : /\ job[q].pc = "notify" /\ Stops(q) /\ UNCHANGED transfer
                               /\ OnAnchorStatus(q, Subject(q))
<1>1. TypeOK
  BY DEF DecisionsJustified
<1>2. ASSUME UNCHANGED vars PROVE NoNewSettlement
  BY <1>1, <1>2, OthersSettle
<1>3. ASSUME NEW q \in Requests, OnAnchorTransferStarted(q)
      PROVE  NoNewSettlement
  <2>1. Subject(q) \in Remittances
    BY <1>3, SubjectExists DEF OnAnchorTransferStarted
  <2>2. CASE BeginProcessing(q, Subject(q))
    BY <1>1, <2>1, <2>2, StartSettles
  <2> QED
    BY <1>2, <1>3, <2>2 DEF OnAnchorTransferStarted
<1>4. ASSUME NEW q \in Requests, NEW r \in Remittances, ServiceStart(q, r)
      PROVE  NoNewSettlement
  BY <1>1, <1>4, StartSettles DEF ServiceStart
<1>5. ASSUME NEW q \in Requests, ServiceStep(q)
      PROVE  NoNewSettlement
  BY <1>1, <1>5, StepSettles DEF ServiceStep
<1>6. CASE (\E q \in Requests : HandlerDies(q)) \/ (\E r \in Remittances : Environment(r))
  BY <1>1, <1>6, OthersSettle DEF HandlerDies
<1> QED
  BY <1>2, <1>3, <1>4, <1>5, <1>6
     DEF TransfersNext, Run, Notify, StoreSession, QueryAnchor, RecordAnswer, JobDies, Poll,
         StartTransfer, OpenAtAnchor, AnchorRefuses, AnswerLost, InsertRecord, InsertFails, InsertRefused,
         Deliver, allVars

\* Every step keeps the invariant.
LEMMA DeliveredStep ==
  /\ DecisionsJustified
  /\ TransfersTypeOK
  /\ BooksAgree
  /\ DeliveredFirst
  /\ [TransfersNext]_allVars
  => DeliveredFirst'
<1> SUFFICES ASSUME DecisionsJustified, TransfersTypeOK, BooksAgree, DeliveredFirst,
                    [TransfersNext]_allVars
             PROVE  DeliveredFirst'
  OBVIOUS
<1>1. TypeOK
  BY DEF DecisionsJustified
<1>2. \A q \in Requests : req[q].op = "settle" => req[q].rem \in Remittances
  BY DEF DecisionsJustified, Sound, Idle
<1>3. \A r \in Remittances : Delivered(r) => Delivered(r)'
  BY DeliveredGrows
<1>4. \A q \in Requests :
        job'[q].pc \in {"completed", "notify"} => job'[q].tx \in delivered'
  BY JobsKnow
<1>5. ASSUME NoNewSettlement
      PROVE  DeliveredFirst'
  BY <1>2, <1>3, <1>4, <1>5, NoNewSettlementKeeps
<1>6. ASSUME NEW q \in Requests, job[q].pc = "notify", OnAnchorStatus(q, Subject(q))
      PROVE  DeliveredFirst'
  BY <1>1, <1>2, <1>3, <1>4, <1>6, NotifyDelivered
<1> QED
  BY <1>5, <1>6, SettlementsComeFrom

\* Nothing is settled initially.
LEMMA DeliveredInit == TransfersInit => DeliveredFirst
BY DEF TransfersInit, Init, DeliveredFirst, PaidOnlyWhenDelivered, Idle, NoJob

\* The service's inductive invariant, carried over: with the routes and the
\* poll, every decision in flight is still justified by the escrow.
THEOREM TransfersDecisionsJustified == TransfersSpec => []DecisionsJustified
BY TransfersImplementService, DecisionsAlwaysJustified, PTL DEF ImplementsRemittanceService

\* What is proved of the service holds with the routes and the poll as well: rows
\* are backed, settlements seen through but for those that deaths drop, money is
\* behind rows that point at it, stale writes are the late ones, outcomes final,
\* and the promise and the tickets kept (onAnchorTransferStarted, onAnchorStatus).
THEOREM TransfersInheritSafety ==
  TransfersSpec =>
    /\ [](StatusBackedByEscrow /\ CorridorNeedsFundedRow /\ SettledNeverExpired)
    /\ [](SettlementInHand /\ Cardinality(Stuck) <= aborts)
    /\ [](LinkIsOwn /\ FundsAreLinked)
    /\ OnlyLateMovesAreIllegal /\ OutcomeNeverReversed
    /\ KeepsPromise /\ FollowsTicket
BY TransfersImplementService, StatusesAreBacked, CorridorSafe, SettledSafe,
   SettlementsAreSeenThrough, StuckPayoutsAreCounted, LinksAreOwn, FundsStayLinked,
   StaleWritesAreLate, OutcomesAreFinal, PromiseIsKept, TicketsAreFollowed, PTL
   DEF ImplementsRemittanceService

\* The escrow, the settlements and the polls that have an answer are never ahead
\* of the anchor (anchorPoll, onAnchorStatus, authorizeAndRelease).
THEOREM DeliveredAlwaysFirst == TransfersSpec => []DeliveredFirst
BY DeliveredInit, DeliveredStep, TransfersTypeCorrect, BooksAlwaysAgree,
   TransfersDecisionsJustified, PTL
   DEF TransfersSpec

\* No remittance is settled or paid out before the anchor has delivered one of
\* its transfers (authorizeAndRelease: "Called when the anchor completes").
THEOREM PayoutFollowsDelivery == TransfersSpec => []PaidOnlyWhenDelivered
<1>1. DeliveredFirst => PaidOnlyWhenDelivered
  BY DEF DeliveredFirst
<1> QED
  BY <1>1, DeliveredAlwaysFirst, PTL

-----------------------------------------------------------------------------
\* The sessions that routes lose

Moved == {"Processing", "SettlementAuthorized", "Released", "Refunded"}

\* The service is putting into processing the remittance of the route in slot q,
\* which has been funded and is known to its row.
InProcess(q) ==
  /\ req[q].op = "process"
  /\ req[q].rem = Subject(q)
  /\ req[q].link = Subject(q)
  /\ req[q].pc \in {"call", "check", "write"}
  /\ req[q].pc \in {"check", "write"} => req[q].to = "PROCESSING"
  /\ escrow[Subject(q)] \in WasFunded

\* What is known of the route or poll in slot q: it opens no other transfer, a
\* poll's transfer has its session, and the service works for a route that waits.
AtWork(q) ==
  /\ job[q] # NoJob => opening[q] = NoOpening
  /\ job[q].pc \in {"query", "completed", "unfinished", "notify"} =>
       transfer[job[q].tx].session
  /\ job[q].pc = "processing" => InProcess(q)

RoutesAtWork == \A q \in Requests : AtWork(q)

\* The service's invariant about money and contract ids, carried over.
LEMMA TransfersFundersLinked == TransfersSpec => []FundersLinked
BY TransfersImplementService, FundersStayLinked, PTL DEF ImplementsRemittanceService

\* A slot that is running something has a record to work on.
LEMMA JobHasRecord ==
  ASSUME TransfersTypeOK, NEW q \in Requests, job[q] # NoJob
  PROVE  /\ job[q].tx \in Transfers
         /\ transfer[job[q].tx] # NoRecord
         /\ transfer[job[q].tx] \in [rem : Remittances, status : {"pending", "completed"},
                                     session : BOOLEAN]
BY DEF TransfersTypeOK, Jobs, Records

\* Records stay, for the same remittance, and keep their session.
LEMMA RecordsKeep ==
  ASSUME TransfersTypeOK, BooksAgree, [TransfersNext]_allVars, NEW t \in Transfers,
         transfer[t] # NoRecord
  PROVE  /\ transfer'[t] # NoRecord
         /\ transfer'[t].rem = transfer[t].rem
         /\ transfer[t].session => transfer'[t].session
<1>1. transfer \in [Transfers -> Records]
  BY DEF TransfersTypeOK
<1>2. ASSUME NEW q \in Requests, StoreSession(q) \/ RecordAnswer(q)
      PROVE  transfer[t].session => transfer'[t].session
  <2>1. job[q] # NoJob
    BY <1>2 DEF StoreSession, RecordAnswer, NoJob
  <2>2. transfer[job[q].tx] \in [rem : Remittances, status : {"pending", "completed"},
                                 session : BOOLEAN]
    BY <2>1, JobHasRecord
  <2>3. CASE t = job[q].tx
    BY <1>1, <1>2, <2>2, <2>3 DEF StoreSession, RecordAnswer
  <2>4. CASE t # job[q].tx
    BY <1>1, <1>2, <2>4 DEF StoreSession, RecordAnswer
  <2> QED
    BY <2>3, <2>4
<1>3. ASSUME NEW q \in Requests, StoreSession(q) \/ RecordAnswer(q)
      PROVE  transfer'[t] # NoRecord /\ transfer'[t].rem = transfer[t].rem
  BY <1>3, RecordUpdates
<1>4. ASSUME NEW q \in Requests, InsertRecord(q)
      PROVE  transfer'[t] = transfer[t]
  <2>1. opening[q].tx # t
    BY <1>4 DEF InsertRecord, BooksAgree
  <2> QED
    BY <1>1, <1>4, <2>1 DEF InsertRecord
<1>5. \/ UNCHANGED transfer
      \/ \E q \in Requests : StoreSession(q) \/ RecordAnswer(q) \/ InsertRecord(q)
  BY DEF TransfersNext, Run, ServiceStep, OnAnchorTransferStarted, QueryAnchor, Notify,
         HandlerDies, JobDies, Poll, ServiceStart, StartTransfer, OpenAtAnchor, AnchorRefuses,
         AnswerLost, InsertFails, InsertRefused, Deliver, allVars, transferVars
<1> QED
  BY <1>2, <1>3, <1>4, <1>5

\* Escrows that were funded, or have moved on from there, stay so.
LEMMA EscrowsStayMoved ==
  ASSUME DecisionsJustified, [Next]_vars, NEW r \in Remittances
  PROVE  /\ escrow[r] \in WasFunded => escrow'[r] \in WasFunded
         /\ escrow[r] \in Moved => escrow'[r] \in Moved
<1>1. escrow[r] \in EscrowStates
  BY DEF DecisionsJustified, TypeOK
<1> QED
  BY <1>1, EscrowsMoveForward DEF EscrowMoves, WasFunded, Moved, EscrowStates

\* The steps that change what a slot runs.
LEMMA JobMoves ==
  ASSUME TransfersTypeOK, [TransfersNext]_allVars, NEW p \in Requests, job'[p] # job[p]
  PROVE  \/ ServiceStep(p) /\ job[p].pc = "processing" /\ req'[p] = Idle
         \/ OnAnchorTransferStarted(p) \/ StoreSession(p) \/ QueryAnchor(p)
         \/ RecordAnswer(p) \/ Notify(p) \/ HandlerDies(p) \/ JobDies(p)
         \/ InsertRecord(p) \/ \E t \in Transfers : Poll(p, t)
<1>1. job \in [Requests -> Jobs]
  BY DEF TransfersTypeOK
<1>2. ASSUME NEW q \in Requests, ServiceStep(q)
      PROVE  p = q /\ job[p].pc = "processing" /\ req'[p] = Idle
  BY <1>1, <1>2 DEF ServiceStep, Goes, Stops
<1>3. ASSUME NEW q \in Requests,
             \/ OnAnchorTransferStarted(q) \/ StoreSession(q) \/ QueryAnchor(q)
             \/ RecordAnswer(q) \/ Notify(q) \/ HandlerDies(q) \/ JobDies(q)
             \/ InsertRecord(q) \/ \E t \in Transfers : Poll(q, t)
      PROVE  p = q
  BY <1>1, <1>3 DEF OnAnchorTransferStarted, StoreSession, QueryAnchor, RecordAnswer, Notify,
     HandlerDies, JobDies, InsertRecord, Poll, Goes, Stops
<1>4. ~UNCHANGED job
  OBVIOUS
<1>5. \E q \in Requests :
         \/ ServiceStep(q)
         \/ OnAnchorTransferStarted(q) \/ StoreSession(q) \/ QueryAnchor(q)
         \/ RecordAnswer(q) \/ Notify(q) \/ HandlerDies(q) \/ JobDies(q)
         \/ InsertRecord(q) \/ \E t \in Transfers : Poll(q, t)
  BY <1>4 DEF TransfersNext, Run, ServiceStart, StartTransfer, OpenAtAnchor, AnchorRefuses,
     AnswerLost, InsertFails, InsertRefused, Deliver, allVars, transferVars
<1> QED
  BY <1>2, <1>3, <1>5

\* A slot that goes on running the same opens nothing meanwhile, and only the
\* service moves the request it works on.
LEMMA SlotRests ==
  ASSUME DecisionsJustified, TransfersTypeOK, [TransfersNext]_allVars, NEW p \in Requests,
         AtWork(p), job[p] # NoJob, job'[p] = job[p]
  PROVE  /\ opening'[p] = NoOpening
         /\ job[p].pc = "processing" =>
              req'[p] = req[p] \/ (Step(p) /\ req'[p] # Idle)
<1>1. opening \in [Requests -> Openings] /\ opening[p] = NoOpening
  BY DEF TransfersTypeOK, OpeningTypeOK, AtWork
<1>2. opening'[p] = NoOpening
  <2>1. ASSUME NEW q \in Requests, NEW r \in Remittances, StartTransfer(q, r)
        PROVE  opening'[p] = NoOpening
    BY <1>1, <2>1 DEF StartTransfer, Free
  <2>2. ASSUME NEW q \in Requests, NEW t \in Transfers, OpenAtAnchor(q, t) \/ AnswerLost(q, t)
        PROVE  opening'[p] = NoOpening
    BY <1>1, <2>2 DEF OpenAtAnchor, AnswerLost, Asking, AttemptFails
  <2>3. ASSUME NEW q \in Requests, AnchorRefuses(q) \/ InsertFails(q) \/ InsertRefused(q)
        PROVE  opening'[p] = NoOpening
    <3>1. q # p /\ AttemptFails(q)
      BY <1>1, <2>3 DEF AnchorRefuses, InsertFails, InsertRefused, Asking, Inserting, NoOpening
    <3> QED
      BY <1>1, <3>1 DEF AttemptFails
  <2>4. ASSUME NEW q \in Requests, InsertRecord(q) \/ JobDies(q)
        PROVE  opening'[p] = NoOpening
    BY <1>1, <2>4 DEF InsertRecord, JobDies
  <2>5. CASE UNCHANGED openingVars
    BY <1>1, <2>5 DEF openingVars
  <2> QED
    BY <2>1, <2>2, <2>3, <2>4, <2>5, OpeningSteps DEF openingVars
<1>3. ASSUME job[p].pc = "processing"
      PROVE  req'[p] = req[p] \/ (Step(p) /\ req'[p] # Idle)
  <2>1. ASSUME NEW q \in Requests, ServiceStep(q) \/ HandlerDies(q), q # p
        PROVE  req'[p] = req[p]
    BY <2>1, OneHandlerSteps DEF ServiceStep, HandlerDies
  <2>2. CASE ServiceStep(p)
    <3>1. req'[p] # Idle
      BY <1>3, <2>2 DEF ServiceStep, Goes, Stops, NoJob, TransfersTypeOK, Jobs
    <3> QED
      BY <2>2, <3>1 DEF ServiceStep
  <2>3. CASE HandlerDies(p)
    BY <2>3, JobStops DEF HandlerDies
  <2>4. ASSUME NEW q \in Requests, OnAnchorTransferStarted(q) \/ Notify(q)
        PROVE  req'[p] = req[p]
    <3>1. q # p /\ Subject(q) \in Remittances
      BY <1>3, <2>4, SubjectExists DEF OnAnchorTransferStarted, Notify
    <3>2. UNCHANGED vars \/ Start(q, Subject(q))
      BY <2>4 DEF OnAnchorTransferStarted, Notify, Start
    <3> QED
      BY <3>1, <3>2, OneHandlerSteps DEF vars
  <2>5. ASSUME NEW q \in Requests, NEW r \in Remittances, ServiceStart(q, r)
        PROVE  req'[p] = req[p]
    <3>1. q # p /\ Start(q, r)
      BY <2>5 DEF ServiceStart, Start
    <3> QED
      BY <3>1, OneHandlerSteps
  <2>6. ASSUME NEW r \in Remittances, Environment(r)
        PROVE  UNCHANGED req
    BY <2>6 DEF Environment, PrepareFund, PrepareRefund, AppSubmits, PublicCall, Expire,
       SenderSplits, LedgerExpire
  <2>7. \/ UNCHANGED vars
        \/ \E q \in Requests : \/ ServiceStep(q) \/ HandlerDies(q)
                             \/ OnAnchorTransferStarted(q) \/ Notify(q)
                             \/ \E r \in Remittances : ServiceStart(q, r)
        \/ \E r \in Remittances : Environment(r)
    BY DEF TransfersNext, Run, StoreSession, QueryAnchor, RecordAnswer, JobDies, Poll,
           StartTransfer, OpenAtAnchor, AnchorRefuses, AnswerLost, InsertRecord, InsertFails, InsertRefused,
           Deliver, allVars
  <2> QED
    BY <2>1, <2>2, <2>3, <2>4, <2>5, <2>6, <2>7 DEF vars
<1> QED
  BY <1>2, <1>3

\* beginProcessing, step by step: it goes on towards PROCESSING, ends by writing
\* that, or throws because somebody has moved the escrow on.
LEMMA ProcessStep ==
  ASSUME DecisionsJustified, NEW q \in Requests, Step(q), InProcess(q),
         Subject(q) \in Remittances
  PROVE  \/ /\ req'[q].op = "process"
            /\ req'[q].rem = Subject(q)
            /\ req'[q].link = Subject(q)
            /\ req'[q].pc \in {"check", "write"}
            /\ req'[q].to = "PROCESSING"
         \/ /\ req'[q] = Idle
            /\ At(q, "write") \/ escrow[Subject(q)] \in Moved
<1> DEFINE c == req[q]
           r == Subject(q)
<1>1. /\ c.op = "process" /\ c.rem = r /\ c.link = r /\ c.pc \in {"call", "check", "write"}
      /\ c.pc \in {"check", "write"} => c.to = "PROCESSING"
      /\ escrow[r] \in WasFunded
  BY DEF InProcess
<1>2. c # Idle
  BY <1>1 DEF Idle
<1>3. /\ req \in [Requests -> RequestRecords] /\ c \in RequestRecords
      /\ escrow[r] \in EscrowStates /\ Sound(c)
  BY <1>1, <1>2, Suspended
<1>4. \/ c.pc = "call" /\ (ContractCall(q) \/ CallRejected(q))
      \/ c.pc = "check" /\ SetStateCheck(q)
      \/ c.pc = "write" /\ StatusWrite(q)
  BY <1>1 DEF Step, ContractCall, CallRejected, SetStateCheck, StatusWrite, PhaseWrite,
     RecordContractId, AuthorizeAndRelease, ReentryQuery, RelaySubmit, RelayReload,
     WaitForTransaction, VerifyRelay, ReconcileCreate, At
<1>5. CASE ContractCall(q)
  BY <1>1, <1>3, <1>5 DEF ContractCall, AfterCall, Target, RequestRecords
<1>6. CASE CallRejected(q)
  <2>1. req'[q] = Idle
    BY <1>3, <1>6 DEF CallRejected, Finish
  <2>2. escrow[r] # "Funded"
    BY <1>1, <1>6 DEF CallRejected, CallAllowed, BeginAllowed, SignerNotFound
  <2> QED
    BY <1>1, <2>1, <2>2 DEF WasFunded, Moved, EscrowStates
<1>7. CASE SetStateCheck(q) /\ c.pc = "check"
  <2>1. escrow[r] \in Moved
    BY <1>1, <1>2, <1>3, <1>7 DEF Sound, ReachedBy, Moved
  <2> QED
    BY <1>1, <1>3, <1>7, <2>1 DEF SetStateCheck, Continue, Finish, RequestRecords
<1>8. CASE StatusWrite(q) /\ c.pc = "write"
  BY <1>1, <1>3, <1>8 DEF StatusWrite, AfterWrite, At
<1> QED
  BY <1>4, <1>5, <1>6, <1>7, <1>8

\* A route that runs keeps what is known of it.
LEMMA RouteStays ==
  ASSUME DecisionsJustified, TransfersTypeOK, BooksAgree, [TransfersNext]_allVars,
         [Next]_vars, NEW p \in Requests, AtWork(p), job'[p] = job[p]
  PROVE  AtWork(p)'
<1>1. CASE job[p] = NoJob
  BY <1>1 DEF AtWork, NoJob
<1>2. CASE job[p] # NoJob
  <2>1. /\ job[p].tx \in Transfers
        /\ transfer[job[p].tx] # NoRecord
        /\ transfer[job[p].tx].rem \in Remittances
    BY <1>2, JobHasRecord
  <2>2. /\ transfer'[job[p].tx].rem = transfer[job[p].tx].rem
        /\ transfer[job[p].tx].session => transfer'[job[p].tx].session
    BY <2>1, RecordsKeep
  <2>3. Subject(p)' = Subject(p) /\ Subject(p) \in Remittances
    BY <2>1, <2>2 DEF Subject
  <2>4. escrow[Subject(p)] \in WasFunded => escrow'[Subject(p)] \in WasFunded
    BY <2>3, EscrowsStayMoved
  <2>5. ASSUME job[p].pc = "processing"
        PROVE  InProcess(p)'
    <3>1. InProcess(p)
      BY <2>5 DEF AtWork
    <3>2. CASE req'[p] = req[p]
      BY <2>3, <2>4, <3>1, <3>2 DEF InProcess
    <3>3. CASE Step(p) /\ req'[p] # Idle
      BY <2>3, <2>4, <3>1, <3>3, ProcessStep DEF InProcess
    <3> QED
      BY <1>2, <2>5, <3>2, <3>3, SlotRests
  <2> QED
    BY <1>2, <2>2, <2>5, SlotRests DEF AtWork
<1> QED
  BY <1>1, <1>2

\* A route whose remittance is FUNDED has the service process it.
LEMMA RouteProcesses ==
  ASSUME ConfirmIsSafe, DecisionsJustified, FundersLinked, TransfersTypeOK,
         NEW q \in Requests, OnAnchorTransferStarted(q), job'[q].pc = "processing"
  PROVE  InProcess(q)'
<1> DEFINE r == Subject(q)
<1>1. /\ job[q] # NoJob /\ job[q].tx \in Transfers /\ r \in Remittances
      /\ job[q].pc = "started"
  BY SubjectExists, JobHasRecord DEF OnAnchorTransferStarted, NoJob
<1>2. BeginProcessing(q, r) /\ Goes(q, "processing")
  BY <1>1 DEF OnAnchorTransferStarted, Goes, TransfersTypeOK, Jobs
<1>3. job'[q].tx = job[q].tx
  BY <1>1, <1>2, JobGoesOn
<1>4. Subject(q)' = r
  BY <1>3 DEF Subject, OnAnchorTransferStarted
<1>5. escrow[r] \in WasFunded /\ row[r].link = r
  BY <1>1, <1>2 DEF BeginProcessing, DecisionsJustified, StatusBackedByEscrow, ReachedBy,
     FundersLinked, FundsAreLinked
<1>6. req'[q] = Started("process", r, "call", "NONE") /\ UNCHANGED escrow
  BY <1>2 DEF BeginProcessing, Begin, ledgerVars, DecisionsJustified, TypeOK
<1> QED
  BY <1>4, <1>5, <1>6 DEF InProcess, Started

\* Every step keeps it.
LEMMA RoutesStep ==
  /\ ConfirmIsSafe
  /\ DecisionsJustified
  /\ FundersLinked
  /\ TransfersTypeOK
  /\ BooksAgree
  /\ RoutesAtWork
  /\ [TransfersNext]_allVars
  => RoutesAtWork'
<1> SUFFICES ASSUME ConfirmIsSafe, DecisionsJustified, FundersLinked, TransfersTypeOK,
                    BooksAgree, RoutesAtWork, [TransfersNext]_allVars, NEW p \in Requests
             PROVE  AtWork(p)'
  BY DEF RoutesAtWork
<1>1. [Next]_vars /\ AtWork(p) /\ TransfersTypeOK'
  BY TransfersStepImplements, TransfersTypeStep DEF RoutesAtWork
<1>2. CASE job'[p] = job[p]
  BY <1>1, <1>2, RouteStays
<1>3. CASE job'[p] = NoJob
  BY <1>3 DEF AtWork, NoJob
<1>4. ASSUME NEW pc \in {"started", "processing", "session",
                         "query", "completed", "unfinished", "notify"},
             job[p] # NoJob, Goes(p, pc), UNCHANGED openingVars,
             pc = "processing" => InProcess(p)',
             pc \in {"completed", "unfinished", "notify", "query"} =>
               transfer[job[p].tx].session
      PROVE  AtWork(p)'
  <2>1. /\ job'[p].pc = pc /\ job'[p].tx = job[p].tx
        /\ job[p].tx \in Transfers /\ transfer[job[p].tx] # NoRecord
    BY <1>4, JobGoesOn, JobHasRecord DEF Goes, TransfersTypeOK, Jobs
  <2>2. opening'[p] = NoOpening
    BY <1>1, <1>4 DEF AtWork, openingVars
  <2>3. transfer[job[p].tx].session => transfer'[job[p].tx].session
    BY <2>1, RecordsKeep
  <2> QED
    BY <1>4, <2>1, <2>2, <2>3 DEF AtWork
<1>5. CASE ServiceStep(p) /\ job[p].pc = "processing" /\ req'[p] = Idle
  <2>1. job[p] # NoJob
    BY <1>5 DEF NoJob
  <2>2. CASE Stops(p)
    BY <1>3, <2>2, JobStops
  <2> QED
    BY <1>4, <1>5, <2>1, <2>2 DEF ServiceStep
<1>6. CASE OnAnchorTransferStarted(p)
  <2>1. job[p] # NoJob
    BY <1>6 DEF OnAnchorTransferStarted, NoJob
  <2>2. CASE Goes(p, "processing")
    <3>1. job'[p].pc = "processing"
      BY <2>1, <2>2 DEF Goes, TransfersTypeOK, Jobs
    <3>2. InProcess(p)'
      BY <1>6, <3>1, RouteProcesses
    <3> QED
      BY <1>4, <1>6, <2>1, <2>2, <3>2 DEF OnAnchorTransferStarted
  <2>3. CASE Goes(p, "session")
    BY <1>4, <1>6, <2>1, <2>3 DEF OnAnchorTransferStarted
  <2> QED
    BY <1>6, <2>2, <2>3 DEF OnAnchorTransferStarted
<1>7. CASE StoreSession(p) \/ Notify(p) \/ HandlerDies(p) \/ JobDies(p)
  BY <1>3, <1>7, JobStops DEF StoreSession, Notify, HandlerDies, JobDies
<1>8. CASE QueryAnchor(p)
  <2>1. job[p] # NoJob /\ transfer[job[p].tx].session
    BY <1>1, <1>8 DEF QueryAnchor, NoJob, AtWork
  <2>2. Goes(p, "completed") \/ Goes(p, "unfinished")
    BY <1>8 DEF QueryAnchor
  <2> QED
    BY <1>4, <1>8, <2>1, <2>2 DEF QueryAnchor
<1>9. CASE RecordAnswer(p)
  <2>1. job[p] # NoJob /\ transfer[job[p].tx].session
    BY <1>1, <1>9 DEF RecordAnswer, NoJob, AtWork
  <2>2. CASE Stops(p)
    BY <1>3, <2>2, JobStops
  <2>3. CASE Goes(p, "notify")
    BY <1>4, <1>9, <2>1, <2>3 DEF RecordAnswer
  <2> QED
    BY <1>9, <2>2, <2>3 DEF RecordAnswer
<1>10. CASE InsertRecord(p)
  BY <1>10 DEF InsertRecord, AtWork, TransfersTypeOK, OpeningTypeOK
<1>11. ASSUME NEW t \in Transfers, Poll(p, t)
       PROVE  AtWork(p)'
  BY <1>11 DEF Poll, Free, AtWork, TransfersTypeOK, openingVars
<1> QED
  BY <1>2, <1>5, <1>6, <1>7, <1>8, <1>9, <1>10, <1>11, JobMoves

\* A route gives its transfer up with the session stored, with the escrow moved
\* on by somebody, or by dying.
LEMMA RouteLeaves ==
  ASSUME DecisionsJustified, TransfersTypeOK, BooksAgree, [TransfersNext]_allVars,
         NEW p \in Requests, AtWork(p), job[p] # NoJob, job'[p].tx # job[p].tx,
         ~HandlerDies(p), ~JobDies(p)
  PROVE  \/ transfer'[job[p].tx].session
         \/ escrow'[Subject(p)] \in Moved
<1>1. /\ job[p].tx \in Transfers /\ transfer[job[p].tx] # NoRecord
      /\ Subject(p) \in Remittances /\ [Next]_vars
      /\ transfer[job[p].tx] \in [rem : Remittances, status : {"pending", "completed"},
                                  session : BOOLEAN]
  BY JobHasRecord, TransfersStepImplements DEF Subject
<1>2. \A pc \in {"started", "processing", "session",
                 "query", "completed", "unfinished", "notify"} : ~Goes(p, pc)
  BY JobGoesOn
<1>3. CASE ServiceStep(p) /\ job[p].pc = "processing" /\ req'[p] = Idle
  <2>1. Step(p) /\ InProcess(p) /\ ~At(p, "write")
    BY <1>2, <1>3 DEF ServiceStep, AtWork
  <2>2. escrow[Subject(p)] \in Moved
    BY <1>1, <1>3, <2>1, ProcessStep DEF Idle
  <2> QED
    BY <1>1, <2>2, EscrowsStayMoved
<1>4. CASE StoreSession(p)
  BY <1>1, <1>4 DEF StoreSession, TransfersTypeOK
<1>5. CASE RecordAnswer(p) \/ Notify(p)
  <2>1. transfer[job[p].tx].session
    BY <1>5 DEF RecordAnswer, Notify, AtWork
  <2> QED
    BY <1>1, <2>1, RecordsKeep
<1>6. ~OnAnchorTransferStarted(p) /\ ~QueryAnchor(p)
  BY <1>2 DEF OnAnchorTransferStarted, QueryAnchor
<1>7. ~InsertRecord(p)
  BY DEF InsertRecord, Inserting, NoOpening, AtWork
<1>8. \A t \in Transfers : ~Poll(p, t)
  BY DEF Poll, Free
<1> QED
  BY <1>3, <1>4, <1>5, <1>6, <1>7, <1>8, JobMoves

\* Only an INSERT makes a record, and its route works on it.
LEMMA NewRecordIsWorkedOn ==
  ASSUME TransfersTypeOK, [TransfersNext]_allVars, NEW t \in Transfers,
         transfer[t] = NoRecord, transfer'[t] # NoRecord
  PROVE  \E q \in Requests : job'[q].tx = t
<1>1. ASSUME NEW q \in Requests, InsertRecord(q)
      PROVE  \E p \in Requests : job'[p].tx = t
  BY <1>1 DEF InsertRecord, TransfersTypeOK
<1>2. ASSUME NEW q \in Requests
      PROVE  ~StoreSession(q) /\ ~RecordAnswer(q)
  BY <1>2, RecordUpdates
<1>3. ~UNCHANGED transfer
  OBVIOUS
<1>4. ASSUME NEW q \in Requests,
             \/ \E u \in Transfers : OpenAtAnchor(q, u) \/ AnswerLost(q, u)
             \/ \E r \in Remittances : StartTransfer(q, r)
             \/ AnchorRefuses(q) \/ InsertFails(q) \/ InsertRefused(q) \/ JobDies(q)
      PROVE  UNCHANGED transfer
  BY <1>4 DEF OpenAtAnchor, AnswerLost, StartTransfer, AnchorRefuses, InsertFails, InsertRefused, JobDies,
     transferVars
<1> QED
  BY <1>1, <1>2, <1>3, <1>4, OpeningSteps

\* A transfer is stranded by a death only, and then one at a time.
LEMMA StrandedStep ==
  ASSUME DecisionsJustified, TransfersTypeOK, BooksAgree, RoutesAtWork, [TransfersNext]_allVars
  PROVE  LET n == aborts + jobAborts IN
         \/ Stranded' \subseteq Stranded /\ n' >= n
         \/ n' = n + 1 /\ \E s : Stranded' \subseteq Stranded \union {s}
<1>1. [Next]_vars
  BY TransfersStepImplements
<1>2. ASSUME NEW t \in Transfers, t \in Stranded', t \notin Stranded
      PROVE  \E p \in Requests : job[p].tx = t /\ (HandlerDies(p) \/ JobDies(p))
  <2>1. /\ transfer'[t] # NoRecord /\ ~transfer'[t].session
        /\ \A q \in Requests : job'[q].tx # t
        /\ escrow'[transfer'[t].rem] \notin Moved
    BY <1>2 DEF Stranded, Moved
  <2>2. transfer[t] # NoRecord
    BY <2>1, NewRecordIsWorkedOn
  <2>3. transfer[t].rem \in Remittances
    BY <2>2 DEF TransfersTypeOK, Records
  <2>4. ~transfer[t].session /\ transfer'[t].rem = transfer[t].rem
    BY <2>1, <2>2, RecordsKeep
  <2>5. escrow[transfer[t].rem] \notin Moved
    BY <1>1, <2>1, <2>3, <2>4, EscrowsStayMoved
  <2>6. PICK p \in Requests : job[p].tx = t
    BY <1>2, <2>2, <2>4, <2>5 DEF Stranded, Moved
  <2>7. job[p] # NoJob /\ job'[p].tx # job[p].tx
    BY <2>1, <2>6, TransfersAssumption DEF NoJob
  <2>8. HandlerDies(p) \/ JobDies(p)
    BY <2>1, <2>4, <2>6, <2>7, RouteLeaves DEF RoutesAtWork, Subject
  <2> QED
    BY <2>6, <2>8
<1>3. Stranded \subseteq Transfers /\ Stranded' \subseteq Transfers
  BY DEF Stranded
<1>4. aborts \in Nat /\ jobAborts \in Nat
  BY ConstantsAssumption, TransfersAssumption DEF DecisionsJustified, TypeOK, TransfersTypeOK
<1>5. ASSUME NEW q \in Requests, HandlerDies(q) \/ JobDies(q)
      PROVE  /\ aborts' + jobAborts' = aborts + jobAborts + 1
             /\ Stranded' \subseteq Stranded \union {job[q].tx}
  <2>1. aborts' + jobAborts' = aborts + jobAborts + 1
    BY <1>4, <1>5 DEF HandlerDies, JobDies, Abort, Fault, vars
  <2>2. ASSUME NEW p \in Requests, HandlerDies(p) \/ JobDies(p), job[p] # NoJob
        PROVE  p = q
    <3>1. job'[p] = NoJob
      BY <2>2, JobStops DEF HandlerDies, JobDies
    <3> QED
      BY <1>5, <2>2, <3>1, JobStops DEF HandlerDies, JobDies
  <2> QED
    BY <1>2, <1>3, <2>1, <2>2, TransfersAssumption DEF NoJob
<1>6. aborts' + jobAborts' >= aborts + jobAborts
  <2>1. aborts' = aborts \/ aborts' = aborts + 1
    BY <1>1 DEF Next, Step, Start, Environment, ContractCall, CallRejected, SetStateCheck,
       StatusWrite, PhaseWrite, RecordContractId, AuthorizeAndRelease, ReentryQuery,
       RelaySubmit, RelayReload, WaitForTransaction, VerifyRelay, ReconcileCreate,
       Create, Fund, BeginProcessing, OnAnchorStatus, Release, Refund, ExpirySweep,
       Confirm, Relay, ApplyPaymentEvent, PrepareFund, PrepareRefund, AppSubmits,
       PublicCall, Expire, SenderSplits, LedgerExpire, Abort, otherVars, vars
  <2>2. jobAborts' = jobAborts \/ jobAborts' = jobAborts + 1
    BY DEF TransfersNext, Run, ServiceStep, OnAnchorTransferStarted, StoreSession, QueryAnchor,
           RecordAnswer, Notify, HandlerDies, JobDies, Poll, ServiceStart, StartTransfer,
           OpenAtAnchor, AnchorRefuses, AnswerLost, InsertRecord, InsertFails, InsertRefused, Fault,
           Deliver, allVars, transferVars
  <2> QED
    BY <1>4, <2>1, <2>2
<1>7. CASE ~\E q \in Requests : HandlerDies(q) \/ JobDies(q)
  BY <1>2, <1>3, <1>6, <1>7
<1> QED
  BY <1>5, <1>7

\* A route loses the session of a transfer whose remittance is still to be
\* processed only by dying, one transfer a death: whenever the service refuses to
\* process it, somebody else has moved the escrow on (onAnchorTransferStarted,
\* interactive, programmatic; a FUNDED row has to be one that can be trusted).
THEOREM SessionsAreLostToOthers ==
  ASSUME ConfirmIsSafe
  PROVE  TransfersSpec => []SessionsLostToOthers
<1> DEFINE Counted == IsFiniteSet(Stranded) /\ SessionsLostToOthers
<1>1. TransfersInit => RoutesAtWork /\ Counted
  <2> SUFFICES ASSUME TransfersInit PROVE RoutesAtWork /\ Counted
    OBVIOUS
  <2>1. RoutesAtWork
    BY DEF TransfersInit, RoutesAtWork, AtWork, NoJob
  <2>2. Stranded = {}
    BY DEF TransfersInit, Stranded
  <2> QED
    BY <2>1, <2>2, FS_EmptySet DEF TransfersInit, Init, SessionsLostToOthers
<1>2. /\ DecisionsJustified /\ FundersLinked /\ TransfersTypeOK /\ BooksAgree
      /\ RoutesAtWork /\ [TransfersNext]_allVars
      => RoutesAtWork'
  BY RoutesStep
<1>3. /\ DecisionsJustified /\ DecisionsJustified' /\ TransfersTypeOK /\ BooksAgree
      /\ RoutesAtWork /\ Counted /\ [TransfersNext]_allVars
      => Counted'
  <2> SUFFICES ASSUME DecisionsJustified, DecisionsJustified', TransfersTypeOK, BooksAgree,
                      RoutesAtWork, Counted, [TransfersNext]_allVars
               PROVE  Counted'
    OBVIOUS
  <2>1. TransfersTypeOK'
    BY TransfersTypeStep
  <2>2. aborts + jobAborts \in Nat /\ aborts' + jobAborts' \in Nat
    <3>1. aborts \in Nat /\ aborts' \in Nat
      BY ConstantsAssumption DEF DecisionsJustified, TypeOK
    <3>2. jobAborts \in Nat /\ jobAborts' \in Nat
      BY <2>1, TransfersAssumption DEF TransfersTypeOK
    <3>3. \A m, n \in Nat : m + n \in Nat
      OBVIOUS
    <3> QED
      BY <3>1, <3>2, <3>3, Zenon
  <2>3. \/ /\ Stranded' \subseteq Stranded
           /\ aborts' + jobAborts' >= aborts + jobAborts
        \/ /\ aborts' + jobAborts' = aborts + jobAborts + 1
           /\ \E s : Stranded' \subseteq Stranded \union {s}
    BY StrandedStep
  <2>4. /\ IsFiniteSet(Stranded')
        /\ Cardinality(Stranded') <= aborts' + jobAborts'
    BY <2>2, <2>3, CountKeepsUp DEF SessionsLostToOthers
  <2> QED
    BY <2>4 DEF SessionsLostToOthers
<1> QED
  BY <1>1, <1>2, <1>3, TransfersTypeCorrect, BooksAlwaysAgree, TransfersDecisionsJustified,
     TransfersFundersLinked, PTL
     DEF TransfersSpec

-----------------------------------------------------------------------------
\* A transfer that is out of the poll's sight

\* No transfer of r is one that the poll selects or that somebody works on, none
\* is being opened, and no settlement of r is at work.
Unwatched(r) ==
  /\ \A t \in Transfers :
       transfer[t].rem = r =>
         /\ ~(transfer[t].status = "pending" /\ transfer[t].session)
         /\ \A q \in Requests : job[q].tx # t
  /\ \A q \in Requests : opening[q].rem # r /\ ~(req[q].op = "settle" /\ req[q].rem = r)

\* The records of an unwatched remittance stay as they are, and none is added.
LEMMA UnwatchedRecords ==
  ASSUME TransfersTypeOK, [TransfersNext]_allVars, NEW r \in Remittances, Unwatched(r),
         NEW t \in Transfers, transfer'[t].rem = r
  PROVE  transfer'[t] = transfer[t]
<1>1. ASSUME NEW q \in Requests, InsertRecord(q)
      PROVE  transfer'[t] = transfer[t]
  BY <1>1 DEF InsertRecord, TransfersTypeOK, Unwatched
<1>2. ASSUME NEW q \in Requests, StoreSession(q) \/ RecordAnswer(q)
      PROVE  transfer'[t] = transfer[t]
  <2>1. transfer[t].rem = r
    BY <1>2, RecordUpdates
  <2>2. job[q].tx # t
    BY <2>1 DEF Unwatched
  <2> QED
    BY <1>2, <2>2 DEF StoreSession, RecordAnswer, TransfersTypeOK
<1>3. \/ \E q \in Requests : InsertRecord(q) \/ StoreSession(q) \/ RecordAnswer(q)
      \/ UNCHANGED transfer
  BY OpeningSteps DEF OpenAtAnchor, AnswerLost, StartTransfer, AnchorRefuses, InsertFails, InsertRefused,
     JobDies, transferVars
<1> QED
  BY <1>1, <1>2, <1>3

\* Nobody takes up work on them.
LEMMA UnwatchedJobs ==
  ASSUME TransfersTypeOK, [TransfersNext]_allVars, NEW r \in Remittances, Unwatched(r),
         NEW t \in Transfers, transfer'[t].rem = r, NEW p \in Requests
  PROVE  job'[p].tx # t
<1>1. transfer'[t] = transfer[t]
  BY UnwatchedRecords
<1>2. /\ job[p].tx # t /\ t # NoTransfer
      /\ ~(transfer[t].status = "pending" /\ transfer[t].session)
  BY <1>1, TransfersAssumption DEF Unwatched
<1>3. job \in [Requests -> Jobs]
  BY DEF TransfersTypeOK
<1>4. CASE job'[p] = job[p]
  BY <1>2, <1>4
<1>5. CASE InsertRecord(p)
  <2>1. opening[p].tx \in Transfers
    BY <1>5 DEF InsertRecord, Inserting, NoOpening, TransfersTypeOK, OpeningTypeOK, Openings
  <2>2. transfer'[opening[p].tx].rem = opening[p].rem
    BY <1>5, <2>1 DEF InsertRecord, TransfersTypeOK
  <2>3. opening[p].tx # t
    BY <2>2 DEF Unwatched
  <2>4. job'[p].tx = opening[p].tx
    BY <1>3, <1>5 DEF InsertRecord
  <2> QED
    BY <2>3, <2>4
<1>6. ASSUME NEW u \in Transfers, Poll(p, u)
      PROVE  job'[p].tx # t
  <2>1. u # t
    BY <1>2, <1>6 DEF Poll
  <2> QED
    BY <1>3, <1>6, <2>1 DEF Poll
<1>7. ASSUME NEW pc, Goes(p, pc)
      PROVE  job'[p].tx # t
  BY <1>2, <1>3, <1>7 DEF Goes, Jobs, NoJob
<1>8. CASE Stops(p)
  BY <1>2, <1>3, <1>8 DEF Stops, NoJob
<1>9. \/ job'[p] = job[p] \/ InsertRecord(p) \/ Stops(p)
      \/ (\E u \in Transfers : Poll(p, u)) \/ \E pc : Goes(p, pc)
  BY JobMoves DEF ServiceStep, OnAnchorTransferStarted, StoreSession, QueryAnchor,
     RecordAnswer, Notify, HandlerDies, JobDies
<1> QED
  BY <1>4, <1>5, <1>6, <1>7, <1>8, <1>9

\* No transfer is being opened unless a route has just been asked to.
LEMMA UnwatchedOpenings ==
  ASSUME TransfersTypeOK, [TransfersNext]_allVars, NEW r \in Remittances, Unwatched(r),
         NEW p \in Requests, opening'[p].rem = r
  PROVE  \E q \in Requests : StartTransfer(q, r)
<1>1. opening \in [Requests -> Openings] /\ opening[p].rem # r /\ r # NoRemittance
  BY ConstantsAssumption DEF TransfersTypeOK, OpeningTypeOK, Unwatched
<1>2. ASSUME NEW q \in Requests, AttemptFails(q) PROVE FALSE
  BY <1>1, <1>2 DEF AttemptFails, Openings, NoOpening
<1>3. ASSUME NEW q \in Requests, NEW t \in Transfers, OpenAtAnchor(q, t) PROVE FALSE
  BY <1>1, <1>3 DEF OpenAtAnchor, Openings, NoOpening
<1>4. ASSUME NEW q \in Requests, InsertRecord(q) \/ JobDies(q) PROVE FALSE
  BY <1>1, <1>4 DEF InsertRecord, JobDies, NoOpening
<1>5. ASSUME NEW q \in Requests, NEW s \in Remittances, StartTransfer(q, s)
      PROVE  s = r
  BY <1>1, <1>5 DEF StartTransfer
<1> QED
  BY <1>1, <1>2, <1>3, <1>4, <1>5, OpeningSteps
     DEF AnswerLost, AnchorRefuses, InsertFails, InsertRefused, openingVars

\* Once the transfers of a remittance are marked completed, or lost their session,
\* with no settlement at work, the backend never settles it, although the anchor
\* has delivered and the funds are in escrow: only the route asked for one more
\* transfer can change that (the SELECT of anchorPoll, which takes pending
\* transfers with a session, and the UPDATE that comes before onAnchorStatus).
THEOREM OnlyNewTransfersSettle ==
  ASSUME NEW r \in Remittances
  PROVE  TransfersSpec =>
           [][Unwatched(r) =>
                \/ \E q \in Requests : StartTransfer(q, r)
                \/ /\ Unwatched(r)'
                   /\ escrow'[r] \in Settled => escrow[r] \in Settled]_allVars
<1>1. ASSUME DecisionsJustified, TransfersTypeOK, [TransfersNext]_allVars, Unwatched(r),
             \A q \in Requests : ~StartTransfer(q, r)
      PROVE  Unwatched(r)' /\ (escrow'[r] \in Settled => escrow[r] \in Settled)
  <2>1. ASSUME NEW t \in Transfers, transfer'[t].rem = r
        PROVE  /\ ~(transfer'[t].status = "pending" /\ transfer'[t].session)
               /\ \A q \in Requests : job'[q].tx # t
    <3>1. transfer'[t] = transfer[t]
      BY <1>1, <2>1, UnwatchedRecords
    <3>2. \A q \in Requests : job'[q].tx # t
      BY <1>1, <2>1, UnwatchedJobs
    <3> QED
      BY <1>1, <2>1, <3>1, <3>2 DEF Unwatched
  <2>2. \A q \in Requests : opening'[q].rem # r
    BY <1>1, UnwatchedOpenings
  <2>3. /\ \A q \in Requests : ~(req'[q].op = "settle" /\ req'[q].rem = r)
        /\ escrow'[r] \in Settled => escrow[r] \in Settled
    <3>1. CASE NoNewSettlement
      BY <1>1, <3>1 DEF NoNewSettlement, NoneTakesUpSettle, Unwatched
    <3>2. ASSUME NEW q \in Requests, job[q].pc = "notify", UNCHANGED transfer,
                 OnAnchorStatus(q, Subject(q))
          PROVE  /\ \A p \in Requests : ~(req'[p].op = "settle" /\ req'[p].rem = r)
                 /\ escrow'[r] \in Settled => escrow[r] \in Settled
      <4>1. job[q].tx \in Transfers /\ Subject(q) # r
        BY <1>1, <3>2 DEF TransfersTypeOK, Jobs, NoJob, Unwatched, Subject
      <4>2. \A p \in Requests :
              req'[p] = IF p = q THEN Started("settle", Subject(q), "read", "NONE") ELSE req[p]
        BY <1>1, <3>2 DEF OnAnchorStatus, Begin, DecisionsJustified, TypeOK
      <4>3. Started("settle", Subject(q), "read", "NONE").rem = Subject(q)
        BY DEF Started
      <4> QED
        BY <1>1, <3>2, <4>1, <4>2, <4>3 DEF Unwatched, OnAnchorStatus, ledgerVars
    <3> QED
      BY <1>1, <3>1, <3>2, SettlementsComeFrom
  <2> QED
    BY <2>1, <2>2, <2>3 DEF Unwatched
<1>2. DecisionsJustified /\ TransfersTypeOK /\ [TransfersNext]_allVars =>
        [Unwatched(r) =>
           \/ \E q \in Requests : StartTransfer(q, r)
           \/ /\ Unwatched(r)'
              /\ escrow'[r] \in Settled => escrow[r] \in Settled]_allVars
  BY <1>1
<1> QED
  BY <1>2, TransfersDecisionsJustified, TransfersTypeCorrect, PTL DEF TransfersSpec
=============================================================================
