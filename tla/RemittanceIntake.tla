-------------------------- MODULE RemittanceIntake --------------------------
(***************************************************************************)
(* From a quote to an escrow: create and the create side of confirm        *)
(* (src/modules/remittance/RemittanceService.ts) over the accounts, the    *)
(* anchor directory and the quotes they read while others change them.     *)
(* What happens to an escrow afterwards is RemittanceService.              *)
(*                                                                         *)
(* The recipient and the corridor of a request are left out: no step       *)
(* depends on them.                                                        *)
(***************************************************************************)
EXTENDS AccountRegistry, QuoteService, Sequences

CONSTANTS
  RemIds,        \* bound: the remittances that may be inserted
  ContractTtl,   \* MAX_CONTRACT_TTL_SECONDS
  TrustedHashes, \* an app only confirms with the hash of the create it submitted
  NoRem          \* "no remittance"

ASSUME IntakeAssumption ==
  /\ Owners = Sessions
  /\ NoRem \notin RemIds
  /\ ContractTtl \in Nat \ {0}
  /\ TrustedHashes \in BOOLEAN

VARIABLES
  rems,       \* the remittances table; link is the contract id plus one, or 0
  ledger,     \* the escrows on-chain in the order of their ids
  calls,      \* the soroban_transactions row of each remittance's create call
  prepared,   \* the create transaction prepared for each remittance's wallet
  burnt       \* ghost: the quotes of the creates whose INSERT was refused

intakeVars == <<rems, ledger, calls, prepared, burnt>>
vars == <<deskVars, registryVars, directoryVars, quoteVars, intakeVars>>

NoRemRow == [quote |-> NoQuote, user |-> NoRem, account |-> NoRem, expiry |-> 0, link |-> 0]

Inserted(r) == r \in RemIds /\ rems[r] # NoRemRow

IntakeInit ==
  /\ rems = [r \in RemIds |-> NoRemRow]
  /\ ledger = <<>>
  /\ calls = [r \in RemIds |-> "none"]
  /\ prepared = [r \in RemIds |-> "none"]
  /\ burnt = {}

Init == DeskInit /\ RegistryInit /\ DirectoryInit /\ QuotesInit /\ IntakeInit

\* loadSenderAccount: the account is still one of the session's user.
IsAccountOf(account, x) == account.user = ResolveUserId(x)

\* The row has a secret: it is one that the issuance has made.
IsCustodial(account) == account.user \in Customers

\* What create commits to on-chain, and settlement states again: commitmentFor
\* with the sender's key, for the row of r.  That it is r's is a ghost: the
\* contract is not told the remittance's id.
Commitment(r) ==
  [sender |-> rems[r].account.key, terms |-> quotes[rems[r].quote].terms,
   expiry |-> rems[r].expiry, row |-> r]

\* confirm recognises an escrow by its sender and its quote hash.
Matches(record, r) ==
  /\ record.sender = rems[r].account.key
  /\ record.terms = quotes[rems[r].quote].terms

Earlier(a, b) == IF a <= b THEN a ELSE b

-----------------------------------------------------------------------------
\* POST /v1/remittances: create

\* Faulty variant: the quote is claimed before anything else is looked up.
CreateClaimsFirst(q, s) ==
  /\ Authenticated(s)
  /\ \E i \in QuoteIds :
       /\ Usable(i)
       /\ MarkUsed(i)
       /\ Begin(q, [op |-> "create", pc |-> "account", session |-> s, quote |-> i])
  /\ UNCHANGED <<now, registryVars, directoryVars, intakeVars>>

\* assertUsable: whose quote it is is not asked.
Create(q, s) ==
  /\ Authenticated(s)
  /\ \E i \in QuoteIds :
       /\ Usable(i)
       /\ Begin(q, [op |-> "create", pc |-> "account", session |-> s, quote |-> i])
  /\ UNCHANGED <<registryVars, directoryVars, quoteVars, intakeVars>>

\* resolveSenderAccount: the account the client names, or the default, or the
\* newest; without any the handler throws.
ResolveSender(q) ==
  LET c == req[q]
      u == ResolveUserId(c.session)
  IN
  /\ At(q, "create", "account")
  /\ \/ \E k \in Keys :
          /\ HasAccount(u, k)
          /\ Becomes(q, [op |-> "create", pc |-> "owner", session |-> c.session,
                         quote |-> c.quote, account |-> [user |-> u, key |-> k]])
     \/ (\A k \in Keys : ~HasAccount(u, k)) /\ Ends(q)
  /\ UNCHANGED <<registryVars, directoryVars, quoteVars, intakeVars>>

\* The SELECT of the owner, and the expiry of the escrow.
ResolveOwner(q) ==
  LET c == req[q] IN
  /\ At(q, "create", "owner")
  /\ Becomes(q, [op |-> "create", pc |-> "claim", session |-> c.session,
                 quote |-> c.quote, account |-> c.account,
                 user |-> ResolveUserId(c.session),
                 expiry |-> Earlier(quotes[c.quote].expires, now + ContractTtl)])
  /\ UNCHANGED <<registryVars, directoryVars, quoteVars, intakeVars>>

\* Faulty variant: the UPDATE does not ask whether the quote is unused.
ClaimAnyway(q) ==
  /\ At(q, "create", "claim")
  /\ MarkUsed(req[q].quote)
  /\ Goes(q, "insert")
  /\ UNCHANGED <<now, registryVars, directoryVars, intakeVars>>

\* claim; the loser of two throws.
Claim(q) ==
  LET i == req[q].quote IN
  /\ At(q, "create", "claim")
  /\ IF Claimable(i) THEN MarkUsed(i) /\ Goes(q, "insert")
                     ELSE Ends(q) /\ UNCHANGED quotes
  /\ UNCHANGED <<now, registryVars, directoryVars, intakeVars>>

\* The row, and its audit event.  The INSERT is refused when the anchor_id that
\* the client has sent is no anchor's.
InsertRemittance(q) ==
  LET c == req[q] IN
  /\ At(q, "create", "insert")
  /\ \/ /\ \E r \in RemIds :
             /\ ~Inserted(r)
             /\ rems' = [rems EXCEPT ![r] = [quote |-> c.quote, user |-> c.user,
                                             account |-> c.account, expiry |-> c.expiry,
                                             link |-> 0]]
             /\ Becomes(q, [op |-> "create", pc |-> "signer", session |-> c.session,
                            rem |-> r])
        /\ UNCHANGED burnt
     \/ /\ Ends(q)
        /\ burnt' = burnt \union {c.quote}
        /\ UNCHANGED rems
  /\ UNCHANGED <<registryVars, directoryVars, quoteVars, ledger, calls, prepared>>

\* senderSigner, and for an account without a secret the transaction the wallet
\* is to sign; when preparing it fails the handler throws as well.
SenderSigner(q) ==
  LET c == req[q]
      account == rems[c.rem].account
  IN
  /\ At(q, "create", "signer")
  /\ \/ /\ IsAccountOf(account, c.session)
        /\ IsCustodial(account)
        /\ Goes(q, "record")
        /\ UNCHANGED prepared
     \/ /\ IsAccountOf(account, c.session)
        /\ ~IsCustodial(account)
        /\ Ends(q)
        /\ \/ prepared' = [prepared EXCEPT ![c.rem] = "ready"]
           \/ UNCHANGED prepared
     \/ /\ ~IsAccountOf(account, c.session)
        /\ Ends(q)
        /\ UNCHANGED prepared
  /\ UNCHANGED <<registryVars, directoryVars, quoteVars, rems, ledger, calls, burnt>>

-----------------------------------------------------------------------------
\* createRemittance and the record it is wrapped in.  Its row does not name the
\* remittance (remittanceId is undefined).

InsertCall(q) ==
  /\ At(q, "create", "record")
  /\ calls' = [calls EXCEPT ![req[q].rem] = "pending"]
  /\ Goes(q, "submit")
  /\ UNCHANGED <<registryVars, directoryVars, quoteVars, rems, ledger, prepared, burnt>>

\* The contract opens an escrow: the next id.
Open(r) == ledger' = Append(ledger, Commitment(r))

\* Faulty variant: the id is guessed from the count of escrows before the call.
SubmitGuessesId(q) ==
  LET r == req[q].rem IN
  /\ At(q, "create", "submit")
  /\ \/ /\ Open(r)
        /\ Becomes(q, [op |-> "create", pc |-> "confirmed", session |-> req[q].session,
                       rem |-> r, link |-> Len(ledger)])
     \/ Goes(q, "failed") /\ UNCHANGED ledger
  /\ UNCHANGED <<registryVars, directoryVars, quoteVars, rems, calls, prepared, burnt>>

\* The call is accepted, and answered with the id; or refused; or accepted and
\* its answer is lost.
Submit(q) ==
  LET r == req[q].rem IN
  /\ At(q, "create", "submit")
  /\ \/ /\ Open(r)
        /\ Becomes(q, [op |-> "create", pc |-> "confirmed", session |-> req[q].session,
                       rem |-> r, link |-> Len(ledger) + 1])
     \/ Goes(q, "failed") /\ UNCHANGED ledger
     \/ Open(r) /\ Faulty /\ req' = [req EXCEPT ![q].pc = "failed"]
  /\ UNCHANGED <<registryVars, directoryVars, quoteVars, rems, calls, prepared, burnt>>

\* Faulty variant: a refused call is written down as any other.
RecordFailureAsConfirmed(q) ==
  /\ At(q, "create", "failed")
  /\ calls' = [calls EXCEPT ![req[q].rem] = "confirmed"]
  /\ Ends(q)
  /\ UNCHANGED <<registryVars, directoryVars, quoteVars, rems, ledger, prepared, burnt>>

\* The catch of record: the row is failed, and the handler throws.
RecordFailure(q) ==
  /\ At(q, "create", "failed")
  /\ calls' = [calls EXCEPT ![req[q].rem] = "failed"]
  /\ Ends(q)
  /\ UNCHANGED <<registryVars, directoryVars, quoteVars, rems, ledger, prepared, burnt>>

\* The UPDATE to confirmed; it stands inside the try, so that when it fails the
\* catch calls the accepted call failed.
RecordSuccess(q) ==
  /\ At(q, "create", "confirmed")
  /\ \/ calls' = [calls EXCEPT ![req[q].rem] = "confirmed"] /\ Goes(q, "link")
     \/ Faulty /\ req' = [req EXCEPT ![q].pc = "failed"] /\ UNCHANGED calls
  /\ UNCHANGED <<registryVars, directoryVars, quoteVars, rems, ledger, prepared, burnt>>

\* The UPDATE of the contract id, of create and of confirm.
Link(q) ==
  LET c == req[q] IN
  /\ c.op \in {"create", "confirm"}
  /\ c.pc = "link"
  /\ rems' = [rems EXCEPT ![c.rem].link = c.link]
  /\ Ends(q)
  /\ UNCHANGED <<registryVars, directoryVars, quoteVars, ledger, calls, prepared, burnt>>

-----------------------------------------------------------------------------
\* The wallet, and confirm (or relay) of the create it has submitted

\* The wallet submits the transaction it has signed, which lands once.  One that
\* the contract refuses changes nothing; for a custodial key it cannot sign.
AppSubmits(r) ==
  /\ prepared[r] = "ready"
  /\ rems[r].account.key \notin Customers
  /\ prepared' = [prepared EXCEPT ![r] = "spent"]
  /\ Open(r)
  /\ UNCHANGED <<deskVars, registryVars, directoryVars, quoteVars, rems, calls, burnt>>

\* loadOwned, and waitForTransaction of some transaction that has succeeded; a
\* row that has its contract id is left as it is.
Confirm(q, s) ==
  /\ \E r \in RemIds :
       /\ Inserted(r)
       /\ rems[r].user = ResolveUserId(s)
       /\ rems[r].link = 0
       /\ TrustedHashes => prepared[r] = "spent"
       /\ Begin(q, [op |-> "confirm", pc |-> "newest", session |-> s, rem |-> r])
  /\ UNCHANGED <<registryVars, directoryVars, quoteVars, intakeVars>>

\* The newest escrow there is now.
ReadNewest(q) ==
  LET c == req[q] IN
  /\ At(q, "confirm", "newest")
  /\ IF ledger = <<>> THEN Ends(q)
     ELSE Becomes(q, [op |-> "confirm", pc |-> "match", session |-> c.session,
                      rem |-> c.rem, link |-> Len(ledger)])
  /\ UNCHANGED <<registryVars, directoryVars, quoteVars, intakeVars>>

\* Faulty variant: only the sender is compared.
MatchSenderOnly(q) ==
  LET c == req[q] IN
  /\ At(q, "confirm", "match")
  /\ IF /\ IsAccountOf(rems[c.rem].account, c.session)
        /\ ledger[c.link].sender = rems[c.rem].account.key
       THEN Goes(q, "link") ELSE Ends(q)
  /\ UNCHANGED <<registryVars, directoryVars, quoteVars, intakeVars>>

\* Sender and quote hash agree with the row, or the handler throws.
Match(q) ==
  LET c == req[q] IN
  /\ At(q, "confirm", "match")
  /\ IF IsAccountOf(rems[c.rem].account, c.session) /\ Matches(ledger[c.link], c.rem)
       THEN Goes(q, "link") ELSE Ends(q)
  /\ UNCHANGED <<registryVars, directoryVars, quoteVars, intakeVars>>

-----------------------------------------------------------------------------
IntakeStep(q) ==
  \/ ResolveSender(q) \/ ResolveOwner(q) \/ Claim(q) \/ InsertRemittance(q)
  \/ SenderSigner(q) \/ InsertCall(q) \/ Submit(q) \/ RecordFailure(q)
  \/ RecordSuccess(q) \/ Link(q) \/ ReadNewest(q) \/ Match(q)

Accounting == RegistryNext /\ UNCHANGED <<directoryVars, quoteVars, intakeVars>>

Discovery == DirectoryNext /\ UNCHANGED <<registryVars, quoteVars, intakeVars>>

Quoting ==
  /\ \/ \E q \in Requests :
          \/ QuoteStep(q)
          \/ \E s \in Sessions : Authenticated(s) /\ RequestQuote(q, s)
     \/ Tick
  /\ UNCHANGED <<registryVars, directoryVars, intakeVars>>

Intake ==
  \/ \E q \in Requests :
       IntakeStep(q) \/ \E s \in Sessions : Create(q, s) \/ Confirm(q, s)
  \/ \E r \in RemIds : AppSubmits(r)

Restart ==
  \E q \in Requests :
    Dies(q) /\ UNCHANGED <<registryVars, directoryVars, quoteVars, intakeVars>>

Next == Accounting \/ Discovery \/ Quoting \/ Intake \/ Restart

Spec == Init /\ [][Next]_vars

-----------------------------------------------------------------------------
\* Types

CreateHandlers ==
  [op : {"create"}, pc : {"account"}, session : Sessions, quote : QuoteIds]
  \union [op : {"create"}, pc : {"owner"}, session : Sessions, quote : QuoteIds,
          account : Accounts]
  \union [op : {"create"}, pc : {"claim", "insert"}, session : Sessions, quote : QuoteIds,
          account : Accounts, user : UserIds, expiry : Nat]
  \union [op : {"create"}, pc : {"signer", "record", "submit", "failed"},
          session : Sessions, rem : RemIds]
  \union [op : {"create"}, pc : {"confirmed", "failed", "link"}, session : Sessions,
          rem : RemIds, link : Nat]

ConfirmHandlers ==
  [op : {"confirm"}, pc : {"newest"}, session : Sessions, rem : RemIds]
  \union [op : {"confirm"}, pc : {"match", "link"}, session : Sessions, rem : RemIds,
          link : Nat]

RemRows == [quote : QuoteIds, user : UserIds, account : Accounts, expiry : Nat, link : Nat]

Commitments == [sender : Keys, terms : AllTerms, expiry : Nat, row : RemIds]

\* Every variable, and every handler at each of its awaits, has its type.
IntakeTypeOK ==
  /\ faults \in 0..MaxFaults
  /\ req \in [Requests -> {Idle} \union RegisterHandlers \union IssueHandlers
                        \union DiscoverHandlers \union QuoteHandlers
                        \union CreateHandlers \union ConfirmHandlers]
  /\ users \subseteq UserIds
  /\ accounts \subseteq Accounts
  /\ anchor \in VersionsOrNone /\ assets \subseteq Versions
  /\ quotes \in [QuoteIds -> QuoteRows \union {NoRow}]
  /\ now \in 0..MaxTime
  /\ rems \in [RemIds -> RemRows \union {NoRemRow}]
  /\ ledger \in Seq(Commitments)
  /\ calls \in [RemIds -> {"none", "pending", "confirmed", "failed"}]
  /\ prepared \in [RemIds -> {"none", "ready", "spent"}]
  /\ burnt \subseteq QuoteIds

-----------------------------------------------------------------------------
\* Properties

Escrows == DOMAIN ledger

\* The escrow of r has been opened.
Escrowed(r) == \E n \in Escrows : ledger[n].row = r

\* Another row commits to the same sender and quote hash: its quote is another
\* owner's of equal terms, and it was created with that quote by the same sender,
\* or by a session that has registered the same key.
Lookalike(r) ==
  \E t \in RemIds \ {r} :
    /\ Inserted(t)
    /\ rems[t].account.key = rems[r].account.key
    /\ quotes[rems[t].quote].terms = quotes[rems[r].quote].terms

\* One quote backs one remittance, however many creates overlap (claim).
SingleUse ==
  \A r, t \in RemIds :
    Inserted(r) /\ Inserted(t) /\ rems[r].quote = rems[t].quote => r = t

\* Two escrows with the same sender and quote hash, the pair by which confirm
\* recognises an escrow, are those of quotes of two owners: one owner's are told
\* apart, as the quotes' unique index, the claim and the one opening of each row
\* achieve together, however creates, retries and wallets overlap (confirm, and
\* the remittance the RemittanceService module takes an escrow to be of).
LookalikesAreForeign ==
  \A m, n \in Escrows :
    /\ ledger[m].sender = ledger[n].sender
    /\ ledger[m].terms = ledger[n].terms
    /\ quotes[rems[ledger[m].row].quote].owner = quotes[rems[ledger[n].row].quote].owner
    => m = n

\* The customer has registered a key of its own, and its session is no longer
\* resolved to the users row of its custodial account.
IdentitySplit(c) == c \in Customers /\ UserOf(c) \in users

\* What settlement will state again from the rows, months of handlers later, is
\* what the escrow was opened with, and it is the row's own, unless there is a
\* lookalike, which confirm cannot tell from it; and the sender's account is
\* still found, or the sender is a customer whose identity has split (confirm,
\* authorizeAndRelease, and loadSenderAccount, which throws in that case).
SettlementStandsFirm ==
  \A r \in RemIds :
    rems[r].link # 0 =>
      /\ rems[r].link \in Escrows
      /\ Matches(ledger[rems[r].link], r)
      /\ ledger[rems[r].link] = Commitment(r) \/ Lookalike(r)
      /\ \/ IsAccountOf(rems[r].account, rems[r].user)
         \/ IdentitySplit(rems[r].account.user)

\* A quote is used up only by a remittance, or by a create that is about to
\* insert one, unless that create has died or its INSERT was refused: create
\* looks at the quote, the sender and the owner before the claim, but never at
\* the anchor_id of the client (create, claim, and the INSERT between them).
ClaimNotWasted ==
  \A i \in QuoteIds :
    quotes[i].used =>
      \/ \E r \in RemIds : rems[r].quote = i
      \/ \E q \in Requests : At(q, "create", "insert") /\ req[q].quote = i
      \/ i \in burnt
      \/ faults > 0

\* Every escrow is that of a row, and no other escrow is; a custodial row's is
\* linked to it or about to be, unless a handler has died or an answer was lost,
\* or a confirm has taken a lookalike for it (the UPDATEs that follow
\* createRemittance).
EscrowNotLost ==
  \A n \in Escrows :
    LET r == ledger[n].row IN
    /\ Inserted(r)
    /\ ledger[n] = Commitment(r)
    /\ \A m \in Escrows : ledger[m].row = r => m = n
    /\ \/ rems[r].link = n
       \/ ~IsCustodial(rems[r].account)
       \/ Lookalike(r)
       \/ faults > 0
       \/ \E q \in Requests :
            (At(q, "create", "confirmed") \/ At(q, "create", "link")) /\ req[q].rem = r

\* The record of a create call says what the ledger says; it may call an accepted
\* call failed only after an answer or an UPDATE was lost (record).
CallRowsTrue ==
  \A r \in RemIds :
    /\ calls[r] = "confirmed" => Escrowed(r)
    /\ calls[r] = "failed" => ~Escrowed(r) \/ faults > 0
=============================================================================
