--------------------------- MODULE IntakeInvariant ---------------------------
(***************************************************************************)
(* Why the intake is safe: what holds of its tables, its ledger and every  *)
(* handler on the way between two awaits.  The conjunction is inductive.   *)
(***************************************************************************)
EXTENDS RemittanceIntake

\* The accounts a session can ever come by: a key may be anybody's, but the user
\* of an account is the session's own.
Owns(s, account) ==
  \/ s \in Customers /\ account = [user |-> s, key |-> s]
  \/ s \in Sessions /\ account.user = UserOf(s)

\* Every account is some session's, and its user was there before it.
RegistrySound ==
  /\ \A a \in accounts : a.user \in users /\ \E s \in Sessions : Owns(s, a)
  /\ \A q \in Requests :
       LET h == req[q] IN
       /\ h.op = "register" /\ h.pc # "newUser" => UserOf(h.session) \in users
       /\ h.op = "issue" => h.session \in users

\* A handler that has met the anchor's row still would.
AnchorMet ==
  \A q \in Requests :
    At(q, "discover", "update") \/ At(q, "discover", "delete") \/ At(q, "quote", "fee")
      => anchor # NoVersion

\* The quotes on their way into the table are fair as well.
OffersAreFair ==
  \A q \in Requests : At(q, "quote", "insert") => FairTerms(req[q].terms)

\* The owner of a row and the user of its account, looked up one after the other.
UserFits(user, account) == user = account.user \/ IdentitySplit(account.user)

\* Up to its INSERT a create holds a quote, of whichever owner, and an account of
\* its own session; once it has claimed the quote nobody else has it.
CreatesSound ==
  \A q \in Requests :
    LET h == req[q] IN
    h.op = "create" =>
      /\ h.pc \in {"account", "owner", "claim", "insert"} =>
           Stored(h.quote)
      /\ h.pc \in {"owner", "claim", "insert"} =>
           h.account \in accounts /\ Owns(h.session, h.account)
      /\ h.pc \in {"claim", "insert"} => UserFits(h.user, h.account)
      /\ h.pc = "insert" =>
           /\ quotes[h.quote].used
           /\ \A r \in RemIds : rems[r].quote # h.quote
           /\ \A p \in Requests : At(p, "create", "insert") /\ req[p].quote = h.quote => p = q

\* Every row has used up a quote of its own.
RowsSound ==
  \A r \in RemIds :
    Inserted(r) =>
      /\ Stored(rems[r].quote)
      /\ quotes[rems[r].quote].used
      /\ rems[r].account \in accounts
      /\ UserFits(rems[r].user, rems[r].account)

\* The handler that is to open the escrow of a row.
Opens(q, r) ==
  /\ req[q].op = "create"
  /\ req[q].pc \in {"signer", "record", "submit", "failed", "confirmed", "link"}
  /\ req[q].rem = r

\* It is the only one, and the wallet is not asked as well; until it submits
\* there is no escrow, and afterwards it holds the id of the row's own.
OpeningsSound ==
  \A q \in Requests, r \in RemIds :
    Opens(q, r) =>
      /\ Inserted(r)
      /\ prepared[r] = "none"
      /\ \A p \in Requests : Opens(p, r) => p = q
      /\ req[q].pc = "signer" => calls[r] = "none"
      /\ req[q].pc = "submit" => calls[r] = "pending"
      /\ req[q].pc \in {"signer", "record", "submit"} => ~Escrowed(r)
      /\ req[q].pc = "failed" => ~Escrowed(r) \/ faults > 0
      /\ req[q].pc \in {"confirmed", "link"} =>
           req[q].link \in Escrows /\ ledger[req[q].link] = Commitment(r)

\* Escrow n is r's, or one that cannot be told from it.
Passes(n, r) ==
  /\ n \in Escrows
  /\ Matches(ledger[n], r)
  /\ ledger[n] = Commitment(r) \/ Lookalike(r)

\* A confirm holds the id of an escrow, and after the comparison of one that
\* passes for its row's.
ConfirmsSound ==
  \A q \in Requests :
    LET h == req[q] IN
    h.op = "confirm" =>
      /\ Inserted(h.rem)
      /\ h.pc # "newest" => h.link \in Escrows
      /\ h.pc = "link" => Passes(h.link, h.rem)

\* Every escrow is what its row commits to, no row opens two, and a wallet that
\* may still submit is the only one that can open its row's.
LedgerSound ==
  /\ \A n \in Escrows : Inserted(ledger[n].row) /\ ledger[n] = Commitment(ledger[n].row)
  /\ \A m, n \in Escrows : ledger[m].row = ledger[n].row => m = n
  /\ \A r \in RemIds :
       /\ prepared[r] = "ready" =>
            /\ ~Escrowed(r)
            /\ calls[r] = "none"
            /\ ~IsCustodial(rems[r].account)
       /\ ~Inserted(r) => calls[r] = "none" /\ prepared[r] = "none"

\* The contract id of a row is that of an escrow that passes for its own.
LinksSound ==
  \A r \in RemIds : rems[r].link # 0 => Passes(rems[r].link, r)

\* Between any two awaits every handler's decision is still good: nobody else
\* has taken its quote, opened its escrow or made its account another's
\* (create, confirm, record, and the routes that change what they have read).
HandlersSound ==
  /\ RegistrySound
  /\ AnchorMet
  /\ OffersAreFair
  /\ CreatesSound
  /\ RowsSound
  /\ OpeningsSound
  /\ ConfirmsSound
  /\ LedgerSound
  /\ LinksSound
  /\ OneQuotePerTerms
=============================================================================
