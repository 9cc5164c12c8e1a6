---------------------------- MODULE QuoteService ----------------------------
(***************************************************************************)
(* The quotes (src/modules/quotes/QuoteService.ts): priced from a rate and *)
(* the anchor's stored fee, kept one row per owner and terms, consumed by  *)
(* one claim.                                                              *)
(***************************************************************************)
EXTENDS AnchorDirectory, QuotePricing

CONSTANTS
  Owners,      \* the session subjects that ask for quotes
  QuoteIds,    \* bound: the quotes that may be stored
  Amounts,     \* the source amounts asked for, as decimal strings
  AnchorFees,  \* what each version of the stellar.toml says the anchor's fee is
  QuoteTtl,    \* QUOTE_TTL_SECONDS
  MaxTime,     \* bound: how far the clock goes
  NoQuote      \* "no quote"

ASSUME QuoteAssumption ==
  /\ NoQuote \notin QuoteIds
  /\ NoQuote \notin Owners
  /\ Amounts \subseteq Nat
  /\ AnchorFees \in [Versions -> Fees]
  /\ QuoteTtl \in Nat \ {0}
  /\ MaxTime \in Nat

VARIABLES
  quotes,   \* the quotes table
  now       \* the backend's clock

quoteVars == <<quotes, now>>

NoRow == [owner |-> NoQuote, terms |-> NoQuote, expires |-> 0, used |-> FALSE]

QuotesInit == quotes = [i \in QuoteIds |-> NoRow] /\ now = 0

Stored(i) == i \in QuoteIds /\ quotes[i] # NoRow

AllTerms == [source : Nat, rate : Nat, platform : Nat, corridor : Nat, anchor : Nat,
             destination : Nat]

QuoteRows == [owner : Owners, terms : AllTerms, expires : Nat, used : BOOLEAN]

QuoteHandlers ==
  [op : {"quote"}, pc : {"fee"}, owner : Owners, source : Nat, rate : Nat]
  \union [op : {"quote"}, pc : {"insert"}, owner : Owners, terms : AllTerms,
          expires : Nat]

\* The fee compute may find in the anchor's assets: none when they do not list
\* the asset.
ListedFees == IF assets = {} THEN {NoFee} ELSE {AnchorFees[v] : v \in assets}

-----------------------------------------------------------------------------
\* POST /v1/remittances/quote: createQuote and the compute it calls.

\* The handler that goes on to insert the quote computed now.
Priced(owner, source, rate, fee) ==
  [op |-> "quote", pc |-> "insert", owner |-> owner,
   terms |-> Terms(source, rate, fee), expires |-> now + QuoteTtl]

\* toStroops, assertPositiveStroops and resolveRate.  A quote with an anchor goes
\* on with the SELECT of the anchor (an unknown one throws); one without is
\* computed at once, and refused when nothing would be delivered.
RequestQuote(q, s) ==
  /\ \E amount \in Amounts, rate \in ResolvedRates :
       LET source == ToStroops(amount) IN
       /\ source > 0
       /\ \/ /\ anchor # NoVersion
             /\ Begin(q, [op |-> "quote", pc |-> "fee", owner |-> s,
                          source |-> source, rate |-> rate])
          \/ /\ Payable(source, rate, NoFee)
             /\ Begin(q, Priced(s, source, rate, NoFee))
  /\ UNCHANGED quoteVars

\* Faulty variant: the anchor's fee is left out of the terms.
ReadAnchorFeeIgnored(q) ==
  LET c == req[q] IN
  /\ At(q, "quote", "fee")
  /\ IF Payable(c.source, c.rate, NoFee)
       THEN Becomes(q, Priced(c.owner, c.source, c.rate, NoFee))
       ELSE Ends(q)
  /\ UNCHANGED quoteVars

\* The SELECT of its assets, and the rest of compute.
ReadAnchorFee(q) ==
  LET c == req[q] IN
  /\ At(q, "quote", "fee")
  /\ \E fee \in ListedFees :
       IF Payable(c.source, c.rate, fee)
         THEN Becomes(q, Priced(c.owner, c.source, c.rate, fee))
         ELSE Ends(q)
  /\ UNCHANGED quoteVars

\* The quote of an owner for some terms.
SameQuote(i, owner, terms) == quotes[i].owner = owner /\ quotes[i].terms = terms

\* Faulty variant: the rows of an owner need not differ in their hash.
InsertQuoteAgain(q) ==
  LET c == req[q] IN
  /\ At(q, "quote", "insert")
  /\ \E i \in QuoteIds :
       /\ ~Stored(i)
       /\ quotes' = [quotes EXCEPT ![i] = [owner |-> c.owner, terms |-> c.terms,
                                           expires |-> c.expires, used |-> FALSE]]
  /\ Ends(q)
  /\ UNCHANGED now

\* The INSERT, with nothing done on a conflict of owner and hash: the answer
\* then names the row that is there, whatever has become of its expiry and its
\* use (the SELECT of its id changes nothing, and rows are never deleted).
InsertQuote(q) ==
  LET c == req[q] IN
  /\ At(q, "quote", "insert")
  /\ \/ /\ \A i \in QuoteIds : ~SameQuote(i, c.owner, c.terms)
        /\ \E i \in QuoteIds :
             /\ ~Stored(i)
             /\ quotes' = [quotes EXCEPT ![i] = [owner |-> c.owner, terms |-> c.terms,
                                                 expires |-> c.expires, used |-> FALSE]]
     \/ /\ \E i \in QuoteIds : SameQuote(i, c.owner, c.terms)
        /\ UNCHANGED quotes
  /\ Ends(q)
  /\ UNCHANGED now

-----------------------------------------------------------------------------
\* What a remittance asks of a quote

\* assertUsable, given no expectations.
Usable(i) == Stored(i) /\ now < quotes[i].expires /\ ~quotes[i].used

\* claim: the UPDATE finds the quote unused, and marks it.
Claimable(i) == ~quotes[i].used
MarkUsed(i) == quotes' = [quotes EXCEPT ![i].used = TRUE]

Tick ==
  /\ now < MaxTime
  /\ now' = now + 1
  /\ UNCHANGED <<quotes, deskVars>>

QuoteStep(q) ==
  \/ ReadAnchorFee(q) \/ InsertQuote(q)

QuoteNext ==
  \/ \E q \in Requests : QuoteStep(q) \/ \E s \in Owners : RequestQuote(q, s)
  \/ Tick

-----------------------------------------------------------------------------
\* The reference definition of a quote: b is a/c rounded down.
Rounds(b, a, c) == b * c <= a /\ a < (b + 1) * c

\* What an offer must satisfy: its fees are the shares they are said to be,
\* rounded down, and the destination is what the rest buys at its rate, rounded
\* down, after the anchor's fee; nobody gets more than the source pays for.
FairTerms(t) ==
  LET rest == t.source - t.platform - t.corridor
      gross == t.destination + t.anchor
  IN
  /\ Rounds(t.platform, t.source * PlatformBps, Bps)
  /\ Rounds(t.corridor, t.source * CorridorBps, Bps)
  /\ Rounds(gross, rest * t.rate, RateScale)
  /\ rest > 0
  /\ t.destination > 0

\* Every stored quote is fair: the amount it promises the recipient and the
\* fees it takes add up to the source to the last stroop, although each is
\* rounded on its own (computeDestination, and the fees' way through decimal
\* strings in compute and createQuote).
PricesAreFair ==
  \A i \in QuoteIds : Stored(i) => FairTerms(quotes[i].terms)

\* One owner's quotes differ in their terms.  Quotes of equal terms have equal
\* hashes, and only the owner's remittances tell them apart on-chain.
OneQuotePerTerms ==
  \A i, j \in QuoteIds :
    Stored(i) /\ SameQuote(j, quotes[i].owner, quotes[i].terms) => i = j

\* A quote that names an anchor is priced without the anchor's fee only if the
\* fee was read while the directory was being refreshed, or after a refresh had
\* died (the SELECTs of compute between the statements of upsertAnchor).
FeeMissedOnlyInRefresh ==
  [][\A q \in Requests :
       /\ At(q, "quote", "fee")
       /\ req'[q].op = "quote"
       /\ req'[q].pc = "insert"
       /\ \A v \in Versions : req'[q].terms # Terms(req[q].source, req[q].rate, AnchorFees[v])
       => Refreshing \/ faults > 0]_<<deskVars, directoryVars, quoteVars>>
=============================================================================
