--------------------------- MODULE AnchorDirectory ---------------------------
(***************************************************************************)
(* One home domain in the anchor directory                                 *)
(* (src/modules/anchors/AnchorService.ts): its row in anchors and its rows *)
(* in anchor_assets, which upsertAnchor replaces in several statements     *)
(* without a transaction.  A version of the anchor's stellar.toml stands   *)
(* for what it says, its assets and their fees.                            *)
(***************************************************************************)
EXTENDS RequestDesk

CONSTANTS
  Versions,   \* the versions of its stellar.toml that the anchor publishes, each with some asset
  NoVersion   \* "no row"

ASSUME DirectoryAssumption == NoVersion \notin Versions

VARIABLES
  anchor,   \* the version the anchors row was written from
  assets    \* the versions whose assets are in the anchor_assets rows

directoryVars == <<anchor, assets>>

VersionsOrNone == Versions \union {NoVersion}

DirectoryInit == anchor = NoVersion /\ assets = {}

DiscoverHandlers == [op : {"discover"}, pc : {"select", "insert", "update", "delete", "assets"},
                     version : Versions]

-----------------------------------------------------------------------------
\* upsertAnchor, for POST /v1/anchors (register) and for seedKnownAnchors.

\* The stellar.toml is fetched.
Discover(q) ==
  /\ \E v \in Versions :
       Begin(q, [op |-> "discover", pc |-> "select", version |-> v])
  /\ UNCHANGED directoryVars

SelectAnchor(q) ==
  /\ At(q, "discover", "select")
  /\ Goes(q, IF anchor # NoVersion THEN "update" ELSE "insert")
  /\ UNCHANGED directoryVars

\* The home domain is unique: the slower of two first registrations throws.
InsertAnchor(q) ==
  /\ At(q, "discover", "insert")
  /\ IF anchor # NoVersion
       THEN Ends(q) /\ UNCHANGED anchor
       ELSE Goes(q, "assets") /\ anchor' = req[q].version
  /\ UNCHANGED assets

UpdateAnchor(q) ==
  /\ At(q, "discover", "update")
  /\ anchor' = req[q].version
  /\ Goes(q, "delete")
  /\ UNCHANGED assets

\* Faulty variant: only the assets of another version are replaced.
DeleteStaleAssets(q) ==
  /\ At(q, "discover", "delete")
  /\ assets' = {}
  /\ IF req[q].version \in assets THEN Ends(q) ELSE Goes(q, "assets")
  /\ UNCHANGED anchor

DeleteAssets(q) ==
  /\ At(q, "discover", "delete")
  /\ assets' = {}
  /\ Goes(q, "assets")
  /\ UNCHANGED anchor

\* The assets are unique per anchor: the INSERT throws when one of them is there
\* already, and adds to them when none is.
InsertAssets(q) ==
  /\ At(q, "discover", "assets")
  /\ \/ assets' = assets \union {req[q].version}
     \/ assets # {} /\ UNCHANGED assets
  /\ Ends(q)
  /\ UNCHANGED anchor

-----------------------------------------------------------------------------
DirectoryStep(q) ==
  \/ SelectAnchor(q) \/ InsertAnchor(q) \/ UpdateAnchor(q) \/ DeleteAssets(q)
  \/ InsertAssets(q)

DirectoryNext == \E q \in Requests : Discover(q) \/ DirectoryStep(q)

\* An upsert has deleted the assets, or not stored them yet.
Refreshing == \E q \in Requests : At(q, "discover", "assets")

\* A registered anchor is only ever without assets while an upsert is under way
\* or after one has died: upserts that overlap, conflict and throw leave
\* the assets of one of them (the DELETE and the INSERT of upsertAnchor).
DirectoryComplete == anchor # NoVersion /\ assets = {} => Refreshing \/ faults > 0
=============================================================================
