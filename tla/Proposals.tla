----------------------------- MODULE Proposals -----------------------------
(***************************************************************************)
(* Proposed address scopes (cmd/web/proposals.go, internal/proposer): an   *)
(* operator's registry lookup files proposals, and each is confirmed into  *)
(* a seed or declined into an exclusion, a decline that can be undone.     *)
(*                                                                         *)
(* Each statement of a handler is a step: no transaction spans them, so    *)
(* two operators' handlers interleave.  An address is a number of a small  *)
(* space and a scope an aligned block of it.  The acts recorded beside     *)
(* each handler are left out.                                              *)
(***************************************************************************)
EXTENDS Registry

CONSTANTS
    Operators,
    AddrCap,        \* addressCap: the largest scope a confirm accepts
    Hand,           \* the scopes an operator may exclude by hand
    MaxProposals,   \* bound: proposals ever filed
    MaxActs,        \* bound: exclusions and sources moved by hand
    MaxFailures     \* bound: failures in a row counted

VARIABLES
    overrides,   \* source_state: slug -> enabled
    health,      \* source_health: slug -> consecutive failures
    proposals,   \* the proposal rows, by id: scope, status
    exclusions,  \* the address exclusions: scope, from (0: by hand)
    seeds,       \* the address seeds
    doing,       \* each operator's request and where it stands
    acts,        \* exclusions and sources moved by hand so far
    stranded     \* declined proposals whose exclusion was lifted by hand or never written

proposalVars == <<overrides, health, proposals, exclusions, seeds, doing, acts, stranded>>

-----------------------------------------------------------------------------
(* The source catalogue: the registries are proposers that ship on; the    *)
(* accepted tier has no runner, and a barred source stays off.             *)

Catalog == { [slug |-> "arin", proposer |-> TRUE, consent |-> "unencumbered", on |-> TRUE, ships |-> TRUE],
             [slug |-> "afrinic", proposer |-> TRUE, consent |-> "unencumbered", on |-> TRUE, ships |-> TRUE],
             [slug |-> "ripestat", proposer |-> TRUE, consent |-> "operator-accepted", on |-> FALSE, ships |-> FALSE] }
Slugs == {c.slug : c \in Catalog}

sourceEnabledState(c) ==
    c.ships /\ (IF c.slug \in DOMAIN overrides THEN overrides[c.slug] ELSE c.on)

\* enabledProposers: the unencumbered proposers that are on.
enabledProposers ==
    {c.slug : c \in {x \in Catalog : x.proposer /\ x.consent = "unencumbered" /\ sourceEnabledState(x)}}

\* The three groups of the Sources page.
SourceTier(c) ==
    CASE ~c.ships -> "barred"
      [] c.ships /\ c.consent = "operator-accepted" -> "accepted"
      [] OTHER -> "unencumbered"

\* recordProposerAttempts: a join gap is the source answering, and no failure.
RecordSourceAttempt(outcome) ==
    [s \in DOMAIN health \cup DOMAIN outcome |->
        LET before == IF s \in DOMAIN health THEN health[s] ELSE 0
        IN IF s \notin DOMAIN outcome THEN before
           ELSE IF outcome[s] = "error" THEN IF before < MaxFailures THEN before + 1 ELSE before ELSE 0]

-----------------------------------------------------------------------------
(* The lookup. *)

WithinCap(s) == s.size <= AddrCap

Idle == [at |-> "idle", id |-> 0, todo |-> {}]

coveringExclusion(s, excl) == \E e \in excl : Block(s) \subseteq Block(e.scope)
excludeCandidates(cands) == {s \in cands : ~coveringExclusion(s, exclusions)}

ProposalStatus(id) == proposals[id].status
OfScope(s) == {id \in DOMAIN proposals : proposals[id].scope = s}

\* The sources answer or fail on their own; what an exclusion covers is dropped
\* before the lookup is filed.
runLookup(o) ==
    /\ doing[o] = Idle /\ Len(proposals) < MaxProposals
    /\ \E caida \in CaidaAnswers, arin \in ArinAnswers :
         LET on == enabledProposers
             cands == excludeCandidates(
                        (IF "afrinic" \in on THEN delegations(caida.result.ids) ELSE {})
                        \cup (IF "arin" \in on THEN arin.nets ELSE {}))
         IN /\ doing' = [doing EXCEPT ![o] = IF cands = {} THEN Idle
                                             ELSE [at |-> "file", id |-> 0, todo |-> cands]]
            /\ health' = RecordSourceAttempt([s \in on |->
                  IF (s = "arin" /\ arin.ok) \/ (s # "arin" /\ (caida.result.ok \/ caida.result.gap))
                  THEN "ok" ELSE "error"])
    /\ UNCHANGED <<overrides, proposals, exclusions, seeds, acts, stranded>>

\* CreateProposal, one candidate at a time; a failure leaves the rest unfiled.
CreateProposal(o) ==
    /\ doing[o].at = "file"
    /\ \E s \in doing[o].todo :
         /\ Len(proposals) < MaxProposals
         /\ proposals' = Append(proposals, [scope |-> s, status |-> "pending"])
         /\ doing' = [doing EXCEPT ![o] = IF doing[o].todo = {s} THEN Idle
                                          ELSE [doing[o] EXCEPT !.todo = @ \ {s}]]
    /\ UNCHANGED <<overrides, health, exclusions, seeds, acts, stranded>>

\* A statement fails and the handler stops where it stands.
HandlerFails(o) ==
    /\ doing[o] # Idle
    /\ doing' = [doing EXCEPT ![o] = Idle]
    /\ stranded' = IF doing[o].at = "exclude" /\ ProposalStatus(doing[o].id) = "declined"
                   THEN stranded \cup {doing[o].id} ELSE stranded
    /\ UNCHANGED <<overrides, health, proposals, exclusions, seeds, acts>>

-----------------------------------------------------------------------------
(* Confirm, decline, undo. *)

\* The proposals page: a scope over the cap is shown and cannot be confirmed.
toProposalLookups == {[id |-> i, overCap |-> ~WithinCap(proposals[i].scope)] :
                        i \in {j \in DOMAIN proposals : ProposalStatus(j) = "pending"}}

\* Read the pending proposal, the cap and the exclusions; then declare the seed.
confirmProposal(o, id) ==
    /\ doing[o] = Idle /\ [id |-> id, overCap |-> FALSE] \in toProposalLookups
    /\ ~coveringExclusion(proposals[id].scope, exclusions)
    /\ doing' = [doing EXCEPT ![o] = [at |-> "declare", id |-> id, todo |-> {}]]
    /\ UNCHANGED <<overrides, health, proposals, exclusions, seeds, acts, stranded>>

\* CreateAddressSeed: a scope already declared stops the confirm.
CreateAddressSeed(o) ==
    /\ doing[o].at = "declare"
    /\ LET s == proposals[doing[o].id].scope
       IN /\ seeds' = seeds \cup {s}
          /\ doing' = [doing EXCEPT ![o] = IF s \in seeds THEN Idle ELSE [doing[o] EXCEPT !.at = "confirm"]]
    /\ UNCHANGED <<overrides, health, proposals, exclusions, acts, stranded>>

StatusMoved(id, from, to) == IF ProposalStatus(id) = from THEN [proposals EXCEPT ![id].status = to] ELSE proposals

\* ConfirmProposal moves a pending row and says nothing when it moved none.
ConfirmProposal(o) ==
    /\ doing[o].at = "confirm"
    /\ proposals' = StatusMoved(doing[o].id, "pending", "confirmed")
    /\ doing' = [doing EXCEPT ![o] = Idle]
    /\ UNCHANGED <<overrides, health, exclusions, seeds, acts, stranded>>

\* The next id of the selection that is still pending is read.
declineLookup(o, id) ==
    /\ doing[o] = Idle /\ id \in DOMAIN proposals /\ ProposalStatus(id) = "pending"
    /\ doing' = [doing EXCEPT ![o] = [at |-> "decline", id |-> id, todo |-> {}]]
    /\ UNCHANGED <<overrides, health, proposals, exclusions, seeds, acts, stranded>>

DeclineProposal(o) ==
    /\ doing[o].at = "decline"
    /\ proposals' = StatusMoved(doing[o].id, "pending", "declined")
    /\ doing' = [doing EXCEPT ![o].at = "exclude"]
    /\ UNCHANGED <<overrides, health, exclusions, seeds, acts, stranded>>

ExclusionOf(s) == {e \in exclusions : e.scope = s}

\* A standing row of the scope is kept with the provenance it has.
CreateDeclinedProposalExclusion(o) ==
    /\ doing[o].at = "exclude"
    /\ LET s == proposals[doing[o].id].scope
       IN exclusions' = IF ExclusionOf(s) # {} THEN exclusions
                        ELSE exclusions \cup {[scope |-> s, from |-> doing[o].id]}
    /\ doing' = [doing EXCEPT ![o] = Idle]
    /\ UNCHANGED <<overrides, health, proposals, seeds, acts, stranded>>

\* The screen offers an undo per declined proposal on its scope's exclusion row.
toUndoControls == {id \in DOMAIN proposals : ProposalStatus(id) = "declined"}
toExclusionViews == [e \in exclusions |-> toUndoControls \cap OfScope(e.scope)]

\* UndoDeclineProposal; an id no longer declined moves nothing.
undoDecline(o, id) ==
    /\ doing[o] = Idle /\ id \in toUndoControls
    /\ proposals' = StatusMoved(id, "declined", "pending")
    /\ doing' = [doing EXCEPT ![o] = [at |-> "lift", id |-> id, todo |-> {}]]
    /\ stranded' = stranded \ {id}
    /\ UNCHANGED <<overrides, health, exclusions, seeds, acts>>

Lifted_Unclaimed(s) == {e \in ExclusionOf(s) : e.from # 0}
\* DeleteUnclaimedAddressExclusion: a row a decline wrote, of a scope no declined
\* proposal claims any more.
Lifted(s) == {e \in ExclusionOf(s) : e.from # 0 /\ OfScope(s) \cap toUndoControls = {}}

DeleteUnclaimedAddressExclusion(o) ==
    /\ doing[o].at = "lift"
    /\ exclusions' = exclusions \ Lifted(proposals[doing[o].id].scope)
    /\ doing' = [doing EXCEPT ![o] = Idle]
    /\ UNCHANGED <<overrides, health, proposals, seeds, acts, stranded>>

-----------------------------------------------------------------------------
(* Exclusions declared and lifted by hand; sources toggled. *)

ByHand == acts < MaxActs /\ acts' = acts + 1

declareExclusion(s) ==
    /\ ExclusionOf(s) = {} /\ ByHand
    /\ exclusions' = exclusions \cup {[scope |-> s, from |-> 0]}
    /\ UNCHANGED <<overrides, health, proposals, seeds, doing, stranded>>

\* A lift takes the row whoever wrote it, and the undo controls it carried.
unexclude(e) ==
    /\ e \in exclusions /\ ByHand
    /\ exclusions' = exclusions \ {e}
    /\ stranded' = stranded \cup (OfScope(e.scope) \cap toUndoControls)
    /\ UNCHANGED <<overrides, health, proposals, seeds, doing>>

\* An accepted-tier source needs the terms agreed, and a barred one cannot move.
toggleSource(slug, to) ==
    /\ \E c \in Catalog : c.slug = slug /\ SourceTier(c) # "barred"
    /\ overrides' = [s \in DOMAIN overrides \cup {slug} |-> IF s = slug THEN to ELSE overrides[s]]
    /\ overrides' # overrides /\ ByHand
    /\ UNCHANGED <<health, proposals, exclusions, seeds, doing, stranded>>

-----------------------------------------------------------------------------
ProposalInit ==
    /\ overrides = << >> /\ health = << >>
    /\ proposals = << >> /\ exclusions = {} /\ seeds = {}
    /\ doing = [o \in Operators |-> Idle]
    /\ acts = 0
    /\ stranded = {}

ProposalNext ==
    \/ \E o \in Operators :
         \/ runLookup(o) \/ CreateProposal(o) \/ HandlerFails(o)
         \/ \E id \in DOMAIN proposals : confirmProposal(o, id) \/ declineLookup(o, id) \/ undoDecline(o, id)
         \/ CreateAddressSeed(o) \/ ConfirmProposal(o)
         \/ DeclineProposal(o) \/ CreateDeclinedProposalExclusion(o)
         \/ DeleteUnclaimedAddressExclusion(o)
    \/ \E s \in Hand : declareExclusion(s)
    \/ \E e \in exclusions : unexclude(e)
    \/ \E slug \in Slugs, to \in BOOLEAN : toggleSource(slug, to)

ProposalSpec == ProposalInit /\ [][ProposalNext]_proposalVars

-----------------------------------------------------------------------------
\* A decline that ended, and whose exclusion no one lifted by hand, is still
\* excluded and still carries its undo control, whatever other operators decline
\* and undo on the same scope meanwhile (declineLookup, undoDecline).
DeclineHolds ==
    \A id \in DOMAIN proposals \ stranded :
      (ProposalStatus(id) = "declined" /\ \A o \in Operators : ~(doing[o].id = id /\ doing[o].at = "exclude"))
        => \E e \in exclusions : id \in toExclusionViews[e]
=============================================================================
