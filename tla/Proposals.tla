------------------------------ MODULE Proposals ------------------------------
(***************************************************************************)
(* Proposals: a reviewed merge of one branch into another.  Merging one    *)
(* counts the approvals, merges the schemas, merges the data and records   *)
(* the outcome, each in reads and transactions of its own.                 *)
(***************************************************************************)
EXTENDS Migrations, Queries

CONSTANTS Principals, MaxProposals

VARIABLES
  proposals,   \* datagit_proposal, in order of insertion
  reviews,     \* datagit_review
  protection,  \* datagit_ref: whether a branch is protected, how many approvals
  disputes     \* datagit_conflict: the keys in conflict, resolved or not

proposalVars == <<proposals, reviews, protection, disputes>>

ProposalsInit ==
  /\ proposals = <<>>
  /\ reviews = {}
  /\ protection = [b \in Branches |-> [on |-> FALSE, approvals |-> 0]]
  /\ disputes = {}

-----------------------------------------------------------------------------
(* Review.                                                                 *)

CreateProposal(from, into, author) ==
  /\ Len(proposals) < MaxProposals
  /\ proposals' = Append(proposals, [from |-> from, into |-> into, author |-> author,
                                     state |-> "open", commit |-> 0])
  /\ UNCHANGED <<vars, schemaVars, reviews, protection, disputes>>

(* An approval by the author is refused if the target is protected now.    *)
AddReview(p, by, kind) ==
  LET review == [proposal |-> p, by |-> by, kind |-> kind]
  IN  /\ review \notin reviews
      /\ kind = "approve" /\ by = proposals[p].author => ~protection[proposals[p].into].on
      /\ reviews' = reviews \cup {review}
      /\ UNCHANGED <<vars, schemaVars, proposals, protection, disputes>>

SetBranchProtection(b, on, approvals) ==
  /\ protection' = [protection EXCEPT ![b] = [on |-> on, approvals |-> approvals]]
  /\ UNCHANGED <<vars, schemaVars, proposals, reviews, disputes>>

Of(p, kind) == {v.by : v \in {w \in reviews : w.proposal = p /\ w.kind = kind}}

(* Mutant: the author's own approval counts.                               *)
ApproversWithAuthor(p) == Of(p, "approve")

(* Those whose approval counts: the author's does not.                     *)
Approvers(p) == Of(p, "approve") \ {proposals[p].author}

-----------------------------------------------------------------------------
(* Merging a proposal.                                                     *)

Set(r, job) ==
  /\ jobs' = [jobs EXCEPT ![r] = job]
  /\ UNCHANGED <<schemas, columns, shape, sidecar, plans, journal>>

(* The proposal, unless it is merged, whatever else its state says.        *)
BeginMergeProposal(r, p) ==
  /\ jobs[r] = NoJob /\ req[r] = Idle
  /\ proposals[p].state # "merged"
  /\ Set(r, [pc |-> "protection", proposal |-> p])
  /\ UNCHANGED <<vars, proposalVars>>

(* The target's protection, as it is now.                                  *)
ReadProtection(r) ==
  /\ jobs[r].pc = "protection"
  /\ Set(r, CarryOn(r, [pc |-> "reviews",
                        guard |-> protection[proposals[jobs[r].proposal].into]]))
  /\ UNCHANGED <<vars, proposalVars>>

(* Enough approvals, and nobody ever asked for changes.  Then the schema   *)
(* merge begins with the target's schema.                                  *)
Approved(p, guard) ==
  guard.on => Of(p, "request_changes") = {} /\ Cardinality(Approvers(p)) >= guard.approvals

ReadReviews(r) ==
  LET p == jobs[r].proposal
      from == proposals[p].from
      into == proposals[p].into
  IN  /\ jobs[r].pc = "reviews"
      /\ Set(r, IF Approved(p, jobs[r].guard)
                THEN [pc |-> "theirs", proposal |-> p, guard |-> jobs[r].guard, from |-> from,
                      into |-> into, ours |-> SchemaOf(into)]
                ELSE NoJob)
      /\ UNCHANGED <<vars, proposalVars>>

(* The data: a merge of the table, as BranchStore runs it.                 *)
BeginData(r) ==
  /\ jobs[r].pc = "data"
  /\ \E t \in Tables : SubmitMerge(r, "merge", jobs[r].from, jobs[r].into, t)
  /\ Set(r, CarryOn(r, [pc |-> "merging"]))
  /\ UNCHANGED proposalVars

(* The one merge base and the keys in conflict over it.                    *)
Disputed(r) ==
  LET bases == MergeBases(refs[req[r].branch].head, req[r].source.head)
      base == commits[CHOOSE x \in bases : TRUE].chain
      ours == refs[req[r].branch].chain
      theirs == req[r].source.chain
      cand == [pk \in PKs |-> MaskSince(ours, base, pk) \cup MaskSince(theirs, base, pk)]
  IN  IF Cardinality(bases) # 1 THEN {}
      ELSE {c.pk : c \in MergeConflicts(ResolveMap(base), ResolveMap(ours),
                                       ResolveMap(theirs), cand)} \cap req[r].table

(* The plan of the data merge; a merge that fails leaves the proposal as   *)
(* it is.                                                                  *)
PlanData(r) ==
  /\ jobs[r].pc = "merging"
  /\ PlanMerge(r)
  /\ IF req'[r] # Idle THEN Set(r, CarryOn(r, [pc |-> "validate"]))
     ELSE Set(r, IF Disputed(r) = {} THEN NoJob
                 ELSE [pc |-> "clear", proposal |-> jobs[r].proposal, keys |-> Disputed(r)])
  /\ UNCHANGED proposalVars

(* What would break the constraints of the table becomes a conflict.       *)
(* (validated, the head of this read, is auxiliary.)                       *)
ValidateData(r) ==
  /\ jobs[r].pc = "validate"
  /\ IF ValidateMerge(r) = {}
     THEN /\ Set(r, CarryOn(r, [pc |-> "landing", validated |-> refs[req[r].branch].head]))
          /\ UNCHANGED vars
     ELSE /\ Set(r, [pc |-> "clear", proposal |-> jobs[r].proposal, keys |-> ValidateMerge(r)])
          /\ req' = [req EXCEPT ![r] = Idle]
          /\ UNCHANGED <<refs, commits, rows, live, lock>>
  /\ UNCHANGED proposalVars

(* Mutant: the head that the merge built on is taken for its commit.       *)
LandDataHead(r) ==
  /\ jobs[r].pc = "landing"
  /\ \/ Lock(r) /\ UNCHANGED schemaVars
     \/ /\ LandFitting(r)
        /\ Set(r, [pc |-> "merged", proposal |-> jobs[r].proposal,
                   commit |-> refs[req[r].branch].head])
  /\ UNCHANGED proposalVars

LandData(r) ==
  /\ jobs[r].pc = "landing"
  /\ \/ Lock(r) /\ UNCHANGED schemaVars
     \/ /\ LandFitting(r)
        /\ Set(r, [pc |-> "merged", proposal |-> jobs[r].proposal, commit |-> Len(commits) + 1])
  /\ UNCHANGED proposalVars

RefuseData(r) ==
  /\ jobs[r].pc = "landing"
  /\ Refuse(r) \/ Forbid(r)
  /\ Set(r, NoJob)
  /\ UNCHANGED proposalVars

SetState(p, state, commit) ==
  proposals' = [proposals EXCEPT ![p].state = state,
                                 ![p].commit = IF commit = 0 THEN @ ELSE commit]

(* The conflicts of the last attempt go, resolutions and all; then the new *)
(* ones are saved, unresolved.                                             *)
ClearConflicts(r) ==
  /\ jobs[r].pc = "clear"
  /\ disputes' = {d \in disputes : d.proposal # jobs[r].proposal}
  /\ Set(r, CarryOn(r, [pc |-> "save"]))
  /\ UNCHANGED <<vars, proposals, reviews, protection>>

SaveConflicts(r) ==
  /\ jobs[r].pc = "save"
  /\ disputes' = disputes \cup {[proposal |-> jobs[r].proposal, pk |-> pk, resolved |-> FALSE]
                                  : pk \in jobs[r].keys}
  /\ Set(r, [pc |-> "conflict", proposal |-> jobs[r].proposal])
  /\ UNCHANGED <<vars, proposals, reviews, protection>>

MarkConflicted(r) ==
  /\ jobs[r].pc = "conflict"
  /\ SetState(jobs[r].proposal, "conflicted", 0)
  /\ Set(r, NoJob)
  /\ UNCHANGED <<vars, reviews, protection, disputes>>

MarkMerged(r) ==
  /\ jobs[r].pc = "merged"
  /\ SetState(jobs[r].proposal, "merged", jobs[r].commit)
  /\ Set(r, NoJob)
  /\ UNCHANGED <<vars, reviews, protection, disputes>>

(* A decision on a conflict: no merge ever looks at it.                    *)
ResolveConflict(d) ==
  /\ d \in disputes /\ ~d.resolved
  /\ disputes' = (disputes \ {d}) \cup {[d EXCEPT !.resolved = TRUE]}
  /\ UNCHANGED <<vars, schemaVars, proposals, reviews, protection>>

(* The request dies in the middle of its merge.                            *)
MergeDies(r) ==
  /\ jobs[r].pc \in {"merging", "validate", "landing"}
  /\ Crash(r)
  /\ Set(r, NoJob)
  /\ UNCHANGED proposalVars
=============================================================================
