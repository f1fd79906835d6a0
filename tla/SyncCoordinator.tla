-------------------------- MODULE SyncCoordinator --------------------------
(***************************************************************************)
(* The in-memory path-claim coordinator (src/sync.rs).                     *)
(*                                                                         *)
(* Agents take exclusive claims on sets of repository paths.  The holder   *)
(* of a claim may hand parts of it to Workers as subordinate claims, each  *)
(* bound to a frozen reservation (parent token, source digest, worker)     *)
(* that can be consumed once.  Every operation runs under one mutex, so an *)
(* operation is one step.                                                  *)
(*                                                                         *)
(* The operations are operators on the coordinator's state c, the struct   *)
(* Inner of the code, so that the durable store can run several of them in *)
(* one update.  The path-keyed map Inner.claims is represented by its      *)
(* group_claims view: one PathClaim per token, whose paths are the keys    *)
(* that carry the token.                                                   *)
(***************************************************************************)
EXTENDS RepoPaths

CONSTANTS
  Agents,      \* normalised agent ids
  Digests,     \* valid source digests of frozen reservations
  MaxToken     \* u64::MAX, the last value of next_token

ASSUME MaxTokenAssumption == MaxToken \in Nat \ {0}

VARIABLE inner

vars == <<inner>>

Tokens == 1..MaxToken

PathClaim == [token : Tokens, agent_id : Agents, paths : SUBSET Paths]

SubordinateClaimBinding ==
  [child_token : Tokens, parent_token : Tokens, source_digest : Digests,
   worker_id : Agents, paths : SUBSET Paths]

Inner ==
  [next_token : Tokens,
   claims : SUBSET PathClaim,
   subordinate_claims : SUBSET PathClaim,
   subordinate_bindings : SUBSET SubordinateClaimBinding]

EmptyInner ==
  [next_token |-> 1, claims |-> {}, subordinate_claims |-> {},
   subordinate_bindings |-> {}]

-----------------------------------------------------------------------------
(* Reading the state.                                                       *)

all_claims(c) == c.claims \cup c.subordinate_claims

\* A requested path set is what normalize_claim_paths would return for it.
IsNormalized(ps) == ps # {} /\ collapse_covered_paths(ps) = ps

\* The token is the parent of a subordinate claim that is still active.
HasActiveSubordinates(c, token) ==
  \E b \in c.subordinate_bindings :
    /\ b.parent_token = token
    /\ \E child \in c.subordinate_claims : child.token = b.child_token

\* BTreeMap iteration order: the first of a set of claims is the oldest token.
FirstClaim(cs) == CHOOSE x \in cs : \A y \in cs : x.token <= y.token

can_write(c, agent, path) ==
  LET over == {child \in c.subordinate_claims :
                 \E scope \in child.paths : paths_overlap(path, scope)}
      child == FirstClaim(over)
  IN IF over # {}
       THEN /\ child.agent_id = agent
            /\ \E scope \in child.paths : path_is_covered_by_claim(path, scope)
       ELSE \E claim \in c.claims :
              /\ claim.agent_id = agent
              /\ \E scope \in claim.paths : path_is_covered_by_claim(path, scope)

-----------------------------------------------------------------------------
(* Operations: XOk is the success condition, X the state after it.          *)

\* Mutant of insert_claim_ok: only equal paths conflict, not nested ones.
insert_claim_ok_EqualPathsOnly(c, ps) ==
  \A claim \in c.claims : claim.paths \cap ps = {}

\* insert_claim: no requested path overlaps a claimed one, whoever owns it.
insert_claim_ok(c, ps) ==
  \A claim \in c.claims : ~ScopesOverlap(claim.paths, ps)

\* The checked_add of next_token, before anything else is done.
TokenAvailable(c) == c.next_token < MaxToken

\* claim_paths takes its token before it looks for a conflict.
BurnToken(c) == [c EXCEPT !.next_token = @ + 1]

claim_paths(c, agent, ps) ==
  [c EXCEPT
     !.next_token = @ + 1,
     !.claims = @ \cup {[token |-> c.next_token, agent_id |-> agent, paths |-> ps]}]

\* Mutant of validate_subordinate_scope: siblings are not compared.
validate_subordinate_scope_NoSiblings(c, parent, worker, ps) ==
  /\ worker # parent.agent_id
  /\ IsNormalized(ps)
  /\ \A p \in ps : \E scope \in parent.paths : starts_with(p, scope)
  /\ \E scope \in parent.paths : \A p \in ps : ~starts_with(scope, p)
  /\ \A claim \in c.claims : claim.agent_id # worker

validate_subordinate_scope(c, parent, worker, ps) ==
  /\ worker # parent.agent_id
  /\ IsNormalized(ps)
  /\ \A p \in ps : \E scope \in parent.paths : starts_with(p, scope)
  /\ \E scope \in parent.paths : \A p \in ps : ~starts_with(scope, p)
  /\ \A child \in c.subordinate_claims :
       /\ child.agent_id # worker
       /\ ~ScopesOverlap(child.paths, ps)
  /\ \A claim \in c.claims : claim.agent_id # worker

\* Mutant of SubordinateReplay: a reservation is spent only while its claim lives.
SubordinateReplay_ActiveOnly(c, parent, worker, digest) ==
  \E b \in c.subordinate_bindings :
    /\ b.parent_token = parent.token
    /\ b.source_digest = digest
    /\ b.worker_id = worker
    /\ \E child \in c.subordinate_claims : child.token = b.child_token

\* The reservation was consumed before, whether or not its claim is active.
SubordinateReplay(c, parent, worker, digest) ==
  \E b \in c.subordinate_bindings :
    /\ b.parent_token = parent.token
    /\ b.source_digest = digest
    /\ b.worker_id = worker

claim_subordinate_paths_ok(c, parent, worker, ps, digest) ==
  /\ parent \in c.claims
  /\ ~SubordinateReplay(c, parent, worker, digest)
  /\ validate_subordinate_scope(c, parent, worker, ps)
  /\ TokenAvailable(c)

claim_subordinate_paths(c, parent, worker, ps, digest) ==
  [c EXCEPT
     !.next_token = @ + 1,
     !.subordinate_claims =
        @ \cup {[token |-> c.next_token, agent_id |-> worker, paths |-> ps]},
     !.subordinate_bindings =
        @ \cup {[child_token |-> c.next_token, parent_token |-> parent.token,
                 source_digest |-> digest, worker_id |-> worker, paths |-> ps]}]

\* Mutant of release_by_agent_ok: active subordinates of the agent are ignored.
release_by_agent_ok_Unchecked(c, agent) == agent \in Agents

release_ok(c, token) ==
  /\ ~HasActiveSubordinates(c, token)
  /\ \E claim \in all_claims(c) : claim.token = token

\* A subordinate claim is removed and the call returns; otherwise a top-level one.
release(c, token) ==
  IF \E child \in c.subordinate_claims : child.token = token
    THEN [c EXCEPT !.subordinate_claims = {x \in @ : x.token # token}]
    ELSE [c EXCEPT !.claims = {x \in @ : x.token # token}]

release_by_agent_ok(c, agent) ==
  \A claim \in c.claims :
    claim.agent_id = agent => ~HasActiveSubordinates(c, claim.token)

release_by_agent(c, agent) ==
  [c EXCEPT
     !.claims = {x \in @ : x.agent_id # agent},
     !.subordinate_claims = {x \in @ : x.agent_id # agent}]

-----------------------------------------------------------------------------
(* Reloading a persisted coordinator.                                       *)

HighestToken(cs) == IF cs = {} THEN 0 ELSE CHOOSE t \in {x.token : x \in cs} :
                                             \A x \in cs : x.token <= t

\* from_snapshot never hands out a token at or below a stored or a live one.
from_snapshot(c) ==
  LET above == HighestToken(all_claims(c)) + 1
  IN [c EXCEPT !.next_token = IF above > @ THEN above ELSE @]

\* Each retained binding is well formed and consumed once.
BindingsValid(c) ==
  \A x \in c.subordinate_bindings :
    /\ x.child_token # x.parent_token
    /\ x.child_token < c.next_token /\ x.parent_token < c.next_token
    /\ IsNormalized(x.paths)
    /\ \A y \in c.subordinate_bindings \ {x} :
         /\ x.child_token # y.child_token
         /\ ~(/\ x.parent_token = y.parent_token
              /\ x.source_digest = y.source_digest
              /\ x.worker_id = y.worker_id)

(***************************************************************************)
(* from_snapshot_with_subordinates succeeds on the snapshot of c.  Claims  *)
(* that some binding names as a child are split off; the others must be    *)
(* insertable one by one; then every child, oldest first, must again be    *)
(* admissible under its live parent.                                       *)
(***************************************************************************)
from_snapshot_with_subordinates_ok(c) ==
  LET children == {x \in all_claims(c) :
                     \E b \in c.subordinate_bindings : b.child_token = x.token}
      tops == all_claims(c) \ children
      Before(child) == [c EXCEPT !.claims = tops,
                          !.subordinate_claims = {y \in children : y.token < child.token}]
  IN /\ BindingsValid(c)
     /\ \A x, y \in all_claims(c) : x # y => x.token # y.token
     /\ \A x, y \in tops : x # y => ~ScopesOverlap(x.paths, y.paths)
     /\ \A child \in children :
          \E b \in c.subordinate_bindings, parent \in tops :
            /\ b.child_token = child.token
            /\ b.parent_token = parent.token
            /\ validate_subordinate_scope(Before(child), parent, child.agent_id, child.paths)
            /\ child.agent_id = b.worker_id
            /\ child.paths = b.paths

-----------------------------------------------------------------------------
(* The specification of the coordinator on its own.                         *)

Init == inner = EmptyInner

ClaimPaths(agent, ps) ==
  /\ IsNormalized(ps)
  /\ TokenAvailable(inner)
  /\ IF insert_claim_ok(inner, ps)
       THEN inner' = claim_paths(inner, agent, ps)
       ELSE inner' = BurnToken(inner)

ClaimSubordinatePaths(parent, worker, ps, digest) ==
  /\ claim_subordinate_paths_ok(inner, parent, worker, ps, digest)
  /\ inner' = claim_subordinate_paths(inner, parent, worker, ps, digest)

Release(token) ==
  /\ release_ok(inner, token)
  /\ inner' = release(inner, token)

ReleaseByAgent(agent) ==
  /\ release_by_agent_ok(inner, agent)
  /\ inner' = release_by_agent(inner, agent)

Next ==
  \/ \E agent \in Agents, ps \in SUBSET Paths : ClaimPaths(agent, ps)
  \/ \E parent \in inner.claims, worker \in Agents, ps \in SUBSET Paths, digest \in Digests :
       ClaimSubordinatePaths(parent, worker, ps, digest)
  \/ \E token \in Tokens : Release(token)
  \/ \E agent \in Agents : ReleaseByAgent(agent)

Spec == Init /\ [][Next]_vars

-----------------------------------------------------------------------------
(* Properties.                                                              *)

\* The coordinator's state has the types of struct Inner.
TypeOK == inner \in Inner

\* claim_paths: two live top-level claims never share a path or nest, even when
\* they have the same owner.
ClaimsExclusive ==
  \A x, y \in inner.claims : x # y => ~ScopesOverlap(x.paths, y.paths)

\* The live parent claim and the frozen binding of a subordinate claim.
ParentOf(c, child, parent, b) ==
  /\ b.child_token = child.token
  /\ b.parent_token = parent.token
  /\ b.worker_id = child.agent_id
  /\ b.paths = child.paths

\* release, release_by_agent: as long as a Worker holds a subordinate claim, the
\* claim it was carved from is live, belongs to somebody else and covers it.
SubordinatesContained ==
  \A child \in inner.subordinate_claims :
    \E parent \in inner.claims, b \in inner.subordinate_bindings :
      /\ ParentOf(inner, child, parent, b)
      /\ parent.agent_id # child.agent_id
      /\ \A p \in child.paths : \E scope \in parent.paths : starts_with(p, scope)

\* can_write: two agents are never both allowed to write overlapping paths, in
\* whatever order claims, subdivisions and releases happened.
WriteExclusion ==
  \A a, b \in Agents, p, q \in Paths :
    (a # b /\ paths_overlap(p, q)) => ~(can_write(inner, a, p) /\ can_write(inner, b, q))

\* claim_subordinate_paths: a frozen reservation is consumed at most once in the
\* life of the coordinator, also after its claim was released.
ReservationConsumedOnce ==
  \A x, y \in inner.subordinate_bindings :
    (/\ x.parent_token = y.parent_token
     /\ x.source_digest = y.source_digest
     /\ x.worker_id = y.worker_id) => x = y

\* Write authority over path moves between two agents in one step only along a
\* binding: from the parent to the Worker it admits, or back when that Worker ends.
HandoffAlongBinding(from, to, path) ==
  \E b \in inner'.subordinate_bindings :
    /\ \E scope \in b.paths : path_is_covered_by_claim(path, scope)
    /\ \E parent \in inner.claims \cap inner'.claims :
         /\ parent.token = b.parent_token
         /\ \/ from = parent.agent_id /\ to = b.worker_id
            \/ from = b.worker_id /\ to = parent.agent_id
=============================================================================
