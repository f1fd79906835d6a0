--------------------------- MODULE ExternalEffect ---------------------------
(***************************************************************************)
(* execute_external_effect_exactly_once (src/publication.rs): an effect on *)
(* a remote service (a pull request, an issue, a comment, a pushed ref) is *)
(* driven through the phases of the effect log.                            *)
(*                                                                         *)
(* A call holds the log's store lock from open to return, so calls follow  *)
(* one another; what runs beside them is the service.  A request may be    *)
(* applied late or never, its answer may be lost, objects may be edited or *)
(* deleted by people, a copy of a marker may appear, and a call may end    *)
(* anywhere (Abort: a crash, an error, or one of the code's refusals).     *)
(***************************************************************************)
EXTENDS EffectWal

CONSTANTS
  Payloads,     \* exact target and payload of a request
  None,
  MaxObjects    \* bound: objects that ever carry a marker

VARIABLES
  wal,             \* the durable log, EmptyWal before it is created
  session,         \* the call in progress: [pc, effect, payload, object], or None
  inflight,        \* requests sent and neither applied nor lost
  remote,          \* objects on the service: [id, effect, payload, ours]
  created,         \* auxiliary: every object that ever existed
  invoked,         \* auxiliary: requests ever sent, per effect
  source_current,  \* whether the source the request was built from is unchanged
  results          \* auxiliary: [effect, payload, object] of every call that returned Ok

effectVars == <<wal, session, inflight, remote, created, invoked, source_current, results>>
service == <<inflight, remote, created, invoked, source_current>>

Request == [effect : Effects, payload : Payloads]

PayloadOf(effect) == LatestEvent(wal, effect).data.payload
ReceiptOf(effect) == LatestEvent(wal, effect).data.object

EffectInit ==
  /\ wal = EmptyWal
  /\ session = None
  /\ inflight = {} /\ remote = {} /\ created = {}
  /\ invoked = [e \in Effects |-> 0]
  /\ source_current = TRUE
  /\ results = {}

-----------------------------------------------------------------------------
(* The call.                                                                *)

At(pc) == session # None /\ session.pc = pc
Goto(pc) == session' = [session EXCEPT !.pc = pc]

Record(phase, object) ==
  /\ transition_ok(wal, session.effect, phase)
  /\ wal' = transition(wal, session.effect, phase, [payload |-> session.payload, object |-> object])

\* open_or_create_planned: the log is opened, or created by its first planned event.
Open(effect, payload) ==
  /\ session = None
  /\ session' = [pc |-> "opened", effect |-> effect, payload |-> payload, object |-> None]
  /\ UNCHANGED <<wal, service, results>>

Plan ==
  /\ At("opened")
  /\ wal.phases[session.effect] = NoPhase
  /\ Record("Planned", None)
  /\ UNCHANGED <<session, service, results>>

\* Mutant of SameContract: only the effect id is compared.
SameContract_IdOnly == session.effect \in Effects

\* same_external_effect_contract between the durable request and this one.
SameContract == PayloadOf(session.effect) = session.payload

\* The match on the phase that the log has reached.
Dispatch ==
  LET phase == wal.phases[session.effect]
  IN /\ At("opened")
     /\ phase # NoPhase
     /\ SameContract
     /\ session' =
          CASE phase = "Planned" -> [session EXCEPT !.pc = "preflight"]
            [] phase = "Started" -> [session EXCEPT !.pc = "reconcile"]
            [] phase = "Observed" -> [session EXCEPT !.pc = "complete",
                                        !.object = ReceiptOf(session.effect)]
            [] phase = "Completed" -> [session EXCEPT !.pc = "return",
                                         !.object = ReceiptOf(session.effect)]
     /\ UNCHANGED <<wal, service, results>>

\* preflight_before_start, before and after the lookup.
Preflight(from, to) ==
  /\ At(from)
  /\ source_current
  /\ Goto(to)
  /\ UNCHANGED <<wal, service, results>>

Matches(effect) == {o \in remote : o.effect = effect}

\* A planned effect must have no marker on the service yet.
LookupPlanned ==
  /\ At("lookup")
  /\ Matches(session.effect) = {}
  /\ Goto("recheck")
  /\ UNCHANGED <<wal, service, results>>

Start ==
  /\ At("start")
  /\ Record("Started", None)
  /\ Goto("invoke")
  /\ UNCHANGED <<service, results>>

Invoke ==
  /\ At("invoke")
  /\ inflight' = inflight \cup {[effect |-> session.effect, payload |-> session.payload]}
  /\ invoked' = [invoked EXCEPT ![session.effect] = @ + 1]
  /\ Goto("waiting")
  /\ UNCHANGED <<wal, remote, created, source_current, results>>

\* verify: the service still shows exactly this object.
verify(object) == object \in remote

\* The answer arrives and its receipt is verified.
Answered ==
  /\ At("waiting")
  /\ \E o \in Matches(session.effect) :
       /\ o.ours /\ verify(o)
       /\ session' = [session EXCEPT !.pc = "observe", !.object = o]
  /\ UNCHANGED <<wal, service, results>>

\* The call failed or lost its answer: look for the effect instead of retrying.
InvokeFailed ==
  /\ At("waiting")
  /\ Goto("reconcile")
  /\ UNCHANGED <<wal, service, results>>

\* Mutant of Reconcile: when nothing is found the request is sent again.
Reconcile_Retries ==
  /\ At("reconcile")
  /\ IF Matches(session.effect) = {} THEN Goto("invoke")
     ELSE \E o \in Matches(session.effect) :
            session' = [session EXCEPT !.pc = "observe", !.object = o]
  /\ UNCHANGED <<wal, service, results>>

\* reconcile_started_external_effect: exactly one match, verified.
Reconcile ==
  /\ At("reconcile")
  /\ \E o \in Matches(session.effect) :
       /\ Matches(session.effect) = {o} /\ verify(o)
       /\ session' = [session EXCEPT !.pc = "observe", !.object = o]
  /\ UNCHANGED <<wal, service, results>>

Observe ==
  /\ At("observe")
  /\ Record("Observed", session.object)
  /\ Goto("complete")
  /\ UNCHANGED <<service, results>>

\* The observed object is verified again, then recorded as completed.
Complete ==
  /\ At("complete")
  /\ verify(session.object)
  /\ Record("Completed", session.object)
  /\ results' = results \cup {[effect |-> session.effect, payload |-> session.payload,
                               object |-> session.object]}
  /\ session' = None
  /\ UNCHANGED service

\* A completed effect: the durable receipt is verified and returned.
ReturnCompleted ==
  /\ At("return")
  /\ verify(session.object)
  /\ results' = results \cup {[effect |-> session.effect, payload |-> session.payload,
                               object |-> session.object]}
  /\ session' = None
  /\ UNCHANGED <<wal, service>>

Abort ==
  /\ session # None
  /\ session' = None
  /\ UNCHANGED <<wal, service, results>>

-----------------------------------------------------------------------------
(* The service and the people who use it (external).                        *)

NewObject(effect, payload, ours) ==
  [id |-> Cardinality(created) + 1, effect |-> effect, payload |-> payload, ours |-> ours]

ServiceApplies(request) ==
  LET o == NewObject(request.effect, request.payload, TRUE)
  IN /\ Cardinality(created) < MaxObjects
     /\ inflight' = inflight \ {request}
     /\ remote' = remote \cup {o}
     /\ created' = created \cup {o}
     /\ UNCHANGED <<wal, session, invoked, source_current, results>>

ServiceLoses(request) ==
  /\ inflight' = inflight \ {request}
  /\ UNCHANGED <<wal, session, remote, created, invoked, source_current, results>>

MarkerCopied(effect, payload) ==
  LET o == NewObject(effect, payload, FALSE)
  IN /\ Cardinality(created) < MaxObjects
     /\ remote' = remote \cup {o}
     /\ created' = created \cup {o}
     /\ UNCHANGED <<wal, session, inflight, invoked, source_current, results>>

ObjectRemoved(o) ==
  /\ remote' = remote \ {o}
  /\ UNCHANGED <<wal, session, inflight, created, invoked, source_current, results>>

SourceChanges ==
  /\ source_current
  /\ source_current' = FALSE
  /\ UNCHANGED <<wal, session, inflight, remote, created, invoked, results>>

CallNext ==
  \/ \E request \in Request : Open(request.effect, request.payload)
  \/ Plan \/ Dispatch
  \/ Preflight("preflight", "lookup") \/ LookupPlanned \/ Preflight("recheck", "start")
  \/ Start \/ Invoke \/ Answered \/ InvokeFailed \/ Reconcile
  \/ Observe \/ Complete \/ ReturnCompleted \/ Abort

ServiceNext ==
  \/ \E request \in inflight : ServiceApplies(request) \/ ServiceLoses(request)
  \/ \E request \in Request : MarkerCopied(request.effect, request.payload)
  \/ \E o \in remote : ObjectRemoved(o)
  \/ SourceChanges

EffectNext == CallNext \/ ServiceNext

EffectSpec == EffectInit /\ [][EffectNext]_effectVars

-----------------------------------------------------------------------------
(* Properties.                                                              *)

AfterStart(phase) == phase \in {"Started", "Observed", "Completed"}

\* "blind retry is forbidden": whatever crashes, lost answers, repeated and changed
\* calls happen, the service is asked at most once to perform an effect.
AskedAtMostOnce == \A e \in Effects : invoked[e] <= 1

\* Write-ahead: the service is never asked before the log durably says Started.
StartedBeforeAsked == \A e \in Effects : invoked[e] > 0 => AfterStart(wal.phases[e])

\* At most one object of an effect was ever created by this program.
NoDuplicateObjects ==
  \A o, q \in created : (o.ours /\ q.ours /\ o.effect = q.effect) => o = q

\* A call that returns Ok never speaks about another request than the planned one, and
\* all calls for an effect that return Ok return the same object.
ResultsAgree ==
  \A r, s \in results : r.effect = s.effect => r = s

=============================================================================
