------------------------ MODULE ExternalEffectProofs ------------------------
(***************************************************************************)
(* For every set of effects and payloads and every bound: the service is   *)
(* asked at most once to perform an effect, never before the log says      *)
(* Started, this program never creates two objects for one effect, and all *)
(* calls that return Ok agree.                                             *)
(*                                                                         *)
(* None of them is inductive.  What carries the first two is where a       *)
(* call stands: between the lookup and the durable start the log says      *)
(* Planned and nothing was sent; between the start and the request the log *)
(* says Started and still nothing was sent.  Every other way into Started  *)
(* leads to reconciliation, which never sends.  The third follows from the *)
(* requests: one that is still travelling has no object yet.  The fourth   *)
(* follows from the newest event of the effect: a call past the comparison *)
(* of the contracts carries its payload, one with a receipt its object.    *)
(***************************************************************************)
EXTENDS ExternalEffect, TLAPS

BeforeStart == {"preflight", "lookup", "recheck", "start"}
Pcs == BeforeStart \cup {"opened", "invoke", "waiting", "reconcile", "observe", "complete", "return"}

Phases == [Effects -> EffectPhase \cup {NoPhase}]

\* A call in progress: a record of the four fields that Open creates.
IsSession(s) ==
  /\ s = [pc |-> s.pc, effect |-> s.effect, payload |-> s.payload, object |-> s.object]
  /\ s.pc \in Pcs /\ s.effect \in Effects /\ s.payload \in Payloads

\* The parts of the state the argument is about.
CallTypeOK ==
  /\ wal.phases \in Phases
  /\ invoked \in [Effects -> Nat]
  /\ inflight \subseteq Request
  /\ session # None => IsSession(session)

\* Where a call stands tells what the log says and that nothing was sent.
Consistent(s) ==
  /\ s.pc \in BeforeStart => wal.phases[s.effect] = "Planned" /\ invoked[s.effect] = 0
  /\ s.pc = "invoke" => wal.phases[s.effect] = "Started" /\ invoked[s.effect] = 0

SessionFollowsLog == session # None => Consistent(session)

\* A travelling request was sent, is the only one of its effect, and has no object.
RequestsFresh ==
  /\ \A r \in inflight : invoked[r.effect] > 0
  /\ \A r, s \in inflight : r.effect = s.effect => r = s
  /\ \A r \in inflight : \A o \in created : o.ours => o.effect # r.effect

\* An object of ours answers a request.
ObjectsAsked == \A o \in created : o.ours => o.effect \in Effects /\ invoked[o.effect] > 0

AskInv == StartedBeforeAsked /\ AskedAtMostOnce
ObjectInv == RequestsFresh /\ ObjectsAsked /\ NoDuplicateObjects

\* The inductive invariant.
EffectInv == CallTypeOK /\ SessionFollowsLog /\ AskInv /\ ObjectInv

-----------------------------------------------------------------------------
(* What the steps of a call do to the log and to the session.               *)

\* A transition moves one phase and leaves the others alone.
LEMMA TransitionMoves ==
  ASSUME NEW w, w.phases \in Phases, NEW e \in Effects, NEW phase \in EffectPhase, NEW data
  PROVE  /\ transition(w, e, phase, data).phases \in Phases
         /\ transition(w, e, phase, data).phases[e] = phase
         /\ \A f \in Effects : f # e => transition(w, e, phase, data).phases[f] = w.phases[f]
  BY DEF transition, Phases

\* A call's log write moves its own effect along follows, and nothing else.
LEMMA RecordMoves ==
  ASSUME CallTypeOK, session # None,
         NEW phase \in EffectPhase, NEW object, Record(phase, object)
  PROVE  /\ wal'.phases \in Phases
         /\ wal'.phases[session.effect] = phase
         /\ \A f \in Effects : f # session.effect => wal'.phases[f] = wal.phases[f]
         /\ follows(phase, wal.phases[session.effect])
  <1> DEFINE data == [payload |-> session.payload, object |-> object]
  <1>1. wal' = transition(wal, session.effect, phase, data)
    BY DEF Record
  <1>2. session.effect \in Effects /\ wal.phases \in Phases
    BY DEF CallTypeOK, IsSession
  <1>3. follows(phase, wal.phases[session.effect])
    BY DEF Record, transition_ok
  <1> HIDE DEF data
  <1> QED
    BY <1>1, <1>2, <1>3, TransitionMoves

\* Moving a call to another place changes only the place.
LEMMA Moved ==
  ASSUME NEW s, IsSession(s), NEW pc \in Pcs, NEW t, t = [s EXCEPT !.pc = pc]
  PROVE  /\ IsSession(t) /\ t.pc = pc /\ t.effect = s.effect
         /\ t.payload = s.payload /\ t.object = s.object
  BY DEF IsSession

LEMMA EffectInitInv == EffectInit => EffectInv
  BY EffectAssumption
  DEF EffectInit, EmptyWal, EffectInv, CallTypeOK, Phases, SessionFollowsLog, AskInv,
      StartedBeforeAsked, AskedAtMostOnce, ObjectInv, RequestsFresh, ObjectsAsked,
      NoDuplicateObjects

\* The steps of a call that write no log and send nothing.
LEMMA QuietStep ==
  ASSUME EffectInv, wal' = wal, UNCHANGED service,
         session' # None => IsSession(session') /\ Consistent(session')
  PROVE  EffectInv'
  <1>1. CallTypeOK'
    BY DEF EffectInv, CallTypeOK, service
  <1>2. SessionFollowsLog'
    BY DEF SessionFollowsLog, Consistent, service
  <1>3. AskInv'
    BY DEF EffectInv, AskInv, StartedBeforeAsked, AskedAtMostOnce, service
  <1>4. ObjectInv'
    BY DEF EffectInv, ObjectInv, RequestsFresh, ObjectsAsked, NoDuplicateObjects, service
  <1> QED
    BY <1>1, <1>2, <1>3, <1>4 DEF EffectInv

\* The steps of a call that write the log: an effect that was asked for stays after its start.
LEMMA LogStep ==
  ASSUME EffectInv, session # None, UNCHANGED service,
         NEW phase \in EffectPhase, NEW object, Record(phase, object),
         session' # None => IsSession(session'),
         SessionFollowsLog'
  PROVE  EffectInv'
  <1>1. /\ wal'.phases \in Phases
        /\ wal'.phases[session.effect] = phase
        /\ \A f \in Effects : f # session.effect => wal'.phases[f] = wal.phases[f]
        /\ follows(phase, wal.phases[session.effect])
    BY RecordMoves DEF EffectInv
  <1>2. CallTypeOK'
    BY <1>1 DEF EffectInv, CallTypeOK, service
  <1>3. session.effect \in Effects
    BY DEF EffectInv, CallTypeOK, IsSession
  <1>4. AskInv'
    BY <1>1, <1>3, EffectAssumption
    DEF EffectInv, AskInv, StartedBeforeAsked, AskedAtMostOnce, AfterStart, follows, service
  <1>5. ObjectInv'
    BY DEF EffectInv, ObjectInv, RequestsFresh, ObjectsAsked, NoDuplicateObjects, service
  <1> QED
    BY <1>2, <1>4, <1>5 DEF EffectInv

-----------------------------------------------------------------------------
(* One lemma per action that does more than move quietly.                   *)

LEMMA OpenStep ==
  ASSUME EffectInv, NEW request \in Request, Open(request.effect, request.payload)
  PROVE  EffectInv'
  <1>1. IsSession(session') /\ session'.pc = "opened"
    BY DEF Open, Request, IsSession, Pcs
  <1>2. Consistent(session')
    BY <1>1 DEF Consistent, BeforeStart
  <1> QED
    BY <1>1, <1>2, QuietStep DEF Open

LEMMA PlanStep ==
  ASSUME EffectInv, Plan
  PROVE  EffectInv'
  <1>1. session # None /\ session' = session /\ session.pc = "opened"
    BY DEF Plan, At
  <1>2. SessionFollowsLog' /\ (session' # None => IsSession(session'))
    BY <1>1 DEF EffectInv, CallTypeOK, SessionFollowsLog, Consistent, BeforeStart
  <1> QED
    BY <1>1, <1>2, LogStep DEF Plan, EffectPhase

\* From Planned a call goes before the start: the log says Planned, so nothing was asked.
LEMMA DispatchStep ==
  ASSUME EffectInv, Dispatch
  PROVE  EffectInv'
  <1> DEFINE phase == wal.phases[session.effect]
  <1>1. session # None /\ IsSession(session) /\ phase \in EffectPhase
    BY DEF Dispatch, At, EffectInv, CallTypeOK, Phases, IsSession
  <1>2. phase = "Planned" => invoked[session.effect] = 0
    BY <1>1 DEF EffectInv, CallTypeOK, AskInv, StartedBeforeAsked, AfterStart, IsSession
  <1>3. /\ IsSession(session') /\ session'.effect = session.effect
        /\ session'.pc \in {"preflight", "reconcile", "complete", "return"}
        /\ session'.pc = "preflight" => phase = "Planned"
    <2>1. CASE phase = "Planned"
      BY <1>1, <2>1, Moved DEF Dispatch, Pcs, BeforeStart
    <2>2. CASE phase = "Started"
      BY <1>1, <2>2, Moved DEF Dispatch, Pcs
    <2>3. CASE phase = "Observed"
      <3>1. session' = [session EXCEPT !.pc = "complete", !.object = ReceiptOf(session.effect)]
        BY <2>3 DEF Dispatch
      <3>2. "complete" \in Pcs
        BY DEF Pcs
      <3>3. IsSession(session') /\ session'.pc = "complete" /\ session'.effect = session.effect
        BY <1>1, <3>1, <3>2 DEF IsSession
      <3> QED
        BY <3>3
    <2>4. CASE phase = "Completed"
      <3>1. session' = [session EXCEPT !.pc = "return", !.object = ReceiptOf(session.effect)]
        BY <2>4 DEF Dispatch
      <3>2. "return" \in Pcs
        BY DEF Pcs
      <3>3. IsSession(session') /\ session'.pc = "return" /\ session'.effect = session.effect
        BY <1>1, <3>1, <3>2 DEF IsSession
      <3> QED
        BY <3>3
    <2> QED
      BY <1>1, <2>1, <2>2, <2>3, <2>4 DEF EffectPhase
  <1>4. wal' = wal /\ UNCHANGED service
    BY DEF Dispatch
  <1>5. Consistent(session')
    BY <1>2, <1>3 DEF Consistent, BeforeStart
  <1> QED
    BY <1>3, <1>4, <1>5, QuietStep

LEMMA PreflightStep ==
  ASSUME EffectInv, NEW from \in BeforeStart, NEW to \in BeforeStart, Preflight(from, to)
  PROVE  EffectInv'
  <1>1. session # None /\ IsSession(session) /\ Consistent(session) /\ session.pc \in BeforeStart
    BY DEF Preflight, At, EffectInv, CallTypeOK, SessionFollowsLog
  <1>2. IsSession(session') /\ session'.pc = to /\ session'.effect = session.effect
    BY <1>1, Moved DEF Preflight, Goto, Pcs
  <1>3. Consistent(session')
    BY <1>1, <1>2 DEF Consistent, BeforeStart
  <1> QED
    BY <1>2, <1>3, QuietStep DEF Preflight

LEMMA LookupStep ==
  ASSUME EffectInv, LookupPlanned
  PROVE  EffectInv'
  <1>1. session # None /\ IsSession(session) /\ Consistent(session) /\ session.pc = "lookup"
    BY DEF LookupPlanned, At, EffectInv, CallTypeOK, SessionFollowsLog
  <1>2. IsSession(session') /\ session'.pc = "recheck" /\ session'.effect = session.effect
    BY <1>1, Moved DEF LookupPlanned, Goto, Pcs, BeforeStart
  <1>3. Consistent(session')
    BY <1>1, <1>2 DEF Consistent, BeforeStart
  <1> QED
    BY <1>2, <1>3, QuietStep DEF LookupPlanned

\* The start is durable before the call may send.
LEMMA StartStep ==
  ASSUME EffectInv, Start
  PROVE  EffectInv'
  <1>1. session # None /\ IsSession(session) /\ Consistent(session) /\ session.pc = "start"
    BY DEF Start, At, EffectInv, CallTypeOK, SessionFollowsLog
  <1>2. IsSession(session') /\ session'.pc = "invoke" /\ session'.effect = session.effect
    BY <1>1, Moved DEF Start, Goto, Pcs
  <1>3. wal'.phases[session.effect] = "Started"
    BY <1>1, RecordMoves DEF Start, EffectInv, EffectPhase
  <1>4. invoked' = invoked
    BY DEF Start, service
  <1>5. SessionFollowsLog'
    BY <1>1, <1>2, <1>3, <1>4 DEF SessionFollowsLog, Consistent, BeforeStart
  <1> QED
    BY <1>1, <1>2, <1>5, LogStep DEF Start, EffectPhase

\* The one step that sends: nothing of this effect was sent, travels or exists.
LEMMA InvokeStep ==
  ASSUME EffectInv, Invoke
  PROVE  EffectInv'
  <1> DEFINE e == session.effect
             sent == [effect |-> session.effect, payload |-> session.payload]
  <1>1. session # None /\ IsSession(session) /\ Consistent(session) /\ session.pc = "invoke"
    BY DEF Invoke, At, EffectInv, CallTypeOK, SessionFollowsLog
  <1>2. IsSession(session') /\ session'.pc = "waiting"
    BY <1>1, Moved DEF Invoke, Goto, Pcs
  <1>3. e \in Effects /\ invoked \in [Effects -> Nat]
    BY <1>1 DEF EffectInv, CallTypeOK, IsSession
  <1>4. wal.phases[e] = "Started" /\ invoked[e] = 0
    BY <1>1 DEF Consistent
  <1>5. /\ wal' = wal /\ created' = created /\ inflight' = inflight \cup {sent}
        /\ invoked' = [invoked EXCEPT ![e] = @ + 1]
    BY DEF Invoke
  <1>6. sent \in Request /\ sent.effect = e
    BY <1>1 DEF Request, IsSession
  <1> HIDE DEF sent, e
  <1>7. invoked' \in [Effects -> Nat] /\ invoked'[e] = 1
    BY <1>3, <1>4, <1>5
  <1>8. \A f \in Effects : f # e => invoked'[f] = invoked[f]
    BY <1>3, <1>5
  <1>9. CallTypeOK'
    BY <1>2, <1>5, <1>6, <1>7 DEF EffectInv, CallTypeOK
  <1>10. SessionFollowsLog'
    BY <1>2 DEF SessionFollowsLog, Consistent, BeforeStart
  <1>11. AskInv'
    BY <1>4, <1>5, <1>7, <1>8
    DEF EffectInv, AskInv, StartedBeforeAsked, AskedAtMostOnce, AfterStart
  <1>12. RequestsFresh'
    <2>1. \A r \in inflight : r.effect \in Effects /\ r.effect # e
      BY <1>4 DEF EffectInv, ObjectInv, RequestsFresh, CallTypeOK, Request
    <2>2. \A o \in created : o.ours => o.effect # e
      BY <1>4 DEF EffectInv, ObjectInv, ObjectsAsked
    <2> QED
      BY <1>5, <1>6, <1>7, <1>8, <2>1, <2>2 DEF EffectInv, ObjectInv, RequestsFresh
  <1>13. ObjectsAsked'
    BY <1>3, <1>5, <1>7, <1>8 DEF EffectInv, ObjectInv, ObjectsAsked
  <1>14. NoDuplicateObjects'
    BY <1>5 DEF EffectInv, ObjectInv, NoDuplicateObjects
  <1> QED
    BY <1>9, <1>10, <1>11, <1>12, <1>13, <1>14 DEF EffectInv, ObjectInv

LEMMA FoundStep ==
  ASSUME EffectInv, Answered \/ Reconcile
  PROVE  EffectInv'
  <1>1. session # None /\ IsSession(session)
    BY DEF Answered, Reconcile, At, EffectInv, CallTypeOK
  <1>2. PICK o : session' = [session EXCEPT !.pc = "observe", !.object = o]
    BY DEF Answered, Reconcile
  <1>3. IsSession(session') /\ session'.pc = "observe"
    <2>1. "observe" \in Pcs
      BY DEF Pcs
    <2> QED
      BY <1>1, <1>2, <2>1 DEF IsSession
  <1>4. Consistent(session')
    BY <1>3 DEF Consistent, BeforeStart
  <1> QED
    BY <1>3, <1>4, QuietStep DEF Answered, Reconcile

LEMMA InvokeFailedStep ==
  ASSUME EffectInv, InvokeFailed
  PROVE  EffectInv'
  <1>1. session # None /\ IsSession(session)
    BY DEF InvokeFailed, At, EffectInv, CallTypeOK
  <1>2. IsSession(session') /\ session'.pc = "reconcile"
    BY <1>1, Moved DEF InvokeFailed, Goto, Pcs
  <1>3. Consistent(session')
    BY <1>2 DEF Consistent, BeforeStart
  <1> QED
    BY <1>2, <1>3, QuietStep DEF InvokeFailed

LEMMA ObserveStep ==
  ASSUME EffectInv, Observe
  PROVE  EffectInv'
  <1>1. session # None /\ IsSession(session)
    BY DEF Observe, At, EffectInv, CallTypeOK
  <1>2. IsSession(session') /\ session'.pc = "complete"
    BY <1>1, Moved DEF Observe, Goto, Pcs
  <1>3. SessionFollowsLog'
    BY <1>2 DEF SessionFollowsLog, Consistent, BeforeStart
  <1> QED
    BY <1>1, <1>2, <1>3, LogStep DEF Observe, EffectPhase

LEMMA CompleteStep ==
  ASSUME EffectInv, Complete
  PROVE  EffectInv'
  <1>1. session # None /\ session' = None
    BY DEF Complete, At
  <1>2. SessionFollowsLog'
    BY <1>1 DEF SessionFollowsLog
  <1> QED
    BY <1>1, <1>2, LogStep DEF Complete, EffectPhase

LEMMA EndStep ==
  ASSUME EffectInv, ReturnCompleted \/ Abort
  PROVE  EffectInv'
  BY QuietStep DEF ReturnCompleted, Abort

\* A step of the call.
LEMMA CallStep ==
  ASSUME EffectInv, CallNext
  PROVE  EffectInv'
  <1>1. ASSUME Preflight("preflight", "lookup") PROVE EffectInv'
    BY <1>1, PreflightStep DEF BeforeStart
  <1>2. ASSUME Preflight("recheck", "start") PROVE EffectInv'
    BY <1>2, PreflightStep DEF BeforeStart
  <1> QED
    BY <1>1, <1>2, OpenStep, PlanStep, DispatchStep, LookupStep, StartStep, InvokeStep, FoundStep,
       InvokeFailedStep, ObserveStep, CompleteStep, EndStep
    DEF CallNext

-----------------------------------------------------------------------------
(* The service.                                                             *)

\* A service step leaves the call, the log and the count of requests alone.
LEMMA ServiceFrame ==
  ASSUME EffectInv, UNCHANGED <<wal, session, invoked>>, inflight' \subseteq inflight, ObjectInv'
  PROVE  EffectInv'
  <1>1. CallTypeOK'
    BY DEF EffectInv, CallTypeOK
  <1>2. SessionFollowsLog'
    BY DEF EffectInv, SessionFollowsLog, Consistent
  <1>3. AskInv'
    BY DEF EffectInv, AskInv, StartedBeforeAsked, AskedAtMostOnce
  <1> QED
    BY <1>1, <1>2, <1>3 DEF EffectInv

\* The object of a request is the first of its effect, and the request is gone.
LEMMA AppliesStep ==
  ASSUME EffectInv, NEW request \in inflight, ServiceApplies(request)
  PROVE  EffectInv'
  <1> DEFINE o == NewObject(request.effect, request.payload, TRUE)
  <1>1. o.effect = request.effect /\ o.ours
    BY DEF NewObject
  <1>2. /\ created' = created \cup {o} /\ inflight' = inflight \ {request}
        /\ UNCHANGED <<wal, session, invoked>>
    BY DEF ServiceApplies
  <1> HIDE DEF o
  <1>3. request.effect \in Effects /\ invoked[request.effect] > 0
    BY DEF EffectInv, CallTypeOK, Request, ObjectInv, RequestsFresh
  <1>4. \A q \in created : q.ours => q.effect # request.effect
    BY DEF EffectInv, ObjectInv, RequestsFresh
  <1>5. RequestsFresh'
    BY <1>1, <1>2 DEF EffectInv, ObjectInv, RequestsFresh
  <1>6. ObjectsAsked'
    BY <1>1, <1>2, <1>3 DEF EffectInv, ObjectInv, ObjectsAsked
  <1>7. NoDuplicateObjects'
    BY <1>1, <1>2, <1>4 DEF EffectInv, ObjectInv, NoDuplicateObjects
  <1> QED
    BY <1>2, <1>5, <1>6, <1>7, ServiceFrame DEF ObjectInv

LEMMA CopyStep ==
  ASSUME EffectInv, NEW request \in Request, MarkerCopied(request.effect, request.payload)
  PROVE  EffectInv'
  <1> DEFINE o == NewObject(request.effect, request.payload, FALSE)
  <1>1. ~ o.ours
    BY DEF NewObject
  <1>2. /\ created' = created \cup {o} /\ inflight' = inflight
        /\ UNCHANGED <<wal, session, invoked>>
    BY DEF MarkerCopied
  <1> HIDE DEF o
  <1>3. ObjectInv'
    BY <1>1, <1>2 DEF EffectInv, ObjectInv, RequestsFresh, ObjectsAsked, NoDuplicateObjects
  <1> QED
    BY <1>2, <1>3, ServiceFrame

LEMMA ServiceStep ==
  ASSUME EffectInv, ServiceNext
  PROVE  EffectInv'
  <1>1. ASSUME NEW request \in inflight, ServiceLoses(request) PROVE EffectInv'
    <2>1. ObjectInv'
      BY <1>1 DEF ServiceLoses, EffectInv, ObjectInv, RequestsFresh, ObjectsAsked, NoDuplicateObjects
    <2> QED
      BY <1>1, <2>1, ServiceFrame DEF ServiceLoses
  <1>2. ASSUME SourceChanges \/ \E o \in remote : ObjectRemoved(o) PROVE EffectInv'
    <2>1. ObjectInv'
      BY <1>2
      DEF SourceChanges, ObjectRemoved, EffectInv, ObjectInv, RequestsFresh, ObjectsAsked,
          NoDuplicateObjects
    <2> QED
      BY <1>2, <2>1, ServiceFrame DEF SourceChanges, ObjectRemoved
  <1> QED
    BY <1>1, <1>2, AppliesStep, CopyStep DEF ServiceNext

-----------------------------------------------------------------------------
(* What the calls return.  The newest event of an effect holds the request  *)
(* that was planned and, from Observed on, the receipt; a transition adds   *)
(* an event of its own effect, so what it says of the others stands.        *)

\* Event k is the newest of the effect.
IsLatest(w, effect, k) ==
  /\ k \in 1..Len(w.events)
  /\ w.events[k].effect_id = effect
  /\ \A m \in 1..Len(w.events) : w.events[m].effect_id = effect => m <= k

\* Every effect in the log has a newest event.
LogInv ==
  /\ \E S : wal.events \in Seq(S)
  /\ \A e \in Effects : wal.phases[e] # NoPhase => \E k : IsLatest(wal, e, k)

\* Past the comparison of the contracts a call speaks about the planned request, and where it
\* has a receipt to confirm, it is the durable one.
SessionMatchesLog(s) ==
  /\ s.pc # "opened" => /\ wal.phases[s.effect] # NoPhase
                        /\ s.payload = PayloadOf(s.effect)
  /\ s.pc = "complete" => wal.phases[s.effect] = "Observed" /\ s.object = ReceiptOf(s.effect)
  /\ s.pc = "return" => wal.phases[s.effect] = "Completed" /\ s.object = ReceiptOf(s.effect)

\* A result is what the log says of its completed effect.
ResultsFollowLog ==
  \A r \in results :
    /\ r.effect \in Effects /\ wal.phases[r.effect] = "Completed"
    /\ r = [effect |-> r.effect, payload |-> PayloadOf(r.effect), object |-> ReceiptOf(r.effect)]

ResultInv ==
  /\ LogInv
  /\ session # None => SessionMatchesLog(session)
  /\ ResultsFollowLog

LEMMA LatestIsLatest ==
  ASSUME NEW w, NEW S, w.events \in Seq(S), NEW effect, NEW k, IsLatest(w, effect, k)
  PROVE  LatestEvent(w, effect) = w.events[k]
<1> DEFINE mine == {n \in 1..Len(w.events) : w.events[n].effect_id = effect}
           c == CHOOSE n \in mine : \A m \in mine : m <= n
<1>1. k \in mine /\ \A m \in mine : m <= k
  BY DEF IsLatest
<1>2. c \in mine /\ \A m \in mine : m <= c
  BY <1>1
<1>3. \A n \in mine : n \in Nat
  OBVIOUS
<1>4. c = k
  <2> HIDE DEF c, mine
  <2> QED
    BY <1>1, <1>2, <1>3
<1> QED
  BY <1>4 DEF LatestEvent

\* A log write is the newest event of its effect and leaves the newest of the others.
LEMMA TransitionLatest ==
  ASSUME NEW w, NEW S, w.events \in Seq(S), NEW e, NEW phase, NEW data
  PROVE  /\ \E T : transition(w, e, phase, data).events \in Seq(T)
         /\ \E k : IsLatest(transition(w, e, phase, data), e, k)
         /\ LatestEvent(transition(w, e, phase, data), e).data = data
         /\ \A f : \A k : f # e /\ IsLatest(w, f, k) =>
              /\ IsLatest(transition(w, e, phase, data), f, k)
              /\ LatestEvent(transition(w, e, phase, data), f) = LatestEvent(w, f)
<1> DEFINE event == [effect_id |-> e, phase |-> phase, data |-> data]
           v == transition(w, e, phase, data)
           n == Len(w.events) + 1
<1>1. v.events = Append(w.events, event)
  BY DEF transition
<1>2. event.effect_id = e /\ event.data = data
  OBVIOUS
<1> HIDE DEF event, v
<1>3. w.events \in Seq(S \cup {event})
  OBVIOUS
<1>4. /\ v.events \in Seq(S \cup {event}) /\ Len(v.events) = n /\ v.events[n] = event
      /\ Len(w.events) \in Nat
      /\ \A k \in 1..Len(w.events) : v.events[k] = w.events[k]
  BY <1>1, <1>3
<1>5. IsLatest(v, e, n)
  BY <1>2, <1>4 DEF IsLatest
<1>6. LatestEvent(v, e).data = data
  BY <1>2, <1>4, <1>5, LatestIsLatest
<1>7. ASSUME NEW f, NEW k, f # e, IsLatest(w, f, k)
      PROVE  IsLatest(v, f, k) /\ LatestEvent(v, f) = LatestEvent(w, f)
  <2>1. k \in 1..Len(w.events) /\ w.events[k].effect_id = f
        /\ \A m \in 1..Len(w.events) : w.events[m].effect_id = f => m <= k
    BY <1>7 DEF IsLatest
  <2>2. \A m \in 1..n : m = n \/ m \in 1..Len(w.events)
    BY <1>4
  <2>3. \A m \in 1..n : v.events[m].effect_id = f => m <= k
    BY <1>2, <1>4, <1>7, <2>1, <2>2
  <2>4. k \in 1..n /\ v.events[k].effect_id = f
    BY <1>4, <2>1
  <2>5. IsLatest(v, f, k)
    BY <1>4, <2>3, <2>4 DEF IsLatest
  <2>6. LatestEvent(v, f) = v.events[k] /\ LatestEvent(w, f) = w.events[k]
    BY <1>4, <1>7, <2>5, LatestIsLatest
  <2> QED
    BY <1>4, <2>1, <2>5, <2>6
<1> QED
  BY <1>4, <1>5, <1>6, <1>7 DEF v

\* The steps of a call that write no log.
LEMMA QuietResults ==
  ASSUME ResultInv, wal' = wal,
         session' # None => SessionMatchesLog(session'),
         ResultsFollowLog'
  PROVE  ResultInv'
BY DEF ResultInv, LogInv, IsLatest, SessionMatchesLog, PayloadOf, ReceiptOf

LEMMA SameResults ==
  ASSUME ResultInv, wal' = wal, results' = results
  PROVE  ResultsFollowLog'
BY DEF ResultInv, ResultsFollowLog, PayloadOf, ReceiptOf

\* The steps of a call that write the log.
LEMMA LogResults ==
  ASSUME EffectInv, ResultInv, session # None,
         NEW phase \in EffectPhase, NEW object, Record(phase, object)
  PROVE  /\ LogInv'
         /\ wal'.phases[session.effect] = phase
         /\ LatestEvent(wal', session.effect).data.payload = session.payload
         /\ LatestEvent(wal', session.effect).data.object = object
         /\ results' = results => ResultsFollowLog'
         /\ follows(phase, wal.phases[session.effect])
         /\ \A r \in results : /\ r.effect \in Effects
                               /\ r.effect # session.effect
                               /\ wal'.phases[r.effect] = "Completed"
                               /\ r = [effect |-> r.effect,
                                       payload |-> LatestEvent(wal', r.effect).data.payload,
                                       object |-> LatestEvent(wal', r.effect).data.object]
<1> DEFINE e == session.effect
           data == [payload |-> session.payload, object |-> object]
<1>1. /\ wal'.phases \in Phases
      /\ wal'.phases[e] = phase
      /\ \A f \in Effects : f # e => wal'.phases[f] = wal.phases[f]
      /\ follows(phase, wal.phases[e])
      /\ e \in Effects
  BY RecordMoves DEF EffectInv, CallTypeOK, IsSession
<1>2. wal' = transition(wal, e, phase, data)
  BY DEF Record
<1>3. data.payload = session.payload /\ data.object = object
  OBVIOUS
<1> HIDE DEF data, e
<1>4. PICK S : wal.events \in Seq(S)
  BY DEF ResultInv, LogInv
<1>5. /\ \E T : wal'.events \in Seq(T)
      /\ \E k : IsLatest(wal', e, k)
      /\ LatestEvent(wal', e).data = data
      /\ \A f : \A k : f # e /\ IsLatest(wal, f, k) =>
           IsLatest(wal', f, k) /\ LatestEvent(wal', f) = LatestEvent(wal, f)
  BY <1>2, <1>4, TransitionLatest
<1>6. LogInv'
  <2>1. ASSUME NEW f \in Effects, wal'.phases[f] # NoPhase
        PROVE  \E k : IsLatest(wal', f, k)
    BY <1>1, <1>5, <2>1 DEF ResultInv, LogInv
  <2> QED
    BY <1>5, <2>1 DEF LogInv, IsLatest
<1>7. ASSUME NEW r \in results
      PROVE  /\ r.effect \in Effects /\ r.effect # e
             /\ wal'.phases[r.effect] = "Completed"
             /\ r = [effect |-> r.effect,
                     payload |-> LatestEvent(wal', r.effect).data.payload,
                     object |-> LatestEvent(wal', r.effect).data.object]
  <2>1. /\ r.effect \in Effects /\ wal.phases[r.effect] = "Completed"
        /\ r = [effect |-> r.effect,
                payload |-> LatestEvent(wal, r.effect).data.payload,
                object |-> LatestEvent(wal, r.effect).data.object]
    BY DEF ResultInv, ResultsFollowLog, PayloadOf, ReceiptOf
  <2>2. r.effect # e
    BY <1>1, <2>1, EffectAssumption DEF follows
  <2>3. PICK k : IsLatest(wal, r.effect, k)
    BY <2>1, EffectAssumption DEF ResultInv, LogInv
  <2>4. LatestEvent(wal', r.effect) = LatestEvent(wal, r.effect)
    BY <1>5, <2>2, <2>3
  <2> QED
    BY <1>1, <2>1, <2>2, <2>4
<1>8. results' = results => ResultsFollowLog'
  BY <1>7 DEF ResultsFollowLog, PayloadOf, ReceiptOf
<1> QED
  BY <1>1, <1>3, <1>5, <1>6, <1>7, <1>8 DEF PayloadOf, ReceiptOf, e

\* A call that only moves on past the comparison keeps what it speaks about.
LEMMA MoveResults ==
  ASSUME EffectInv, ResultInv, session # None, session.pc # "opened",
         wal' = wal, results' = results,
         session'.effect = session.effect, session'.payload = session.payload,
         session'.pc \notin {"complete", "return"}
  PROVE  ResultInv'
<1>1. SessionMatchesLog(session')
  BY DEF ResultInv, SessionMatchesLog
<1> QED
  BY <1>1, QuietResults, SameResults

\* Between the comparison and the receipt.
LEMMA WalkResults ==
  ASSUME EffectInv, ResultInv,
         \/ Preflight("preflight", "lookup") \/ LookupPlanned \/ Preflight("recheck", "start")
         \/ Invoke \/ InvokeFailed
  PROVE  ResultInv'
<1>1. session # None /\ IsSession(session) /\ session.pc # "opened"
  BY DEF Preflight, LookupPlanned, Invoke, InvokeFailed, At, EffectInv, CallTypeOK
<1>2. wal' = wal /\ results' = results
  BY DEF Preflight, LookupPlanned, Invoke, InvokeFailed
<1>3. PICK pc \in {"lookup", "recheck", "start", "waiting", "reconcile"} :
        session' = [session EXCEPT !.pc = pc]
  BY DEF Preflight, LookupPlanned, Invoke, InvokeFailed, Goto
<1>4. pc \in Pcs
  BY <1>3 DEF Pcs, BeforeStart
<1>5. session'.pc = pc /\ session'.effect = session.effect /\ session'.payload = session.payload
  BY <1>1, <1>3, <1>4, Moved
<1> QED
  BY <1>1, <1>2, <1>3, <1>5, MoveResults

LEMMA FoundResults ==
  ASSUME EffectInv, ResultInv, Answered \/ Reconcile
  PROVE  ResultInv'
<1>1. session # None /\ IsSession(session) /\ session.pc # "opened"
  BY DEF Answered, Reconcile, At, EffectInv, CallTypeOK
<1>2. wal' = wal /\ results' = results
  BY DEF Answered, Reconcile
<1>3. PICK o : session' = [session EXCEPT !.pc = "observe", !.object = o]
  BY DEF Answered, Reconcile
<1>4. session'.pc = "observe" /\ session'.effect = session.effect
      /\ session'.payload = session.payload
  BY <1>1, <1>3 DEF IsSession
<1> QED
  BY <1>1, <1>2, <1>4, MoveResults

LEMMA OpenResults ==
  ASSUME EffectInv, ResultInv, NEW request \in Request, Open(request.effect, request.payload)
  PROVE  ResultInv'
<1>1. session'.pc = "opened"
  BY DEF Open
<1>2. SessionMatchesLog(session')
  BY <1>1 DEF SessionMatchesLog
<1> QED
  BY <1>2, QuietResults, SameResults DEF Open

LEMMA PlanResults ==
  ASSUME EffectInv, ResultInv, Plan
  PROVE  ResultInv'
<1>1. session # None /\ session' = session /\ session.pc = "opened" /\ results' = results
      /\ Record("Planned", None)
  BY DEF Plan, At
<1>2. LogInv' /\ ResultsFollowLog'
  BY <1>1, LogResults DEF EffectPhase
<1> QED
  BY <1>1, <1>2 DEF ResultInv, SessionMatchesLog

\* same_external_effect_contract ties the call to the planned request, and the receipt it
\* goes on with is the durable one.
LEMMA DispatchResults ==
  ASSUME EffectInv, ResultInv, Dispatch
  PROVE  ResultInv'
<1> DEFINE phase == wal.phases[session.effect]
<1>1. /\ session # None /\ IsSession(session) /\ phase \in EffectPhase
      /\ wal' = wal /\ results' = results
      /\ session.payload = PayloadOf(session.effect)
      /\ phase # NoPhase
  BY DEF Dispatch, At, EffectInv, CallTypeOK, Phases, IsSession, SameContract
<1>2. CASE phase = "Planned" \/ phase = "Started"
  <2>1. PICK pc \in {"preflight", "reconcile"} : session' = [session EXCEPT !.pc = pc]
    BY <1>2 DEF Dispatch
  <2>2. pc \in Pcs
    BY DEF Pcs, BeforeStart
  <2>3. session'.pc = pc /\ session'.effect = session.effect /\ session'.payload = session.payload
    BY <1>1, <2>1, <2>2, Moved
  <2>4. SessionMatchesLog(session')
    BY <1>1, <2>3 DEF SessionMatchesLog
  <2> QED
    BY <1>1, <2>4, QuietResults, SameResults
<1>3. CASE phase = "Observed"
  <2>1. session' = [session EXCEPT !.pc = "complete", !.object = ReceiptOf(session.effect)]
    BY <1>3 DEF Dispatch
  <2>2. /\ session'.pc = "complete" /\ session'.effect = session.effect
        /\ session'.payload = session.payload /\ session'.object = ReceiptOf(session.effect)
    BY <1>1, <2>1 DEF IsSession
  <2>3. SessionMatchesLog(session')
    BY <1>1, <1>3, <2>2 DEF SessionMatchesLog
  <2> QED
    BY <1>1, <2>3, QuietResults, SameResults
<1>4. CASE phase = "Completed"
  <2>1. session' = [session EXCEPT !.pc = "return", !.object = ReceiptOf(session.effect)]
    BY <1>4 DEF Dispatch
  <2>2. /\ session'.pc = "return" /\ session'.effect = session.effect
        /\ session'.payload = session.payload /\ session'.object = ReceiptOf(session.effect)
    BY <1>1, <2>1 DEF IsSession
  <2>3. SessionMatchesLog(session')
    BY <1>1, <1>4, <2>2 DEF SessionMatchesLog
  <2> QED
    BY <1>1, <2>3, QuietResults, SameResults
<1> QED
  BY <1>1, <1>2, <1>3, <1>4 DEF EffectPhase

\* The log writes of a call that goes on.
LEMMA WriteResults ==
  ASSUME EffectInv, ResultInv, Start \/ Observe
  PROVE  ResultInv'
<1>1. session # None /\ IsSession(session) /\ results' = results
  BY DEF Start, Observe, At, EffectInv, CallTypeOK
<1>2. ASSUME NEW phase \in {"Started", "Observed"}, NEW object, Record(phase, object),
             NEW pc \in {"invoke", "complete"}, session' = [session EXCEPT !.pc = pc],
             pc = "complete" => phase = "Observed" /\ object = session.object
      PROVE  ResultInv'
  <2>1. pc \in Pcs /\ phase \in EffectPhase
    BY DEF Pcs, EffectPhase
  <2>2. /\ session'.pc = pc /\ session'.effect = session.effect
        /\ session'.payload = session.payload /\ session'.object = session.object
    BY <1>1, <1>2, <2>1, Moved
  <2>3. /\ LogInv' /\ ResultsFollowLog'
        /\ wal'.phases[session.effect] = phase
        /\ LatestEvent(wal', session.effect).data.payload = session.payload
        /\ LatestEvent(wal', session.effect).data.object = object
    BY <1>1, <1>2, <2>1, LogResults
  <2>4. SessionMatchesLog(session)'
    BY <1>2, <2>2, <2>3, EffectAssumption DEF SessionMatchesLog, PayloadOf, ReceiptOf
  <2> QED
    BY <2>3, <2>4 DEF ResultInv
<1>3. CASE Start
  BY <1>2, <1>3 DEF Start, Goto
<1>4. CASE Observe
  BY <1>2, <1>4 DEF Observe, Goto
<1> QED
  BY <1>3, <1>4

\* The result of the call that completes an effect is the event it writes.
LEMMA CompleteResults ==
  ASSUME EffectInv, ResultInv, Complete
  PROVE  ResultInv'
<1> DEFINE r == [effect |-> session.effect, payload |-> session.payload, object |-> session.object]
<1>1. /\ session # None /\ IsSession(session) /\ session' = None
      /\ Record("Completed", session.object) /\ results' = results \cup {r}
  BY DEF Complete, At, EffectInv, CallTypeOK
<1>2. /\ LogInv'
      /\ wal'.phases[session.effect] = "Completed"
      /\ LatestEvent(wal', session.effect).data.payload = session.payload
      /\ LatestEvent(wal', session.effect).data.object = session.object
      /\ \A q \in results : /\ q.effect \in Effects
                            /\ wal'.phases[q.effect] = "Completed"
                            /\ q = [effect |-> q.effect,
                                    payload |-> LatestEvent(wal', q.effect).data.payload,
                                    object |-> LatestEvent(wal', q.effect).data.object]
  BY <1>1, LogResults DEF EffectPhase
<1>3. session.effect \in Effects /\ r.effect = session.effect
  BY <1>1 DEF IsSession
<1>4. r = [effect |-> r.effect,
           payload |-> LatestEvent(wal', r.effect).data.payload,
           object |-> LatestEvent(wal', r.effect).data.object]
  BY <1>2, <1>3
<1> HIDE DEF r
<1>5. ResultsFollowLog'
  BY <1>1, <1>2, <1>3, <1>4 DEF ResultsFollowLog, PayloadOf, ReceiptOf
<1> QED
  BY <1>1, <1>2, <1>5 DEF ResultInv

LEMMA ReturnResults ==
  ASSUME EffectInv, ResultInv, ReturnCompleted
  PROVE  ResultInv'
<1> DEFINE r == [effect |-> session.effect, payload |-> session.payload, object |-> session.object]
<1>1. /\ session # None /\ IsSession(session) /\ session.pc = "return" /\ session' = None
      /\ wal' = wal /\ results' = results \cup {r}
  BY DEF ReturnCompleted, At, EffectInv, CallTypeOK
<1>2. /\ session.effect \in Effects /\ r.effect = session.effect
      /\ wal.phases[session.effect] = "Completed"
      /\ r = [effect |-> r.effect, payload |-> PayloadOf(r.effect), object |-> ReceiptOf(r.effect)]
  BY <1>1 DEF IsSession, ResultInv, SessionMatchesLog
<1> HIDE DEF r
<1>3. ResultsFollowLog'
  BY <1>1, <1>2 DEF ResultInv, ResultsFollowLog, PayloadOf, ReceiptOf
<1> QED
  BY <1>1, <1>3, QuietResults

\* Nothing else writes the log, a result or a live call.
LEMMA OtherResults ==
  ASSUME EffectInv, ResultInv, UNCHANGED <<wal, results>>, session' = session \/ session' = None
  PROVE  ResultInv'
<1>1. session' # None => SessionMatchesLog(session')
  BY DEF ResultInv
<1> QED
  BY <1>1, QuietResults, SameResults

LEMMA ResultStep ==
  ASSUME EffectInv, ResultInv, [EffectNext]_effectVars
  PROVE  ResultInv'
<1>1. ASSUME Abort \/ ServiceNext \/ UNCHANGED effectVars
      PROVE  ResultInv'
  <2>1. UNCHANGED <<wal, results>> /\ (session' = session \/ session' = None)
    BY <1>1 DEF Abort, ServiceNext, ServiceApplies, ServiceLoses, MarkerCopied, ObjectRemoved,
                SourceChanges, effectVars
  <2> QED
    BY <2>1, OtherResults
<1> QED
  BY <1>1, OpenResults, PlanResults, DispatchResults, WalkResults, WriteResults, FoundResults,
     CompleteResults, ReturnResults DEF EffectNext, CallNext

LEMMA ResultInit == EffectInit => ResultInv
<1> SUFFICES ASSUME EffectInit PROVE ResultInv
  OBVIOUS
<1>1. wal.events = <<>> /\ \A e \in Effects : wal.phases[e] = NoPhase
  BY DEF EffectInit, EmptyWal
<1>2. wal.events \in Seq({})
  BY <1>1
<1> QED
  BY <1>1, <1>2 DEF EffectInit, ResultInv, LogInv, ResultsFollowLog

-----------------------------------------------------------------------------
\* Whatever the call and the service do, the inductive invariant holds.
THEOREM EffectInvariant == EffectSpec => []EffectInv
  <1>1. EffectInv /\ [EffectNext]_effectVars => EffectInv'
    <2> SUFFICES ASSUME EffectInv, [EffectNext]_effectVars PROVE EffectInv'
      OBVIOUS
    <2>1. CASE EffectNext
      BY <2>1, CallStep, ServiceStep DEF EffectNext
    <2>2. CASE UNCHANGED effectVars
      BY <2>2, QuietStep DEF effectVars, service, EffectInv, CallTypeOK, SessionFollowsLog
    <2> QED
      BY <2>1, <2>2
  <1> QED
    BY EffectInitInv, <1>1, PTL DEF EffectSpec

\* execute_external_effect_exactly_once never asks the service twice for one effect.
THEOREM EffectAskedAtMostOnce == EffectSpec => []AskedAtMostOnce
  <1>1. EffectInv => AskedAtMostOnce
    BY DEF EffectInv, AskInv
  <1> QED
    BY <1>1, EffectInvariant, PTL

\* The durable Started event always precedes the request it announces.
THEOREM EffectStartedBeforeAsked == EffectSpec => []StartedBeforeAsked
  <1>1. EffectInv => StartedBeforeAsked
    BY DEF EffectInv, AskInv
  <1> QED
    BY <1>1, EffectInvariant, PTL

\* However late requests are applied, no effect ever has two objects of this program.
THEOREM EffectCreatesNoDuplicates == EffectSpec => []NoDuplicateObjects
  <1>1. EffectInv => NoDuplicateObjects
    BY DEF EffectInv, ObjectInv
  <1> QED
    BY <1>1, EffectInvariant, PTL

\* All calls for one effect that return Ok return the object and the payload that the log
\* holds, whoever made them and however often.
THEOREM EffectResultsAgree == EffectSpec => []ResultsAgree
  <1>1. EffectInv /\ ResultInv /\ [EffectNext]_effectVars => ResultInv'
    BY ResultStep
  <1>2. ResultInv => ResultsAgree
    BY DEF ResultInv, ResultsFollowLog, ResultsAgree
  <1>3. EffectSpec => []ResultInv
    BY <1>1, ResultInit, EffectInvariant, PTL DEF EffectSpec
  <1> QED
    BY <1>2, <1>3, PTL

=============================================================================
