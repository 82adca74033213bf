---------------------------- MODULE RunSessionProof ----------------------------
(***************************************************************************)
(* Theorems about RunSession for every set of command lines, devices and   *)
(* clients: its types, what a session leaves on the host, and what the API *)
(* host's clients and those of its event stream may count on.              *)
(***************************************************************************)
EXTENDS RunSession, TLAPS

-----------------------------------------------------------------------------
(* The parts of the state are typed whatever step is taken.                *)

LEMMA CommandParts ==
  ASSUME NEW k \in 1..9
  PROVE  /\ Commands[k].op \in {"netns add", "link add", "link set", "configure", "masquerade"}
         /\ Commands[k].link \in Links
<1>1. k = 1 \/ k = 2 \/ k = 3 \/ k = 4 \/ k = 5 \/ k = 6 \/ k = 7 \/ k = 8 \/ k = 9
  OBVIOUS
<1>2. CASE k = 1
  BY <1>2 DEF Commands, Command, Links
<1>3. CASE k = 2
  BY <1>3 DEF Commands, Command, Links
<1>4. CASE k = 3
  BY <1>4 DEF Commands, Command, Links
<1>5. CASE k = 4
  BY <1>5 DEF Commands, Command, Links
<1>6. CASE k = 5
  BY <1>6 DEF Commands, Command, Links
<1>7. CASE k = 6
  BY <1>7 DEF Commands, Command, Links
<1>8. CASE k = 7
  BY <1>8 DEF Commands, Command, Links
<1>9. CASE k = 8
  BY <1>9 DEF Commands, Command, Links
<1>10. CASE k = 9
  BY <1>10 DEF Commands, Command, Links
<1> QED
  BY <1>1, <1>2, <1>3, <1>4, <1>5, <1>6, <1>7, <1>8, <1>9, <1>10

LEMMA HostTypes ==
  ASSUME HostTypeOK,
         \/ UNCHANGED hostVars
         \/ DeleteStale
         \/ (\E k \in 1..9 : Take(Commands[k])) /\ UNCHANGED stray
         \/ \E links \in SUBSET Links, inhabited \in BOOLEAN : Destroy(links, inhabited)
         \/ StrayEnds
         \/ UNCHANGED <<named, veth, rules>> /\ stray' \in {"none", "inside"}
  PROVE  HostTypeOK'
<1>1. CASE UNCHANGED hostVars
  BY <1>1 DEF HostTypeOK, hostVars
<1>2. CASE DeleteStale
  BY <1>2 DEF HostTypeOK, DeleteStale, Unname
<1>3. ASSUME NEW k \in 1..9, Take(Commands[k]), UNCHANGED stray
      PROVE  HostTypeOK'
  <2>1. Commands[k].link \in Links
    BY CommandParts
  <2> DEFINE l == Commands[k].link
  <2> HIDE DEF l
  <2>2. \/ UNCHANGED <<veth, rules>> /\ named' \in BOOLEAN
        \/ veth' = [veth EXCEPT ![l] = "host"] /\ UNCHANGED <<named, rules>>
        \/ veth' = [veth EXCEPT ![l] = "inside"] /\ UNCHANGED <<named, rules>>
        \/ rules' = [rules EXCEPT ![l] = @ + 1] /\ UNCHANGED <<named, veth>>
    BY <1>3, Zenon DEF HostTypeOK, Take, l
  <2>3. l \in Links
    BY <2>1 DEF l
  <2> QED
    BY <1>3, <2>2, <2>3 DEF HostTypeOK
<1>4. ASSUME NEW links \in SUBSET Links, NEW inhabited \in BOOLEAN, Destroy(links, inhabited)
      PROVE  HostTypeOK'
  <2>1. \A l \in Links : rules[l] \in Nat
    BY DEF HostTypeOK
  <2>2. \A l \in Links : (IF l \in links /\ rules[l] > 0 THEN rules[l] - 1 ELSE rules[l]) \in Nat
    BY <2>1
  <2>3. rules' \in [Links -> Nat]
    BY <1>4, <2>2 DEF Destroy
  <2>4. Unname(inhabited)
    BY <1>4 DEF Destroy
  <2>5. veth' \in [Links -> {"none", "host", "inside", "orphan"}]
    BY <2>4 DEF HostTypeOK, Unname
  <2> QED
    BY <2>3, <2>4, <2>5 DEF HostTypeOK, Unname
<1>5. CASE StrayEnds
  BY <1>5 DEF HostTypeOK, StrayEnds
<1>6. CASE UNCHANGED <<named, veth, rules>> /\ stray' \in {"none", "inside"}
  BY <1>6 DEF HostTypeOK
<1> QED
  BY <1>1, <1>2, <1>3, <1>4, <1>5, <1>6

ChildMove ==
  \/ UNCHANGED childVars \/ ClearChild \/ StartChild \/ ChildExits \/ ReplayEnds
  \/ \E kind \in {"quiet", "holding"} : Fork(kind) \/ HeirsEnd(kind)
  \/ \E long \in BOOLEAN : PrintLine(long, signalled)
  \/ Disown \/ SeeExit \/ Terminate \/ GraceOver \/ KillLands \/ Reap

LEMMA ChildTypes ==
  ASSUME ChildTypeOK, signalled \in BOOLEAN, ChildMove
  PROVE  ChildTypeOK'
<1>1. child' \in {"none", "running", "exited"} /\ watch' \in {"off", "watching", "grace", "killing"}
  BY DEF ChildMove, ChildTypeOK, childVars, ClearChild, StartChild, ChildExits, ReplayEnds,
         Fork, HeirsEnd, PrintLine, Disown, SeeExit, Terminate, GraceOver, KillLands, Reap
<1>4. heirs' \subseteq {"quiet", "holding"}
  BY DEF ChildMove, ChildTypeOK, childVars, ClearChild, StartChild, ChildExits, ReplayEnds,
         Fork, HeirsEnd, PrintLine, Disown, SeeExit, Terminate, GraceOver, KillLands, Reap
<1>2. reading' \in BOOLEAN /\ stuck' \in BOOLEAN /\ replayed' \in BOOLEAN
  BY DEF ChildMove, ChildTypeOK, childVars, ClearChild, StartChild, ChildExits, ReplayEnds,
         Fork, HeirsEnd, PrintLine, Disown, SeeExit, Terminate, GraceOver, KillLands, Reap
<1>3. lines' \in 0..MaxLines
  BY MaxLinesAssumption
     DEF ChildMove, ChildTypeOK, childVars, ClearChild, StartChild, ChildExits, ReplayEnds,
         Fork, HeirsEnd, PrintLine, Disown, SeeExit, Terminate, GraceOver, KillLands, Reap
<1> QED
  BY <1>1, <1>2, <1>3, <1>4 DEF ChildTypeOK

DeviceMove ==
  \/ UNCHANGED deviceVars
  \/ ClearDevices
  \/ registry' = session.own /\ UNCHANGED <<evaluators, drivers, hook, listening, req>>
  \/ /\ evaluators' = session.own \union Known
     /\ UNCHANGED <<registry, drivers, hook, listening, req>>
  \/ hook' = TRUE /\ UNCHANGED <<registry, evaluators, drivers, listening, req>>
  \/ listening' \in BOOLEAN /\ UNCHANGED <<registry, evaluators, drivers, hook, req>>
  \/ /\ drivers' = [i \in Ids |-> IF i \in session.own THEN drivers[i] + 1 ELSE drivers[i]]
     /\ UNCHANGED <<registry, evaluators, hook, listening, req>>
  \/ \E c \in Clients :
       \/ PostRegister(c, session.profile) \/ PostStore(c) \/ PostHook(c, Known)
       \/ GetDevice(c) \/ GetEvaluator(c)
       \/ \E kind \in {"post", "condition"}, id \in Ids : Receive(c, kind, id, Equipped)

LEMMA SessionParts ==
  ASSUME session \in Sessions
  PROVE  /\ session.command \in {"run", "serve", "replay"}
         /\ session.dual \in BOOLEAN /\ session.profile \in BOOLEAN
         /\ session.own \in SUBSET Ids /\ session.asked \in SUBSET Ids
         /\ session.clients \in SUBSET Clients
         /\ Known \in SUBSET Ids
BY SessionsAssumption, IdsAssumption DEF Known

Requests ==
  [kind : {"none", "post", "condition"}, id : Ids \union {"none"},
   at : {"idle", "received", "registered", "stored", "found", "done"},
   answer : Answers, promised : BOOLEAN]

LEMMA Membership ==
  ASSUME NEW S, NEW x
  PROVE  (x \in S) \in BOOLEAN
OBVIOUS

LEMMA AnswerField ==
  ASSUME NEW kind, NEW id, NEW where, NEW old, NEW promised, NEW new
  PROVE  [[kind |-> kind, id |-> id, at |-> where, answer |-> old, promised |-> promised]
            EXCEPT !.answer = new]
           = [kind |-> kind, id |-> id, at |-> where, answer |-> new, promised |-> promised]
OBVIOUS

\* What an answer, or the next stage of a request, does to it.
LEMMA RequestMoves ==
  ASSUME req \in [Clients -> Requests], NEW c \in Clients
  PROVE  /\ \A status \in Answers : Answer(c, status) =>
              /\ req' = [req EXCEPT ![c] = [kind |-> req[c].kind, id |-> req[c].id, at |-> "done",
                                           answer |-> status, promised |-> req[c].promised]]
              /\ req' \in [Clients -> Requests]
         /\ \A where \in {"registered", "stored", "found"} : Goto(c, where) =>
              /\ req' = [req EXCEPT ![c] = [kind |-> req[c].kind, id |-> req[c].id, at |-> where,
                                           answer |-> req[c].answer, promised |-> req[c].promised]]
              /\ req' \in [Clients -> Requests]
<1>1. req[c] \in Requests
  OBVIOUS
<1>2. ASSUME NEW status \in Answers, Answer(c, status)
      PROVE  /\ req' = [req EXCEPT ![c] = [kind |-> req[c].kind, id |-> req[c].id, at |-> "done",
                                          answer |-> status, promised |-> req[c].promised]]
             /\ req' \in [Clients -> Requests]
  <2> DEFINE r == [req[c] EXCEPT !.at = "done"]
  <2>1. req' = [req EXCEPT ![c] = [r EXCEPT !.answer = status]]
    BY <1>2 DEF Answer
  <2>2. r = [kind |-> req[c].kind, id |-> req[c].id, at |-> "done",
             answer |-> req[c].answer, promised |-> req[c].promised]
    BY <1>1 DEF Requests
  <2> HIDE DEF r
  <2>4. [r EXCEPT !.answer = status]
          = [kind |-> req[c].kind, id |-> req[c].id, at |-> "done",
             answer |-> status, promised |-> req[c].promised]
    BY <2>2, AnswerField
  <2>3. [kind |-> req[c].kind, id |-> req[c].id, at |-> "done",
         answer |-> status, promised |-> req[c].promised] \in Requests
    BY <1>1, <1>2 DEF Requests
  <2> QED
    BY <2>1, <2>4, <2>3
<1>3. ASSUME NEW where \in {"registered", "stored", "found"}, Goto(c, where)
      PROVE  /\ req' = [req EXCEPT ![c] = [kind |-> req[c].kind, id |-> req[c].id, at |-> where,
                                          answer |-> req[c].answer, promised |-> req[c].promised]]
             /\ req' \in [Clients -> Requests]
  <2>1. req' = [req EXCEPT ![c] = [req[c] EXCEPT !.at = where]]
    BY <1>3 DEF Goto
  <2>2. [req[c] EXCEPT !.at = where]
          = [kind |-> req[c].kind, id |-> req[c].id, at |-> where,
             answer |-> req[c].answer, promised |-> req[c].promised]
    BY <1>1 DEF Requests
  <2>3. [kind |-> req[c].kind, id |-> req[c].id, at |-> where,
         answer |-> req[c].answer, promised |-> req[c].promised] \in Requests
    BY <1>1, <1>3 DEF Requests
  <2> QED
    BY <2>1, <2>2, <2>3
<1> QED
  BY <1>2, <1>3

LEMMA DeviceTypes ==
  ASSUME DeviceTypeOK, session \in Sessions, DeviceMove,
         \A c \in Clients : req[c].at # "idle" => req[c].id \in Ids
  PROVE  /\ DeviceTypeOK'
         /\ \A c \in Clients : req'[c].at # "idle" => req'[c].id \in Ids
<1> DEFINE Named == \A c \in Clients : req'[c].at # "idle" => req'[c].id \in Ids
<1> USE SessionParts
<1>0. req' = req => Named
  OBVIOUS
<1>1. CASE UNCHANGED deviceVars
  BY <1>0, <1>1 DEF DeviceTypeOK, deviceVars
<1>2. CASE ClearDevices
  BY <1>2 DEF DeviceTypeOK, ClearDevices, NoRequest, Answers
<1>3. CASE registry' = session.own /\ UNCHANGED <<evaluators, drivers, hook, listening, req>>
  BY <1>0, <1>3 DEF DeviceTypeOK
<1>4. CASE /\ evaluators' = session.own \union Known
           /\ UNCHANGED <<registry, drivers, hook, listening, req>>
  BY <1>0, <1>4 DEF DeviceTypeOK
<1>5. CASE hook' = TRUE /\ UNCHANGED <<registry, evaluators, drivers, listening, req>>
  BY <1>0, <1>5 DEF DeviceTypeOK
<1>6. CASE listening' \in BOOLEAN /\ UNCHANGED <<registry, evaluators, drivers, hook, req>>
  BY <1>0, <1>6 DEF DeviceTypeOK
<1>7. CASE /\ drivers' = [i \in Ids |-> IF i \in session.own THEN drivers[i] + 1 ELSE drivers[i]]
           /\ UNCHANGED <<registry, evaluators, hook, listening, req>>
  BY <1>0, <1>7 DEF DeviceTypeOK
<1>8. ASSUME NEW c \in Clients,
             \/ PostRegister(c, session.profile) \/ PostStore(c) \/ PostHook(c, Known)
             \/ GetDevice(c) \/ GetEvaluator(c)
             \/ \E kind \in {"post", "condition"}, id \in Ids : Receive(c, kind, id, Equipped)
      PROVE  DeviceTypeOK' /\ Named
  <2>1. req \in [Clients -> Requests] /\ {200, 201, 400, 404, 409, 500} \subseteq Answers
    BY DEF DeviceTypeOK, Requests, Answers
  <2>2. SUFFICES /\ registry' \subseteq Ids /\ evaluators' \subseteq Ids
                 /\ drivers' \in [Ids -> Nat] /\ hook' \in BOOLEAN /\ listening' \in BOOLEAN
                 /\ req' \in [Clients -> Requests] /\ Named
    BY DEF DeviceTypeOK, Requests
  <2>3. /\ registry \subseteq Ids /\ evaluators \subseteq Ids
        /\ drivers \in [Ids -> Nat] /\ hook \in BOOLEAN /\ listening \in BOOLEAN
    BY DEF DeviceTypeOK
  <2>4. ASSUME req[c].at # "idle",
               \/ \E status \in Answers : Answer(c, status)
               \/ \E where \in {"registered", "stored", "found"} : Goto(c, where)
        PROVE  req' \in [Clients -> Requests] /\ Named
    BY <2>1, <2>4, RequestMoves
  <2>5. CASE PostRegister(c, session.profile)
    <3>1. /\ req[c].at = "received" /\ UNCHANGED <<evaluators, drivers, hook, listening>>
          /\ registry' = registry \/ registry' = registry \union {req[c].id}
          /\ \/ \E status \in Answers : Answer(c, status)
             \/ \E where \in {"registered", "stored", "found"} : Goto(c, where)
      BY <2>1, <2>5 DEF PostRegister, Enrol
    <3> QED
      BY <2>3, <2>4, <3>1
  <2>6. CASE PostStore(c)
    <3>1. /\ req[c].at = "registered" /\ UNCHANGED <<registry, drivers, hook, listening>>
          /\ evaluators' = evaluators \union {req[c].id}
          /\ \/ \E status \in Answers : Answer(c, status)
             \/ \E where \in {"registered", "stored", "found"} : Goto(c, where)
      BY <2>1, <2>6 DEF PostStore
    <3> QED
      BY <2>3, <2>4, <3>1
  <2>7. CASE PostHook(c, Known)
    <3>1. /\ req[c].at = "stored" /\ UNCHANGED <<registry, evaluators, hook, listening>>
          /\ drivers' = drivers \/ drivers' = [drivers EXCEPT ![req[c].id] = @ + 1]
          /\ \E status \in Answers : Answer(c, status)
      BY <2>1, <2>7 DEF PostHook
    <3> QED
      BY <2>3, <2>4, <3>1
  <2>8. CASE GetDevice(c)
    <3>1. /\ req[c].at = "received" /\ UNCHANGED <<registry, evaluators, drivers, hook, listening>>
          /\ \/ \E status \in Answers : Answer(c, status)
             \/ \E where \in {"registered", "stored", "found"} : Goto(c, where)
      BY <2>1, <2>8 DEF GetDevice
    <3> QED
      BY <2>3, <2>4, <3>1
  <2>9. CASE GetEvaluator(c)
    <3>1. /\ req[c].at = "found" /\ UNCHANGED <<registry, evaluators, drivers, hook, listening>>
          /\ \E status \in Answers : Answer(c, status)
      BY <2>1, <2>9 DEF GetEvaluator
    <3> QED
      BY <2>3, <2>4, <3>1
  <2>10. ASSUME NEW kind \in {"post", "condition"}, NEW id \in Ids,
                Receive(c, kind, id, Equipped)
         PROVE  /\ registry' \subseteq Ids /\ evaluators' \subseteq Ids
                /\ drivers' \in [Ids -> Nat] /\ hook' \in BOOLEAN /\ listening' \in BOOLEAN
                /\ req' \in [Clients -> Requests] /\ Named
    <3> DEFINE promised == id \in Promised(Equipped)
               new == [kind |-> kind, id |-> id, at |-> "received",
                       answer |-> 0, promised |-> promised]
    <3>1. req' = [req EXCEPT ![c] = new]
      BY <2>10 DEF Receive
    <3>2. promised \in BOOLEAN
      BY Membership
    <3> HIDE DEF promised
    <3>3. new \in Requests /\ new.id \in Ids
      BY <3>2 DEF Requests, Answers
    <3> HIDE DEF new
    <3> QED
      BY <2>1, <2>3, <2>10, <3>1, <3>3 DEF Receive
  <2> QED
    BY <1>8, <2>5, <2>6, <2>7, <2>8, <2>9, <2>10
<1> QED
  BY <1>1, <1>2, <1>3, <1>4, <1>5, <1>6, <1>7, <1>8 DEF DeviceMove

\* A step of the event stream that writes events of E only.
StreamMove(E) ==
  \/ UNCHANGED streamVars \/ ClearStream
  \/ /\ connected' = FALSE
     /\ UNCHANGED <<stage, subs, inCall, sent, unseen, channel, waiting, received>>
  \/ Connect \/ Subscribe \/ Greet \/ Forward \/ Unsubscribe \/ OnHandover
  \/ \E s \in Sources : Publish(s)
  \/ \E s \in Sources, by \in Sources \union {"session"} :
       OnCoverage(s, by) /\ [src |-> s, n |-> inCall[s], by |-> by] \in E
  \/ \E n \in 1..MaxEvents : EnqueueReliable(n)

StreamTyped ==
  /\ connected \in BOOLEAN
  /\ stage \in {"none", "subscribing", "flushed", "greeting", "streaming", "gone"}
  /\ subs \subseteq {"coverage", "handover"}
  /\ inCall \in [Sources -> 0..MaxEvents] /\ sent \in [Sources -> 0..MaxEvents]
  /\ unseen \in 0..MaxEvents
  /\ waiting \subseteq 1..MaxEvents

Queued(E) ==
  /\ channel \in Seq(E) /\ Len(channel) <= Capacity
  /\ received \in Seq(E)

LEMMA StreamTypes ==
  ASSUME NEW E, StreamTyped, Queued(E), StreamMove(E),
         Greeting("session_info") \in E, Greeting("initial") \in E,
         \A n \in 1..MaxEvents : Handover(n) \in E
  PROVE  StreamTyped' /\ Queued(E)'
<1> USE StreamAssumption DEF StreamTyped
<1> DEFINE Silent == UNCHANGED <<channel, received>>
<1>1. /\ Bearer \in Sources /\ MaxEvents \in Nat /\ Capacity \in Nat /\ Capacity > 0
      /\ 0 \in 0..MaxEvents /\ \A n \in 0..MaxEvents : n # 0 => n \in 1..MaxEvents
  BY DEF Sources
<1>2. Silent => Queued(E)'
  BY DEF Queued
<1>3. ASSUME NEW ev \in E, Write(ev), UNCHANGED channel
      PROVE  Queued(E)'
  BY <1>3 DEF Queued, Write
<1>4. ASSUME NEW ev \in E, EnqueueDrop(ev), UNCHANGED received
      PROVE  Queued(E)'
  <2>1. Len(Append(channel, ev)) = Len(channel) + 1 /\ Append(channel, ev) \in Seq(E)
        /\ Len(channel) \in Nat
    BY DEF Queued
  <2> QED
    BY <1>1, <1>4, <2>1 DEF Queued, EnqueueDrop
<1>5. CASE UNCHANGED streamVars
  BY <1>2, <1>5 DEF streamVars
<1>6. CASE ClearStream
  <2>1. << >> \in Seq(E) /\ Len(<< >>) = 0
    OBVIOUS
  <2>2. inCall' \in [Sources -> 0..MaxEvents] /\ sent' \in [Sources -> 0..MaxEvents]
    BY <1>1, <1>6 DEF ClearStream
  <2>3. channel' \in Seq(E) /\ received' \in Seq(E) /\ Len(channel') = 0
    BY <1>6, <2>1 DEF ClearStream
  <2>4. Queued(E)'
    BY <1>1, <2>3 DEF Queued
  <2>5. connected' = FALSE /\ stage' = "none" /\ subs' = {} /\ unseen' = 0 /\ waiting' = {}
    BY <1>6 DEF ClearStream
  <2> QED
    BY <1>1, <2>2, <2>4, <2>5
<1>7. CASE /\ connected' = FALSE
           /\ UNCHANGED <<stage, subs, inCall, sent, unseen, channel, waiting, received>>
  BY <1>2, <1>7
<1>8. CASE Connect
  BY <1>2, <1>8 DEF Connect
<1>9. CASE Subscribe
  <2>1. sent[Bearer] \in 0..MaxEvents
    BY <1>1
  <2> QED
    BY <1>2, <1>9, <2>1 DEF Subscribe, Join
<1>10. CASE Greet
  <2>1. Queued(E)'
    BY <1>3, <1>10 DEF Greet
  <2> QED
    BY <1>10, <2>1 DEF Greet
<1>11. CASE Forward
  <2>1. Head(channel) \in E /\ Tail(channel) \in Seq(E) /\ Len(Tail(channel)) = Len(channel) - 1
        /\ Len(channel) \in Nat
    BY <1>11 DEF Forward, Queued
  <2>2. received' \in Seq(E)
    BY <1>11, <2>1 DEF Forward, Write, Queued
  <2> QED
    BY <1>1, <1>11, <2>1, <2>2 DEF Forward, Queued
<1>12. CASE Unsubscribe
  BY <1>2, <1>12 DEF Unsubscribe
<1>13. CASE OnHandover
  <2>1. inCall[Bearer] \in 1..MaxEvents
    BY <1>1, <1>13 DEF OnHandover
  <2>2. inCall' \in [Sources -> 0..MaxEvents]
    BY <1>1, <1>13 DEF OnHandover
  <2> QED
    BY <1>2, <1>13, <2>1, <2>2 DEF OnHandover
<1>14. ASSUME NEW s \in Sources, Publish(s)
       PROVE  StreamTyped' /\ Queued(E)'
  <2>1. sent[s] + 1 \in 0..MaxEvents
    BY <1>1, <1>14 DEF Publish
  <2> QED
    BY <1>1, <1>2, <1>14, <2>1 DEF Publish
<1>15. ASSUME NEW s \in Sources, NEW by \in Sources \union {"session"}, OnCoverage(s, by),
              [src |-> s, n |-> inCall[s], by |-> by] \in E
       PROVE  StreamTyped' /\ Queued(E)'
  <2>1. Queued(E)'
    BY <1>4, <1>15 DEF OnCoverage
  <2> QED
    BY <1>1, <1>15, <2>1 DEF OnCoverage
<1>16. ASSUME NEW n \in 1..MaxEvents, EnqueueReliable(n)
       PROVE  StreamTyped' /\ Queued(E)'
  <2>1. Queued(E)'
    <3>1. CASE UNCHANGED channel
      BY <1>2, <1>16, <3>1 DEF EnqueueReliable
    <3>2. CASE Len(channel) < Capacity /\ channel' = Append(channel, Handover(n))
      <4>1. EnqueueDrop(Handover(n))
        BY <3>2 DEF EnqueueDrop
      <4> QED
        BY <1>4, <1>16, <4>1 DEF EnqueueReliable
    <3> QED
      BY <1>16, <3>1, <3>2 DEF EnqueueReliable
  <2> QED
    BY <1>16, <2>1 DEF EnqueueReliable
<1> QED
  BY <1>5, <1>6, <1>7, <1>8, <1>9, <1>10, <1>11, <1>12, <1>13, <1>14, <1>15, <1>16 DEF StreamMove

-----------------------------------------------------------------------------
(* The order of a start.                                                   *)

LEMMA Lengths ==
  ASSUME session \in Sessions
  PROVE  /\ session.command = "run" => Len(Startup(session)) = 12
         /\ session.command = "serve" => Len(Startup(session)) = 5
         /\ session.command = "replay" => Len(Startup(session)) = 6
         /\ Len(Startup(session)) \in Nat
BY SessionParts DEF Startup

\* The steps of each command, place by place.
LEMMA Places ==
  ASSUME session \in Sessions
  PROVE  /\ session.command = "run" =>
              /\ Startup(session)[1] = "register" /\ Startup(session)[2] = "stale"
              /\ Startup(session)[3] = "create" /\ Startup(session)[4] = "netem"
              /\ Startup(session)[5] = "terrestrial" /\ Startup(session)[6] = "bearer"
              /\ Startup(session)[7] = "record" /\ Startup(session)[8] = "evaluators"
              /\ Startup(session)[9] = "hook" /\ Startup(session)[10] = "listen"
              /\ Startup(session)[11] = "drivers" /\ Startup(session)[12] = "child"
         /\ session.command = "serve" =>
              /\ Startup(session)[1] = "register" /\ Startup(session)[2] = "evaluators"
              /\ Startup(session)[3] = "drivers" /\ Startup(session)[4] = "hook"
              /\ Startup(session)[5] = "listen"
         /\ session.command = "replay" =>
              /\ Startup(session)[1] = "register" /\ Startup(session)[2] = "stale"
              /\ Startup(session)[3] = "create" /\ Startup(session)[4] = "netem"
              /\ Startup(session)[5] = "listen" /\ Startup(session)[6] = "child"
<1>1. ASSUME session.command = "run"
      PROVE  Startup(session) = <<"register", "stale", "create", "netem", "terrestrial", "bearer",
                                  "record", "evaluators", "hook", "listen", "drivers", "child">>
  BY <1>1 DEF Startup
<1>2. ASSUME session.command = "serve"
      PROVE  Startup(session) = <<"register", "evaluators", "drivers", "hook", "listen">>
  BY <1>2 DEF Startup
<1>3. ASSUME session.command = "replay"
      PROVE  Startup(session) = <<"register", "stale", "create", "netem", "listen", "child">>
  BY <1>3 DEF Startup
<1> QED
  BY <1>1, <1>2, <1>3

\* Where the steps that other facts depend on stand.
LEMMA PlaceOf ==
  ASSUME session \in Sessions, at \in 1..Len(Startup(session))
  PROVE  /\ Startup(session)[at] = "create" => at = 3 /\ session.command # "serve"
         /\ Startup(session)[at] = "stale" => at = 2 /\ session.command # "serve"
         /\ Startup(session)[at] = "child" =>
              at = Len(Startup(session)) /\ session.command # "serve"
         /\ session.command # "serve" => Len(Startup(session)) > 5
<1>0. session.command \in {"run", "serve", "replay"}
  BY SessionParts
<1>1. CASE session.command = "run"
  <2>1. Len(Startup(session)) = 12
    BY <1>1, Lengths
  <2>2. at = 1 \/ at = 2 \/ at = 3 \/ at = 4 \/ at = 5 \/ at = 6 \/ at = 7 \/ at = 8 \/ at = 9
        \/ at = 10 \/ at = 11 \/ at = 12
    BY <2>1
  <2> QED
    BY <1>1, <2>1, <2>2, Places
<1>2. CASE session.command = "serve"
  <2>1. Len(Startup(session)) = 5
    BY <1>2, Lengths
  <2>2. at = 1 \/ at = 2 \/ at = 3 \/ at = 4 \/ at = 5
    BY <2>1
  <2> QED
    BY <1>2, <2>1, <2>2, Places
<1>3. CASE session.command = "replay"
  <2>1. Len(Startup(session)) = 6
    BY <1>3, Lengths
  <2>2. at = 1 \/ at = 2 \/ at = 3 \/ at = 4 \/ at = 5 \/ at = 6
    BY <2>1
  <2> QED
    BY <1>3, <2>1, <2>2, Places
<1> QED
  BY <1>0, <1>1, <1>2, <1>3

-----------------------------------------------------------------------------
(* Types and the order of a life, together an inductive invariant.         *)

LifeTyped ==
  /\ session \in Sessions
  /\ phase \in {"idle", "starting", "running", "unwinding", "returned", "crashed"}
  /\ at \in 0..Len(Startup(session))
  /\ built \in 0..CommandsOf(session.dual)
  /\ before \in [rules : [Links -> Nat],
                 veth : [Links -> {"none", "host", "inside", "orphan"}]]
  /\ lives \in 0..2
  /\ signalled \in BOOLEAN /\ again \in BOOLEAN /\ frozen \in BOOLEAN

\* How far a life has come, and what it cannot have by then.
LifeOrder ==
  /\ phase = "idle" => lives = 0
  /\ phase = "crashed" => lives = 1
  /\ phase # "idle" => at >= 1
  /\ phase = "running" => at = Len(Startup(session))
  /\ phase = "starting" /\ at <= 3 => built < CommandsOf(session.dual)
  /\ session.command = "serve" => built = 0 /\ child = "none"
  /\ child = "running" => phase = "running"

Asked == \A c \in Clients : req[c].at # "idle" => req[c].id \in Ids

\* A process is only ever forked by a command, and `serve` runs none.
ServeBare == session.command = "serve" => heirs = {}

LifeInv ==
  /\ HostTypeOK /\ ChildTypeOK /\ DeviceTypeOK
  /\ StreamTyped /\ Queued(Events)
  /\ LifeTyped /\ LifeOrder /\ ServeBare /\ Asked

HostMove ==
  \/ UNCHANGED hostVars
  \/ DeleteStale
  \/ (\E k \in 1..9 : Take(Commands[k])) /\ UNCHANGED stray
  \/ \E links \in SUBSET Links, inhabited \in BOOLEAN : Destroy(links, inhabited)
  \/ StrayEnds
  \/ UNCHANGED <<named, veth, rules>> /\ stray' \in {"none", "inside"}

\* What Take needs to be one of the nine commands.
LEMMA NextCommand ==
  ASSUME LifeTyped, LifeOrder, Step("create")
  PROVE  /\ at = 3 /\ session.command # "serve"
         /\ built \in Nat /\ built + 1 \in 1..9 /\ built + 1 <= CommandsOf(session.dual)
         /\ at < Len(Startup(session))
<1>1. session \in Sessions /\ Len(Startup(session)) \in Nat
  BY Places, SessionParts DEF LifeTyped
<1>2. at \in 1..Len(Startup(session)) /\ Startup(session)[at] = "create"
  BY <1>1 DEF LifeTyped, LifeOrder, Step
<1>3. at = 3 /\ session.command # "serve" /\ Len(Startup(session)) > 5
  BY <1>1, <1>2, PlaceOf
<1>4. CommandsOf(session.dual) \in 1..9
  BY DEF CommandsOf
<1>5. built \in 0..CommandsOf(session.dual) /\ built < CommandsOf(session.dual)
  BY <1>3 DEF LifeTyped, LifeOrder, Step
<1> QED
  BY <1>1, <1>3, <1>4, <1>5

\* Every step moves each part of the state in one of its own ways; E holds
\* the events that may come to the stream.
LEMMA Moves ==
  ASSUME LifeInv, [Next]_vars, NEW E,
         \A s \in Sources \ {Bearer} :
           inCall[s] # 0 => [src |-> s, n |-> inCall[s], by |-> EvaluatorFor(s)] \in E
  PROVE  HostMove /\ ChildMove /\ DeviceMove /\ StreamMove(E)
<1>h. UNCHANGED hostVars => HostMove
  BY DEF HostMove
<1>c. UNCHANGED childVars => ChildMove
  BY DEF ChildMove
<1>d. UNCHANGED deviceVars => DeviceMove
  BY DEF DeviceMove
<1>s. UNCHANGED streamVars => StreamMove(E)
  BY DEF StreamMove
<1>1. CASE UNCHANGED vars
  <2>1. UNCHANGED <<hostVars, childVars, deviceVars, streamVars>>
    BY <1>1 DEF vars
  <2> QED
    BY <1>h, <1>c, <1>d, <1>s, <2>1
<1>2. CASE Begin
  BY <1>2, <1>h, <1>c, <1>d, <1>s DEF Begin
<1>3. CASE Start
  <2>1. CASE Skip
    BY <2>1, <1>h, <1>c, <1>d, <1>s DEF Skip
  <2>2. CASE Register
    BY <2>2, <1>h, <1>c, <1>s DEF Register, DeviceMove
  <2>3. CASE CleanStale
    <3>1. HostMove
      BY <2>3 DEF CleanStale, HostMove
    <3> QED
      BY <2>3, <3>1, <1>c, <1>d, <1>s DEF CleanStale
  <2>4. CASE CreateCommand
    <3>1. built + 1 \in 1..9
      BY <2>4, NextCommand DEF CreateCommand, LifeInv
    <3>2. (Take(Commands[built + 1]) /\ UNCHANGED stray) \/ UNCHANGED hostVars
      BY <2>4 DEF CreateCommand
    <3>3. HostMove
      BY <3>1, <3>2 DEF HostMove
    <3> QED
      BY <2>4, <3>3, <1>c, <1>d, <1>s DEF CreateCommand
  <2>5. CASE SetupSatellite \/ SetupDualPath
    BY <2>5, <1>h, <1>c, <1>d, <1>s DEF SetupSatellite, SetupDualPath, SetupNetem
  <2>6. CASE InitBearer \/ OpenRecording
    BY <2>6, <1>h, <1>c, <1>d, <1>s DEF InitBearer, OpenRecording
  <2>7. CASE StoreEvaluators
    BY <2>7, <1>h, <1>c, <1>s DEF StoreEvaluators, DeviceMove
  <2>8. CASE SetHook
    BY <2>8, <1>h, <1>c, <1>s DEF SetHook, DeviceMove
  <2>9. CASE Listen
    <3>1. listening \in BOOLEAN
      BY DEF LifeInv, DeviceTypeOK
    <3>2. listening' \in BOOLEAN /\ UNCHANGED <<registry, evaluators, drivers, hook, req>>
      BY <2>9, <3>1 DEF Listen
    <3> QED
      BY <2>9, <3>2, <1>h, <1>c, <1>s DEF Listen, DeviceMove
  <2>10. CASE StartDrivers
    BY <2>10, <1>h, <1>c, <1>s DEF StartDrivers, DeviceMove
  <2>11. CASE Launch
    BY <2>11, <1>h, <1>c, <1>d, <1>s DEF Launch, ChildMove
  <2> QED
    BY <1>3, <2>1, <2>2, <2>3, <2>4, <2>5, <2>6, <2>7, <2>8, <2>9, <2>10, <2>11 DEF Start
<1>4. CASE Stop
  <2>1. CASE CommandDone
    BY <2>1, <1>h, <1>d, <1>s DEF CommandDone, ChildMove
  <2>2. CASE Interrupt \/ ReplayDone \/ StopWaiting
    <3>1. UNCHANGED <<hostVars, deviceVars, streamVars>> /\ (Terminate \/ GraceOver)
      BY <2>2 DEF Interrupt, ReplayDone, StopWaiting, StayAlive
    <3> QED
      BY <3>1, <1>h, <1>d, <1>s DEF ChildMove
  <2>3. CASE Reaped
    BY <2>3, <1>h, <1>d, <1>s DEF Reaped, ChildMove
  <2>4. CASE CloseServer
    <3>1. listening' \in BOOLEAN /\ UNCHANGED <<registry, evaluators, drivers, hook, req>>
      BY <2>4 DEF CloseServer
    <3>2. DeviceMove
      BY <3>1 DEF DeviceMove
    <3>3. StreamMove(E)
      BY <2>4 DEF CloseServer, StreamMove
    <3> QED
      BY <2>4, <3>2, <3>3, <1>h, <1>c DEF CloseServer
  <2>5. CASE Unwind
    <3>1. UNCHANGED hostVars \/ Destroy(LinksOf(session.dual), Inhabited)
      BY <2>5 DEF Unwind
    <3>2. LinksOf(session.dual) \in SUBSET Links /\ Inhabited \in BOOLEAN
      BY DEF LinksOf, Links, Inhabited
    <3>3. HostMove
      BY <3>1, <3>2 DEF HostMove
    <3> QED
      BY <2>5, <3>3 DEF Unwind, ChildMove, DeviceMove, StreamMove
  <2> QED
    BY <1>4, <2>1, <2>2, <2>3, <2>4, <2>5 DEF Stop
<1>5. CASE Quit
  BY <1>5, <1>h, <1>d, <1>s DEF Quit, ChildMove
<1>6. CASE SwitchFocus \/ Signal
  BY <1>6, <1>h, <1>c, <1>d, <1>s DEF SwitchFocus, Signal
<1>7. CASE Crash
  <2>1. UNCHANGED <<named, veth, rules>> /\ stray' \in {"none", "inside"}
    BY <1>7 DEF Crash
  <2>2. HostMove
    BY <2>1 DEF HostMove
  <2> QED
    BY <1>7, <2>2 DEF Crash, ChildMove, DeviceMove, StreamMove
<1>8. CASE StrayLeaves
  BY <1>8, <1>c, <1>d, <1>s DEF StrayLeaves, HostMove
<1>9. CASE ChildStep
  <2>1. UNCHANGED <<hostVars, deviceVars, streamVars>>
    BY <1>9 DEF ChildStep, StayAlive
  <2> QED
    BY <1>9, <2>1, <1>h, <1>d, <1>s DEF ChildStep, ChildMove
<1>10. CASE Killed
  <2>1. UNCHANGED <<hostVars, deviceVars, streamVars>>
    BY <1>10 DEF Killed, StayAlive
  <2> QED
    BY <1>10, <2>1, <1>h, <1>d, <1>s DEF Killed, ChildMove
<1>11. CASE Request
  <2>1. session.asked \subseteq Ids /\ session.clients \subseteq Clients
    BY SessionParts DEF LifeInv, LifeTyped
  <2>2. DeviceMove
    BY <1>11, <2>1 DEF Request, DeviceMove
  <2> QED
    BY <1>11, <2>2, <1>h, <1>c, <1>s DEF Request
<1>12. ASSUME NEW c \in Clients, Handle(c)
       PROVE  HostMove /\ ChildMove /\ DeviceMove /\ StreamMove(E)
  <2>1. DeviceMove
    BY <1>12 DEF Handle, DeviceMove
  <2> QED
    BY <1>12, <2>1, <1>h, <1>c, <1>s DEF Handle
<1>13. CASE OpenStream \/ CloseStream \/ Handler \/ Report
  <2>1. StreamMove(E)
    BY <1>13 DEF OpenStream, CloseStream, Handler, Report, StreamMove, Disconnect
  <2> QED
    BY <1>13, <2>1, <1>h, <1>c, <1>d DEF OpenStream, CloseStream, Handler, Report, StreamOnly
<1>14. ASSUME NEW s \in Sources, Callback(s)
       PROVE  HostMove /\ ChildMove /\ DeviceMove /\ StreamMove(E)
  <2>1. EvaluatorFor(s) \in Sources \union {"session"}
    BY DEF EvaluatorFor
  <2>2. StreamMove(E)
    BY <1>14, <2>1 DEF Callback, StreamMove, OnCoverage
  <2> QED
    BY <1>14, <2>2, <1>h, <1>c, <1>d DEF Callback, StreamOnly
<1>15. ASSUME NEW n \in 1..MaxEvents, Enqueue(n)
       PROVE  HostMove /\ ChildMove /\ DeviceMove /\ StreamMove(E)
  <2>1. StreamMove(E)
    BY <1>15 DEF Enqueue, StreamMove
  <2> QED
    BY <1>15, <2>1, <1>h, <1>c, <1>d DEF Enqueue, StreamOnly
<1> QED
  BY <1>1, <1>2, <1>3, <1>4, <1>5, <1>6, <1>7, <1>8, <1>9, <1>10, <1>11, <1>12, <1>13, <1>14,
     <1>15 DEF Next

\* The start's clock: at the end of its steps a session runs.
LEMMA Advanced ==
  ASSUME LifeInv, phase = "starting", Advance,
         built' = built \/ (built' <= CommandsOf(session.dual) /\ built' \in Nat /\ at = 3),
         session.command = "serve" => built' = 0 /\ child' = "none",
         child' = "running" => child = "running" \/ at = Len(Startup(session))
  PROVE  LifeTyped' /\ LifeOrder'
<1>1. /\ session \in Sessions /\ at \in 0..Len(Startup(session)) /\ at >= 1
      /\ Len(Startup(session)) \in Nat /\ session' = session
      /\ Startup(session') = Startup(session) /\ CommandsOf(session'.dual) = CommandsOf(session.dual)
  BY Lengths DEF LifeInv, LifeTyped, LifeOrder, Advance
<1>2. \/ at = Len(Startup(session)) /\ phase' = "running" /\ at' = at
      \/ at < Len(Startup(session)) /\ phase' = "starting" /\ at' = at + 1
  <2>1. CASE at = Len(Startup(session))
    BY <2>1 DEF Advance
  <2>2. CASE at # Len(Startup(session))
    <3>1. at' = at + 1 /\ phase' = "starting"
      BY <2>2 DEF Advance
    <3>2. ASSUME NEW n \in Nat, at \in 0..n, at # n
          PROVE  at < n
      BY <3>2
    <3>3. at < Len(Startup(session))
      BY <1>1, <2>2, <3>2
    <3> QED
      BY <3>1, <3>3
  <2> QED
    BY <2>1, <2>2
<1>3. built' \in 0..CommandsOf(session.dual)
      /\ (at # 3 => built' = built)
  BY DEF LifeInv, LifeTyped, CommandsOf
<1>4. LifeTyped'
  BY <1>1, <1>2, <1>3 DEF LifeInv, LifeTyped, Advance
<1>5. phase' = "starting" /\ at' <= 3 => built' < CommandsOf(session'.dual)
  BY <1>1, <1>2, <1>3 DEF LifeInv, LifeOrder
<1>6. child' = "running" => phase' = "running"
  <2>1. child # "running"
    BY DEF LifeInv, LifeOrder
  <2>2. at = Len(Startup(session)) => phase' = "running"
    BY DEF Advance
  <2> QED
    BY <2>1, <2>2
<1>7. /\ session'.command = "serve" => built' = 0 /\ child' = "none"
      /\ phase' = "running" => at' = Len(Startup(session'))
  BY <1>1, <1>2
<1> QED
  BY <1>1, <1>2, <1>4, <1>5, <1>6, <1>7 DEF LifeOrder

\* A step that ends the start or the run, or changes no more than flags.
Steady ==
  /\ session' = session /\ at' = at /\ built' = built /\ before' = before /\ lives' = lives
  /\ signalled' \in BOOLEAN /\ again' \in BOOLEAN /\ frozen' \in BOOLEAN

Onward ==
  /\ phase \in {"starting", "running", "unwinding"}
  /\ phase' \in {"unwinding", "returned"}

LEMMA Stayed ==
  ASSUME LifeInv, Steady,
         \/ phase' = phase /\ child' = child
         \/ phase' = phase /\ child = "running" /\ child' = "exited"
         \/ Onward /\ child' = child /\ child # "running"
  PROVE  LifeTyped' /\ LifeOrder'
<1> USE DEF Steady, Onward
<1>1. session' = session /\ Startup(session') = Startup(session)
      /\ CommandsOf(session'.dual) = CommandsOf(session.dual)
  OBVIOUS
<1>2. LifeTyped'
  BY <1>1 DEF LifeInv, LifeTyped
<1> QED
  BY <1>1, <1>2 DEF LifeInv, LifeOrder

LEMMA LifeStep ==
  ASSUME LifeInv, [Next]_vars
  PROVE  LifeTyped' /\ LifeOrder'
<1>0. /\ session \in Sessions /\ Len(Startup(session)) \in Nat
      /\ signalled \in BOOLEAN /\ again \in BOOLEAN /\ frozen \in BOOLEAN
  BY Lengths DEF LifeInv, LifeTyped
<1>q. ASSUME Steady, phase' = phase,
             child' = child \/ (child = "running" /\ child' = "exited")
      PROVE  LifeTyped' /\ LifeOrder'
  BY <1>q, Stayed
<1>e. UNCHANGED lifeVars => Steady /\ phase' = phase
  BY <1>0 DEF lifeVars, Steady
<1>1. CASE UNCHANGED vars
  <2>1. UNCHANGED lifeVars /\ UNCHANGED childVars
    BY <1>1 DEF vars
  <2> QED
    <3>1. child' = child
      BY <2>1 DEF childVars
    <3> QED
      BY <1>e, <1>q, <2>1, <3>1, Zenon
<1>2. CASE Begin
  <2>1. child' = child /\ session' = session
    BY <1>2 DEF Begin, childVars
  <2>2. 1 <= Len(Startup(session)) /\ CommandsOf(session.dual) > 0
        /\ Startup(session') = Startup(session) /\ CommandsOf(session'.dual) = CommandsOf(session.dual)
    <3>1. 1 <= Len(Startup(session))
      <4>1. session.command \in {"run", "serve", "replay"}
        BY <1>0, SessionParts
      <4>2. Len(Startup(session)) \in {12, 5, 6}
        BY <1>0, <4>1, Lengths, Zenon
      <4> QED
        BY <4>2
    <3> QED
      BY <2>1, <3>1 DEF CommandsOf
  <2>3. lives' \in 1..2
    BY <1>2 DEF Begin, LifeInv, LifeOrder, LifeTyped
  <2>4. before' \in [rules : [Links -> Nat],
                     veth : [Links -> {"none", "host", "inside", "orphan"}]]
    BY <1>2 DEF Begin, LifeInv, HostTypeOK
  <2>5. at' = 1 /\ built' = 0 /\ phase' = "starting"
        /\ signalled' = FALSE /\ again' = FALSE /\ frozen' = FALSE
    BY <1>2 DEF Begin
  <2>6. LifeTyped'
    <3>1. at' \in 0..Len(Startup(session')) /\ built' \in 0..CommandsOf(session'.dual)
      BY <1>0, <2>2, <2>5 DEF CommandsOf
    <3>2. session' \in Sessions /\ lives' \in 0..2
      BY <1>0, <2>1, <2>3
    <3>3. phase' \in {"idle", "starting", "running", "unwinding", "returned", "crashed"}
          /\ signalled' \in BOOLEAN /\ again' \in BOOLEAN /\ frozen' \in BOOLEAN
      BY <2>5
    <3> QED
      BY <2>4, <3>1, <3>2, <3>3, Zenon DEF LifeTyped
  <2> QED
    BY <1>2, <2>1, <2>2, <2>5, <2>6 DEF LifeOrder, LifeInv, Begin
<1>3. CASE Start
  <2>0. phase = "starting" /\ session.command = "serve" => child = "none" /\ built = 0
    BY DEF LifeInv, LifeOrder
  <2>s. phase = "starting" => child # "running"
    BY DEF LifeInv, LifeOrder
  <2>a. ASSUME phase = "starting", Advance, built' = built, child' = child
        PROVE  LifeTyped' /\ LifeOrder'
    <3>1. session.command = "serve" => built' = 0 /\ child' = "none"
      BY <2>0, <2>a
    <3>2. child' = "running" => child = "running" \/ at = Len(Startup(session))
      BY <2>a
    <3> QED
      BY <2>a, <3>1, <3>2, Advanced, Zenon
  <2>f. ASSUME phase = "starting", Fail, built' = built, child' = child
        PROVE  LifeTyped' /\ LifeOrder'
    <3>1. Steady /\ Onward
      BY <1>0, <2>f DEF Fail, Steady, Onward
    <3> QED
      BY <2>s, <2>f, <3>1, Stayed
  <2>1. CASE Skip
    BY <2>1, <2>a DEF Skip, childVars
  <2>2. CASE Register
    BY <2>2, <2>a DEF Register, Step, childVars
  <2>3. CASE CleanStale
    BY <2>3, <2>a DEF CleanStale, Step, childVars
  <2>4. CASE CreateCommand
    <3>1. /\ phase = "starting" /\ child' = child
      BY <2>4 DEF CreateCommand, Step, childVars
    <3>2. /\ at = 3 /\ session.command # "serve" /\ built \in Nat
          /\ built + 1 <= CommandsOf(session.dual) /\ at < Len(Startup(session))
      BY <2>4, NextCommand DEF CreateCommand, LifeInv
    <3>3. CASE built' = built + 1 /\ Advance
      <4>1. built' <= CommandsOf(session.dual) /\ built' \in Nat
        BY <3>2, <3>3
      <4>2. child' = "running" => child = "running" \/ at = Len(Startup(session))
        BY <3>1
      <4> QED
        BY <3>1, <3>2, <3>3, <4>1, <4>2, Advanced
    <3>4. CASE built' = built /\ Fail
      BY <3>1, <3>4, <2>f
    <3>5. CASE built' = built + 1 /\ Fail
      <4>1. session' = session /\ at' = at /\ before' = before /\ lives' = lives
            /\ phase' = "unwinding" /\ UNCHANGED <<signalled, again, frozen>>
        BY <3>5 DEF Fail
      <4>2. built' \in 0..CommandsOf(session'.dual)
        BY <3>2, <3>5, <4>1 DEF CommandsOf
      <4> QED
        BY <3>1, <3>2, <4>1, <4>2, <2>s DEF LifeInv, LifeTyped, LifeOrder
    <3>6. CASE built' = built + 1 /\ built + 1 # CommandsOf(session.dual)
               /\ UNCHANGED <<session, phase, at, before, lives, signalled, again, frozen>>
      <4>1. built' \in 0..CommandsOf(session'.dual) /\ built' < CommandsOf(session'.dual)
        BY <3>2, <3>6 DEF CommandsOf
      <4> QED
        BY <3>1, <3>2, <3>6, <4>1, <2>s DEF LifeInv, LifeTyped, LifeOrder
    <3> QED
      BY <2>4, <3>3, <3>4, <3>5, <3>6 DEF CreateCommand
  <2>5. CASE SetupSatellite \/ SetupDualPath
    BY <2>5, <2>a, <2>f DEF SetupSatellite, SetupDualPath, SetupNetem, Step, childVars
  <2>6. CASE InitBearer \/ OpenRecording
    BY <2>6, <2>a, <2>f DEF InitBearer, OpenRecording, Step, childVars
  <2>7. CASE StoreEvaluators
    BY <2>7, <2>a DEF StoreEvaluators, Step, childVars
  <2>8. CASE SetHook
    BY <2>8, <2>a DEF SetHook, Step, childVars
  <2>9. CASE Listen
    BY <2>9, <2>a, <2>f DEF Listen, Step, childVars
  <2>10. CASE StartDrivers
    BY <2>10, <2>a DEF StartDrivers, Step, childVars
  <2>11. CASE Launch
    <3>1. phase = "starting" /\ built' = built /\ Startup(session)[at] = "child"
      BY <2>11 DEF Launch, Step
    <3>2. at \in 1..Len(Startup(session))
      BY <1>0, <3>1 DEF LifeInv, LifeTyped, LifeOrder
    <3>3. at = Len(Startup(session)) /\ session.command # "serve"
      BY <1>0, <3>1, <3>2, PlaceOf
    <3>4. CASE Advance
      <4>1. child' = "running" => child = "running" \/ at = Len(Startup(session))
        BY <3>3
      <4>2. session.command = "serve" => built' = 0 /\ child' = "none"
        BY <3>3
      <4> QED
        BY <3>1, <3>4, <4>1, <4>2, Advanced, Zenon
    <3>5. CASE Fail /\ child' = child
      BY <3>1, <3>5, <2>f
    <3> QED
      BY <2>11, <3>4, <3>5 DEF Launch, childVars
  <2> QED
    BY <1>3, <2>1, <2>2, <2>3, <2>4, <2>5, <2>6, <2>7, <2>8, <2>9, <2>10, <2>11 DEF Start
<1>4. CASE Stop
  <2>1. CASE CommandDone
    <3>1. child' = child /\ child # "running" /\ phase = "running"
      BY <2>1 DEF CommandDone, SeeExit, Waited, Watching
    <3> QED
      <4>1. Steady /\ Onward
        BY <2>1, <3>1, <1>0 DEF CommandDone, Leave, Steady, Onward
      <4> QED
        BY <3>1, <4>1, Stayed
  <2>2. CASE Interrupt \/ ReplayDone \/ StopWaiting
    <3>1. UNCHANGED lifeVars /\ child' = child
      BY <2>2 DEF Interrupt, ReplayDone, StopWaiting, StayAlive, Terminate, GraceOver
    <3> QED
      BY <3>1, <1>e, <1>q, Zenon
  <2>3. CASE Reaped
    <3>1. child' = child /\ child # "running" /\ phase = "running" /\ at = Len(Startup(session))
          /\ session.command # "serve"
      BY <2>3 DEF Reaped, Reap, Waited, Watching, LifeInv, LifeOrder
    <3>2. UNCHANGED <<session, at, built, before, lives, signalled, frozen>> /\ again' = FALSE
      BY <2>3 DEF Reaped
    <3>3. CASE phase' = "unwinding"
      <4>1. Steady /\ Onward
        BY <3>1, <3>2, <3>3, <1>0 DEF Steady, Onward
      <4> QED
        BY <3>1, <4>1, Stayed
    <3>4. CASE phase' = "starting"
      <4>1. at > 3
        <5>1. session.command = "run" \/ session.command = "replay"
          BY <3>1, <1>0, SessionParts
        <5>2. Len(Startup(session)) = 12 \/ Len(Startup(session)) = 6
          BY <5>1, <1>0, Lengths, Zenon
        <5>3. at = 12 \/ at = 6
          BY <3>1, <5>2, Zenon
        <5> QED
          BY <5>3
      <4>2. LifeTyped'
        BY <3>2, <3>4 DEF LifeInv, LifeTyped
      <4> QED
        BY <1>0, <3>1, <3>2, <3>4, <4>1, <4>2 DEF LifeInv, LifeOrder
    <3> QED
      BY <2>3, <3>3, <3>4 DEF Reaped
  <2>4. CASE CloseServer
    <3>1. child' = child /\ child # "running" /\ phase = "running"
      BY <2>4 DEF CloseServer, childVars, LifeInv, LifeOrder
    <3> QED
      <4>1. Steady /\ Onward
        BY <2>4, <3>1, <1>0 DEF CloseServer, Leave, Steady, Onward
      <4> QED
        BY <3>1, <4>1, Stayed
  <2>5. CASE Unwind
    <3>1. child' = child /\ child # "running" /\ phase = "unwinding" /\ phase' = "returned"
      BY <2>5 DEF Unwind, Disown, LifeInv, LifeOrder
    <3> QED
      <4>1. Steady /\ Onward
        BY <2>5, <3>1, <1>0 DEF Unwind, Steady, Onward
      <4> QED
        BY <3>1, <4>1, Stayed
  <2> QED
    BY <1>4, <2>1, <2>2, <2>3, <2>4, <2>5 DEF Stop
<1>5. CASE Quit
  <2>1. child' = child /\ again' \in BOOLEAN
    BY <1>5, <1>0 DEF Quit, Terminate
  <2> QED
    <3>1. Steady /\ phase' = phase
      BY <1>5, <2>1, <1>0 DEF Quit, Steady
    <3> QED
      BY <2>1, <3>1, <1>q, Zenon
<1>6. CASE SwitchFocus \/ Signal
  <2>1. Steady /\ phase' = phase /\ child' = child
    BY <1>6, <1>0 DEF SwitchFocus, Signal, childVars, Steady
  <2> QED
    BY <2>1, <1>q, Zenon
<1>7. CASE Crash
  <2>1. child' = "none" /\ phase' = "crashed" /\ lives = 1
        /\ phase \in {"starting", "running", "unwinding"}
        /\ UNCHANGED <<session, at, built, before, lives, signalled, again, frozen>>
    BY <1>7 DEF Crash, ClearChild, Alive
  <2>2. LifeTyped'
    BY <2>1 DEF LifeInv, LifeTyped
  <2> QED
    BY <2>1, <2>2 DEF LifeInv, LifeOrder
<1>8. CASE UNCHANGED lifeVars /\ (UNCHANGED childVars \/ ChildStep \/ Killed)
  <2>1. child' = child \/ (child = "running" /\ child' = "exited")
    BY <1>8 DEF childVars, ChildStep, ChildExits, ReplayEnds, Fork, HeirsEnd, PrintLine, Killed,
                KillLands
  <2> QED
    BY <1>8, <2>1, <1>e, <1>q, Zenon
<1>9. StrayLeaves \/ ChildStep \/ Killed \/ Request \/ (\E c \in Clients : Handle(c))
        \/ OpenStream \/ CloseStream \/ Handler \/ Report
        \/ (\E s \in Sources : Callback(s)) \/ (\E n \in 1..MaxEvents : Enqueue(n))
        => UNCHANGED lifeVars /\ (UNCHANGED childVars \/ ChildStep \/ Killed)
  BY DEF StrayLeaves, ChildStep, Killed, Request, Handle, OpenStream, CloseStream, Handler,
         Report, Callback, Enqueue, StreamOnly, StayAlive
<1> QED
  BY <1>1, <1>2, <1>3, <1>4, <1>5, <1>6, <1>7, <1>8, <1>9 DEF Next

LEMMA EventsAreFine ==
  /\ Greeting("session_info") \in Events /\ Greeting("initial") \in Events
  /\ \A n \in 1..MaxEvents : Handover(n) \in Events
<1>1. MaxEvents \in Nat /\ Bearer \in Sources /\ 0 \in 0..MaxEvents
  BY StreamAssumption DEF Sources
<1>2. Greeting("session_info") \in Events /\ Greeting("initial") \in Events
  BY <1>1 DEF Greeting, Events
<1>3. ASSUME NEW n \in 1..MaxEvents
      PROVE  Handover(n) \in Events
  BY <1>1 DEF Handover, Events
<1> QED
  BY <1>2, <1>3

LEMMA LifeInit ==
  ASSUME Init
  PROVE  LifeInv
<1>1. session \in Sessions /\ Len(Startup(session)) \in Nat
  BY Lengths DEF Init
<1>2. HostTypeOK /\ ChildTypeOK
  <2>1. HostTypeOK
    BY DEF Init, HostInit, HostTypeOK
  <2>2. child = "none" /\ heirs = {} /\ watch = "off" /\ reading = FALSE /\ stuck = FALSE
        /\ lines = 0 /\ replayed = FALSE /\ 0 \in 0..MaxLines
    BY MaxLinesAssumption DEF Init, ChildInit
  <2>3. ChildTypeOK
    BY <2>2 DEF ChildTypeOK
  <2> QED
    BY <2>1, <2>3
<1>3. DeviceTypeOK /\ Asked
  BY DEF Init, DeviceInit, DeviceTypeOK, NoRequest, Answers, Asked
<1>4. StreamTyped
  <2>1. 0 \in 0..MaxEvents
    BY StreamAssumption
  <2> QED
    BY <2>1 DEF Init, StreamInit, StreamTyped
<1>5. Queued(Events)
  <2>1. << >> \in Seq(Events) /\ Len(<< >>) = 0
    OBVIOUS
  <2>2. channel \in Seq(Events) /\ received \in Seq(Events) /\ Len(channel) = 0
    BY <2>1 DEF Init, StreamInit
  <2> QED
    BY <2>2, StreamAssumption DEF Queued
<1>6. LifeTyped
  <2>1. at = 0 /\ built = 0 /\ lives = 0 /\ phase = "idle"
        /\ signalled = FALSE /\ again = FALSE /\ frozen = FALSE
        /\ before = [rules |-> rules, veth |-> veth]
    BY DEF Init
  <2>2. before \in [rules : [Links -> Nat], veth : [Links -> {"none", "host", "inside", "orphan"}]]
    BY <1>2, <2>1 DEF HostTypeOK
  <2>3. at \in 0..Len(Startup(session)) /\ built \in 0..CommandsOf(session.dual) /\ lives \in 0..2
    BY <1>1, <2>1 DEF CommandsOf
  <2> QED
    BY <1>1, <2>1, <2>2, <2>3 DEF LifeTyped
<1>7. LifeOrder /\ ServeBare
  BY DEF Init, ChildInit, LifeOrder, ServeBare
<1> QED
  BY <1>2, <1>3, <1>4, <1>5, <1>6, <1>7 DEF LifeInv

\* A life keeps its command line.
LEMMA SessionKept ==
  ASSUME [Next]_vars
  PROVE  session' = session
<1>1. CASE UNCHANGED vars \/ Begin
  BY <1>1 DEF vars, lifeVars, Begin
<1>2. CASE Start
  <2>1. Advance \/ Fail \/ session' = session
    BY <1>2, Zenon DEF Start, Skip, Register, CleanStale, CreateCommand, SetupSatellite,
       SetupDualPath, SetupNetem, InitBearer, OpenRecording, StoreEvaluators, SetHook, Listen,
       StartDrivers, Launch
  <2> QED
    BY <2>1 DEF Advance, Fail
<1>3. CASE Stop \/ Quit \/ SwitchFocus \/ Signal \/ Crash
  BY <1>3 DEF Stop, CommandDone, Interrupt, ReplayDone, StopWaiting, Reaped, CloseServer, Unwind,
     Leave, StayAlive, lifeVars, Quit, SwitchFocus, Signal, Crash
<1>4. CASE StrayLeaves \/ ChildStep \/ Killed \/ Request \/ (\E c \in Clients : Handle(c))
             \/ OpenStream \/ CloseStream \/ Handler \/ Report
             \/ (\E s \in Sources : Callback(s)) \/ (\E n \in 1..MaxEvents : Enqueue(n))
  <2>1. UNCHANGED lifeVars
    BY <1>4, Zenon DEF StrayLeaves, ChildStep, Killed, Request, Handle, OpenStream, CloseStream,
       Handler, Report, Callback, Enqueue, StreamOnly, StayAlive
  <2> QED
    BY <2>1 DEF lifeVars
<1> QED
  BY <1>1, <1>2, <1>3, <1>4 DEF Next

LEMMA BareStays ==
  ASSUME ServeBare, session' = session, ChildMove, session.command = "serve" => child = "none"
  PROVE  ServeBare'
<1> SUFFICES ASSUME session.command = "serve" PROVE heirs' = {}
  BY DEF ServeBare
<1>1. heirs = {} /\ ~Writing
  BY DEF ServeBare, Writing
<1> QED
  BY <1>1 DEF ChildMove, childVars, ClearChild, StartChild, ChildExits, ReplayEnds, Fork, HeirsEnd,
              PrintLine, Disown, SeeExit, Terminate, GraceOver, KillLands, Reap

LEMMA LifeNext ==
  ASSUME LifeInv, [Next]_vars
  PROVE  LifeInv'
<1>1. \A s \in Sources \ {Bearer} :
        inCall[s] # 0 => [src |-> s, n |-> inCall[s], by |-> EvaluatorFor(s)] \in Events
  <2>1. ASSUME NEW s \in Sources
        PROVE  [src |-> s, n |-> inCall[s], by |-> EvaluatorFor(s)] \in Events
    <3>1. inCall[s] \in 0..MaxEvents
      BY DEF LifeInv, StreamTyped
    <3>2. EvaluatorFor(s) \in Sources \union {"session", "none"}
      BY DEF EvaluatorFor
    <3> QED
      BY <3>1, <3>2 DEF Events
  <2> QED
    BY <2>1
<1>2. HostMove /\ ChildMove /\ DeviceMove /\ StreamMove(Events)
  BY <1>1, Moves
<1>3. HostTypeOK'
  BY <1>2, HostTypes DEF HostMove, LifeInv
<1>4. ChildTypeOK'
  BY <1>2, ChildTypes DEF LifeInv, LifeTyped
<1>5. DeviceTypeOK' /\ Asked'
  BY <1>2, DeviceTypes DEF LifeInv, LifeTyped, Asked
<1>6. StreamTyped' /\ Queued(Events)'
  BY <1>2, StreamTypes, EventsAreFine DEF LifeInv
<1>7. LifeTyped' /\ LifeOrder'
  BY LifeStep
<1>8. ServeBare'
  BY <1>2, SessionKept, BareStays DEF LifeInv, LifeOrder
<1> QED
  BY <1>3, <1>4, <1>5, <1>6, <1>7, <1>8 DEF LifeInv

\* At every moment of every session the state is well formed, and the start
\* has come as far as the order of its steps allows.
THEOREM LifeCorrect == Spec => []LifeInv
<1>1. Init => LifeInv
  BY LifeInit
<1>2. LifeInv /\ [Next]_vars => LifeInv'
  BY LifeNext
<1> QED
  BY <1>1, <1>2, PTL DEF Spec

\* The types of the host, the child, the devices, the stream and the life.
THEOREM TypesHold == Spec => []TypeOK
<1>1. LifeInv => TypeOK
  BY DEF LifeInv, LifeTyped, StreamTyped, Queued, StreamTypeOK, TypeOK
<1> QED
  BY <1>1, LifeCorrect, PTL

-----------------------------------------------------------------------------
(* What a session leaves on the host.                                      *)

\* The rule each egress got from this life's Create so far.
Added(l) == IF l = "sat" THEN (IF built >= 5 THEN 1 ELSE 0)
            ELSE (IF built >= 9 THEN 1 ELSE 0)

HalfMade(l) == built > 0 /\ Commands[built] = Command("link add", l)

\* Why the host can be restored: a rule beyond those of before is this
\* life's own, a pair still outside is the one under way, and an orphan is
\* held by a stray process, left by a crashed life or by one that returned.
HostInv ==
  /\ Alive => \A l \in Links :
       /\ rules[l] <= before.rules[l] + Added(l)
       /\ veth[l] = "host" => before.veth[l] = "host" \/ HalfMade(l)
  /\ \A l \in Links : veth[l] = "orphan" => stray = "apart"
  /\ stray # "none" => lives = 2 \/ phase \in {"crashed", "returned"}
  /\ session.command = "serve" =>
       ~named /\ stray = "none" /\ \A l \in Links : veth[l] = "none"
  /\ phase = "returned" =>
       /\ ~named
       /\ \A l \in Links :
            /\ rules[l] <= before.rules[l]
            /\ \/ veth[l] = "none"
               \/ veth[l] = "orphan" /\ stray = "apart"
               \/ veth[l] = "host" /\ before.veth[l] = "host"
               \/ veth[l] = "host" /\ HalfMade(l)

LEMMA HostInitially ==
  ASSUME Init
  PROVE  HostInv
<1>1. phase = "idle" /\ named = FALSE /\ stray = "none" /\ veth = [l \in Links |-> "none"]
  BY DEF Init, HostInit
<1> QED
  BY <1>1 DEF HostInv, Alive

\* A step that leaves the host, what was before and what was built alone.
LEMMA HostKept ==
  ASSUME HostInv, UNCHANGED hostVars,
         session' = session, built' = built, before' = before, lives' = lives,
         Alive' => Alive, phase \in {"crashed", "returned"} => phase' = phase,
         phase' = "returned" => phase = "returned"
  PROVE  HostInv'
<1>1. named' = named /\ veth' = veth /\ rules' = rules /\ stray' = stray
  BY DEF hostVars
<1>2. \A l \in Links : Added(l)' = Added(l) /\ HalfMade(l)' = HalfMade(l)
  BY DEF Added, HalfMade
<1>3. Alive' => \A l \in Links :
       /\ rules'[l] <= before'.rules[l] + Added(l)'
       /\ veth'[l] = "host" => before'.veth[l] = "host" \/ HalfMade(l)'
  BY <1>1, <1>2 DEF HostInv
<1>4. phase' = "returned" =>
       /\ ~named'
       /\ \A l \in Links :
            /\ rules'[l] <= before'.rules[l]
            /\ \/ veth'[l] = "none"
               \/ veth'[l] = "orphan" /\ stray' = "apart"
               \/ veth'[l] = "host" /\ before'.veth[l] = "host"
               \/ veth'[l] = "host" /\ HalfMade(l)'
  BY <1>1, <1>2 DEF HostInv
<1>5. /\ \A l \in Links : veth'[l] = "orphan" => stray' = "apart"
      /\ stray' # "none" => lives' = 2 \/ phase' \in {"crashed", "returned"}
      /\ session'.command = "serve" =>
           ~named' /\ stray' = "none" /\ \A l \in Links : veth'[l] = "none"
  BY <1>1 DEF HostInv
<1> QED
  BY <1>3, <1>4, <1>5 DEF HostInv

LEMMA HostBegin ==
  ASSUME LifeInv, HostInv, Begin
  PROVE  HostInv'
<1>1. /\ named' = named /\ veth' = veth /\ rules' = rules /\ stray' = stray
      /\ session' = session /\ phase' = "starting" /\ lives' = lives + 1
      /\ before' = [rules |-> rules, veth |-> veth]
  BY DEF Begin, hostVars
<1>2. \A l \in Links : rules[l] \in Nat /\ Added(l)' \in Nat
  BY DEF LifeInv, HostTypeOK, Added
<1>3. \A l \in Links : rules'[l] <= before'.rules[l] + Added(l)'
  BY <1>1, <1>2
<1>4. \A l \in Links : veth'[l] = "host" => before'.veth[l] = "host"
  BY <1>1
<1>5. stray' # "none" => lives' = 2
  <2>1. stray # "none" => lives = 2 \/ phase \in {"crashed", "returned"}
    BY DEF HostInv
  <2>2. lives = 0 \/ lives = 1
    BY DEF LifeInv, LifeOrder, Begin
  <2>3. stray # "none" => lives = 1
    <3>1. (phase = "crashed" => lives = 1) /\ phase # "returned"
      BY DEF LifeInv, LifeOrder, Begin
    <3> QED
      BY <2>1, <2>2, <3>1
  <2> QED
    BY <1>1, <2>3
<1>6. /\ \A l \in Links : veth'[l] = "orphan" => stray' = "apart"
      /\ session'.command = "serve" =>
           ~named' /\ stray' = "none" /\ \A l \in Links : veth'[l] = "none"
  BY <1>1 DEF HostInv
<1> QED
  BY <1>1, <1>3, <1>4, <1>5, <1>6 DEF HostInv

\* Which commands matter to the rules and the pairs.
LEMMA CommandLinks ==
  ASSUME NEW k \in 1..9
  PROVE  /\ Commands[k].op = "masquerade" =>
              (k = 5 /\ Commands[k].link = "sat") \/ (k = 9 /\ Commands[k].link = "terr")
         /\ Commands[k].op = "link add" => Commands[k] = Command("link add", Commands[k].link)
         /\ \A j \in 1..9 : k = j + 1 /\ Commands[j].op = "link add" =>
              Commands[k].op = "link set" /\ Commands[k].link = Commands[j].link
<1>1. k = 1 \/ k = 2 \/ k = 3 \/ k = 4 \/ k = 5 \/ k = 6 \/ k = 7 \/ k = 8 \/ k = 9
  OBVIOUS
<1>2. Commands[1].op = "netns add" /\ Commands[2].op = "link add" /\ Commands[3].op = "link set"
      /\ Commands[4].op = "configure" /\ Commands[5].op = "masquerade"
      /\ Commands[6].op = "link add" /\ Commands[7].op = "link set"
      /\ Commands[8].op = "configure" /\ Commands[9].op = "masquerade"
  BY DEF Commands, Command
<1>3. Commands[2].link = "sat" /\ Commands[3].link = "sat" /\ Commands[5].link = "sat"
      /\ Commands[6].link = "terr" /\ Commands[7].link = "terr" /\ Commands[9].link = "terr"
  BY DEF Commands, Command
<1>4. Commands[2] = Command("link add", "sat") /\ Commands[6] = Command("link add", "terr")
  BY DEF Commands, Command
<1>5. ASSUME NEW j \in 1..9, k = j + 1, Commands[j].op = "link add"
      PROVE  Commands[k].op = "link set" /\ Commands[k].link = Commands[j].link
  <2>1. j = 1 \/ j = 2 \/ j = 3 \/ j = 4 \/ j = 5 \/ j = 6 \/ j = 7 \/ j = 8 \/ j = 9
    OBVIOUS
  <2>3. j = 2 \/ j = 6
    BY <1>2, <1>5, <2>1
  <2>4. j + 1 = k
    BY <1>5
  <2>2. (j = 2 /\ k = 3) \/ (j = 6 /\ k = 7)
    BY <2>3, <2>4
  <2> QED
    BY <1>2, <1>3, <2>2
<1>6. Commands[k].op = "link add" => Commands[k] = Command("link add", Commands[k].link)
  BY <1>1, <1>2, <1>3, <1>4
<1>7. Commands[k].op = "masquerade" =>
        (k = 5 /\ Commands[k].link = "sat") \/ (k = 9 /\ Commands[k].link = "terr")
  BY <1>1, <1>2, <1>3
<1> QED
  BY <1>5, <1>6, <1>7

\* A pair whose `link add` was the last command is the one the next is about.
LEMMA HalfMadeNext ==
  ASSUME built \in Nat, built + 1 \in 1..9, NEW m \in Links, HalfMade(m)
  PROVE  Commands[built + 1].op = "link set" /\ Commands[built + 1].link = m
<1>0. built > 0 /\ Commands[built] = Command("link add", m)
  BY Zenon DEF HalfMade
<1>1. built \in 1..9
  <2>1. built > 0
    BY Zenon DEF HalfMade
  <2> QED
    BY <2>1
<1>3. Command("link add", m).op = "link add" /\ Command("link add", m).link = m
  BY DEF Command
<1>2. Commands[built].op = "link add" /\ Commands[built].link = m
  BY <1>0, <1>3, Zenon
<1> QED
  BY <1>1, <1>2, CommandLinks

LEMMA HostTook ==
  ASSUME LifeInv, HostInv, Step("create"),
         Take(Commands[built + 1]), UNCHANGED stray, built' = built + 1,
         session' = session, before' = before, lives' = lives, Alive', phase' # "returned"
  PROVE  HostInv'
<1>0. built \in Nat /\ built + 1 \in 1..9 /\ session.command # "serve"
  BY NextCommand DEF LifeInv
<1>k. PICK k \in 1..9 : k = built + 1
  BY <1>0
<1>l. PICK l \in Links : l = Commands[k].link
  BY CommandParts
<1>o. PICK op : op = Commands[k].op
  OBVIOUS
<1>1. built \in Nat /\ k = built + 1 /\ built' = k /\ session.command # "serve"
  BY <1>0, <1>k
<1>2. Alive /\ phase \notin {"crashed", "returned"}
  BY DEF Alive, Step
<1>3. \/ op = "netns add" /\ veth' = veth /\ rules' = rules
      \/ op = "link add" /\ veth[l] = "none" /\ veth' = [veth EXCEPT ![l] = "host"] /\ rules' = rules
      \/ op = "link set" /\ veth' = [veth EXCEPT ![l] = "inside"] /\ rules' = rules
      \/ op = "configure" /\ veth' = veth /\ rules' = rules
      \/ op = "masquerade" /\ rules' = [rules EXCEPT ![l] = @ + 1] /\ veth' = veth
  <2>1. Take(Commands[k])
    BY <1>k, Zenon
  <2> QED
    BY <2>1, <1>l, <1>o, Zenon DEF Take
<1>4. veth \in [Links -> {"none", "host", "inside", "orphan"}] /\ rules \in [Links -> Nat]
      /\ before.rules \in [Links -> Nat]
  BY DEF LifeInv, HostTypeOK, LifeTyped
<1>5. \A m \in Links : HalfMade(m) => op = "link set" /\ l = m
  BY <1>0, <1>k, <1>l, <1>o, HalfMadeNext, Zenon
<1>6. op = "link add" => HalfMade(l)'
  <2>1. op = "link add" => Commands[k] = Command("link add", l)
    BY <1>l, <1>o, CommandLinks, Zenon
  <2>2. k > 0
    OBVIOUS
  <2> QED
    BY <1>1, <2>1, <2>2, Zenon DEF HalfMade
<1>7. op = "masquerade" => (k = 5 /\ l = "sat") \/ (k = 9 /\ l = "terr")
  BY <1>l, <1>o, CommandLinks, Zenon
<1>8. \A m \in Links : Added(m) \in Nat /\ Added(m)' \in Nat /\ Added(m)' >= Added(m)
  <2>1. ASSUME NEW m \in Links
        PROVE  Added(m) \in Nat /\ Added(m)' \in Nat /\ Added(m)' >= Added(m)
    <3>1. built' \in Nat /\ built' > built
      BY <1>1
    <3> QED
      BY <1>1, <3>1 DEF Added
  <2> QED
    BY <2>1
<1>9. op = "masquerade" => Added(l)' = Added(l) + 1
  <2>1. CASE k = 5 /\ l = "sat"
    <3>1. built = 4 /\ built' = 5 /\ ~(built >= 5) /\ built' >= 5
      BY <1>1, <2>1
    <3> QED
      BY <2>1, <3>1 DEF Added
  <2>2. CASE k = 9 /\ l = "terr"
    <3>1. built = 8 /\ built' = 9
      BY <1>1, <2>2
    <3> QED
      BY <2>2, <3>1 DEF Added
  <2> QED
    BY <1>7, <2>1, <2>2
<1>10. ASSUME NEW m \in Links
       PROVE  /\ rules'[m] <= before.rules[m] + Added(m)'
              /\ veth'[m] = "host" => before.veth[m] = "host" \/ HalfMade(m)'
              /\ veth'[m] = "orphan" => veth[m] = "orphan"
  <2>1. rules[m] <= before.rules[m] + Added(m) /\ rules[m] \in Nat /\ before.rules[m] \in Nat
        /\ (veth[m] = "host" => before.veth[m] = "host" \/ HalfMade(m))
    BY <1>2, <1>4 DEF HostInv
  <2>2. rules'[m] <= before.rules[m] + Added(m)'
    <3>1. CASE rules' = rules
      BY <2>1, <3>1, <1>8
    <3>2. CASE op = "masquerade" /\ rules' = [rules EXCEPT ![l] = @ + 1]
      <4>1. CASE m = l
        <5>1. rules'[m] = rules[m] + 1
          BY <1>4, <3>2, <4>1, Zenon
        <5>2. Added(m)' = Added(m) + 1
          BY <1>9, <3>2, <4>1
        <5> QED
          BY <2>1, <5>1, <5>2, <1>8
      <4>2. CASE m # l
        <5>1. rules'[m] = rules[m]
          BY <1>4, <3>2, <4>2
        <5> QED
          BY <2>1, <5>1, <1>8
      <4> QED
        BY <4>1, <4>2
    <3> QED
      BY <1>3, <3>1, <3>2
  <2>3. (veth'[m] = "host" => before.veth[m] = "host" \/ HalfMade(m)')
        /\ (veth'[m] = "orphan" => veth[m] = "orphan")
    <3>1. CASE veth' = veth /\ op # "link set"
      BY <2>1, <3>1, <1>5
    <3>2. CASE op = "link add" /\ veth' = [veth EXCEPT ![l] = "host"]
      <4>1. CASE m = l
        BY <1>4, <1>6, <3>2, <4>1
      <4>2. CASE m # l
        BY <1>4, <1>5, <2>1, <3>2, <4>2
      <4> QED
        BY <4>1, <4>2
    <3>3. CASE op = "link set" /\ veth' = [veth EXCEPT ![l] = "inside"]
      <4>1. CASE m = l
        BY <1>4, <3>3, <4>1
      <4>2. CASE m # l
        BY <1>4, <1>5, <2>1, <3>3, <4>2
      <4> QED
        BY <4>1, <4>2
    <3> QED
      BY <1>3, <3>1, <3>2, <3>3
  <2> QED
    BY <2>2, <2>3
<1>11. \A m \in Links : veth'[m] = "orphan" => stray' = "apart"
  BY <1>10 DEF HostInv
<1>12. stray' # "none" => lives' = 2 \/ phase' \in {"crashed", "returned"}
  BY <1>2 DEF HostInv
<1> QED
  BY <1>1, <1>10, <1>11, <1>12 DEF HostInv

\* A namespace that loses its name has no pair inside: whoever lives on holds an
\* orphan.
LEMMA Unnamed ==
  ASSUME HostTypeOK, HostInv, NEW inhabited \in BOOLEAN, Unname(inhabited), NEW l \in Links
  PROVE  /\ veth'[l] = "host" <=> veth[l] = "host"
         /\ veth'[l] # "inside"
         /\ veth'[l] = "orphan" => stray' = "apart"
         /\ stray' # "none" => stray # "none" \/ inhabited
         /\ ~named'
<1>1. veth[l] \in {"none", "host", "inside", "orphan"}
      /\ (veth[l] = "orphan" => stray = "apart")
  BY DEF HostTypeOK, HostInv
<1>2. veth'[l] = IF veth[l] # "inside" THEN veth[l]
                 ELSE IF inhabited \/ stray = "inside" THEN "orphan" ELSE "none"
  BY DEF Unname
<1> QED
  BY <1>1, <1>2 DEF Unname

LEMMA HostStale ==
  ASSUME LifeInv, HostInv, CleanStale
  PROVE  HostInv'
<1>1. phase = "starting" /\ built' = built /\ Advance /\ Startup(session)[at] = "stale"
  BY DEF CleanStale, Step
<1>2. session' = session /\ before' = before /\ lives' = lives /\ Alive /\ Alive'
      /\ phase' # "returned" /\ phase' # "crashed" /\ phase \notin {"crashed", "returned"}
  BY <1>1 DEF Advance, Alive
<1>3. CASE UNCHANGED hostVars
  BY <1>1, <1>2, <1>3, HostKept
<1>4. CASE DeleteStale
  <2>1. session.command # "serve"
    <3>1. at \in 1..Len(Startup(session)) /\ session \in Sessions
      BY <1>1, Lengths DEF LifeInv, LifeTyped, LifeOrder
    <3> QED
      BY <1>1, <3>1, PlaceOf
  <2>2. \A l \in Links : Added(l)' = Added(l) /\ HalfMade(l)' = HalfMade(l)
    BY <1>1 DEF Added, HalfMade
  <2>3. ASSUME NEW l \in Links
        PROVE  /\ rules'[l] <= before.rules[l] + Added(l)'
               /\ veth'[l] = "host" => before.veth[l] = "host" \/ HalfMade(l)'
               /\ veth'[l] = "orphan" => stray' = "apart"
    <3>1. (veth'[l] = "host" <=> veth[l] = "host") /\ (veth'[l] = "orphan" => stray' = "apart")
      BY <1>4, Unnamed DEF DeleteStale, LifeInv
    <3>2. rules' = rules
      BY <1>4 DEF DeleteStale
    <3> QED
      BY <1>2, <2>2, <3>1, <3>2 DEF HostInv
  <2>4. stray' # "none" => lives' = 2 \/ phase' \in {"crashed", "returned"}
    <3>1. stray' # "none" => stray # "none"
      BY <1>4 DEF DeleteStale, Unname
    <3> QED
      BY <1>2, <3>1 DEF HostInv
  <2> QED
    BY <1>2, <2>1, <2>3, <2>4 DEF HostInv
<1> QED
  BY <1>3, <1>4 DEF CleanStale

LEMMA HostUnwound ==
  ASSUME LifeInv, HostInv, Unwind
  PROVE  HostInv'
<1>1. phase = "unwinding" /\ phase' = "returned" /\ session' = session /\ built' = built
      /\ before' = before /\ lives' = lives
  BY DEF Unwind
<1>2. Alive /\ ~Alive'
  BY <1>1 DEF Alive
<1>3. \A l \in Links : HalfMade(l)' = HalfMade(l)
  BY <1>1 DEF HalfMade
<1>4. CASE session.command = "serve" /\ UNCHANGED hostVars
  <2>1. built = 0
    BY <1>4 DEF LifeInv, LifeOrder
  <2>2. named' = named /\ stray' = stray /\ veth' = veth /\ rules' = rules
    BY <1>4 DEF hostVars
  <2>3. ASSUME NEW l \in Links
        PROVE  rules'[l] <= before'.rules[l] /\ veth'[l] = "none"
    <3>1. rules[l] <= before.rules[l] + Added(l) /\ veth[l] = "none"
      BY <1>2, <1>4 DEF HostInv
    <3>2. Added(l) = 0
      BY <2>1 DEF Added
    <3>3. before.rules[l] \in Nat
      BY DEF LifeInv, LifeTyped
    <3> QED
      BY <1>1, <2>2, <3>1, <3>2, <3>3
  <2>4. ~named' /\ stray' = "none"
    BY <1>4, <2>2 DEF HostInv
  <2> QED
    BY <1>1, <1>2, <2>3, <2>4 DEF HostInv
<1>5. CASE session.command # "serve" /\ Destroy(LinksOf(session.dual), Inhabited)
  <2>3. Inhabited \in BOOLEAN /\ Unname(Inhabited)
    BY <1>5 DEF Destroy, Inhabited
  <2>4. ASSUME NEW l \in Links
        PROVE  /\ rules'[l] <= before'.rules[l]
               /\ \/ veth'[l] = "none"
                  \/ veth'[l] = "orphan" /\ stray' = "apart"
                  \/ veth'[l] = "host" /\ before'.veth[l] = "host"
                  \/ veth'[l] = "host" /\ HalfMade(l)'
    <3>1. /\ rules[l] <= before.rules[l] + Added(l)
          /\ veth[l] = "host" => before.veth[l] = "host" \/ HalfMade(l)
      BY <1>2 DEF HostInv
    <3>2. rules[l] \in Nat /\ before.rules[l] \in Nat
      BY DEF LifeInv, LifeTyped, HostTypeOK
    <3>3. rules'[l] = IF l \in LinksOf(session.dual) /\ rules[l] > 0
                      THEN rules[l] - 1 ELSE rules[l]
      BY <1>5 DEF Destroy
    <3>4. Added(l) \in {0, 1} /\ (l \notin LinksOf(session.dual) => Added(l) = 0)
      <4>1. built \in 0..CommandsOf(session.dual) /\ session.dual \in BOOLEAN
        BY SessionParts DEF LifeInv, LifeTyped
      <4>2. CASE session.dual
        BY <4>2 DEF Added, LinksOf
      <4>3. CASE ~session.dual
        <5>1. built \in 0..5
          BY <4>1, <4>3 DEF CommandsOf
        <5>2. l \notin LinksOf(session.dual) => l # "sat"
          BY <4>3 DEF LinksOf
        <5> QED
          BY <5>1, <5>2 DEF Added
      <4> QED
        BY <4>1, <4>2, <4>3
    <3>5. rules'[l] <= before.rules[l]
      <4>1. CASE l \in LinksOf(session.dual) /\ rules[l] > 0
        BY <3>1, <3>2, <3>3, <3>4, <4>1
      <4>2. CASE rules[l] = 0
        BY <3>2, <3>3, <4>2
      <4>3. CASE l \notin LinksOf(session.dual)
        BY <3>1, <3>2, <3>3, <3>4, <4>3
      <4> QED
        BY <3>2, <4>1, <4>2, <4>3
    <3>6. /\ veth'[l] = "host" <=> veth[l] = "host"
          /\ veth'[l] # "inside"
          /\ veth'[l] = "orphan" => stray' = "apart"
      BY <2>3, Unnamed DEF LifeInv
    <3>7. veth'[l] \in {"none", "host", "inside", "orphan"}
      <4>1. HostTypeOK'
        BY LifeNext DEF LifeInv, Next, Stop
      <4> QED
        BY <4>1 DEF HostTypeOK
    <3> QED
      BY <1>1, <1>3, <3>1, <3>5, <3>6, <3>7
  <2>5. ~named'
    BY <2>3 DEF Unname
  <2>6. \A l \in Links : veth'[l] = "orphan" => stray' = "apart"
    BY <2>3, Unnamed DEF LifeInv
  <2> QED
    BY <1>1, <1>2, <1>5, <2>4, <2>5, <2>6 DEF HostInv
<1> QED
  BY <1>4, <1>5 DEF Unwind

LEMMA HostCrashed ==
  ASSUME LifeInv, HostInv, Crash
  PROVE  HostInv'
<1>1. /\ phase' = "crashed" /\ lives = 1 /\ Alive /\ UNCHANGED <<named, veth, rules>>
      /\ session' = session
      /\ stray' = IF Inhabited THEN "inside" ELSE "none"
  BY DEF Crash
<1>2. ~Alive' /\ phase \notin {"crashed", "returned"}
  BY <1>1 DEF Alive
<1>3. stray = "none"
  BY <1>1, <1>2 DEF HostInv
<1>4. \A l \in Links : veth'[l] # "orphan"
  BY <1>1, <1>3 DEF HostInv
<1>5. session.command = "serve" =>
        ~named' /\ stray' = "none" /\ \A l \in Links : veth'[l] = "none"
  <2>1. session.command = "serve" => ~Inhabited
    BY DEF LifeInv, LifeOrder, ServeBare, Inhabited
  <2> QED
    BY <1>1, <2>1 DEF HostInv
<1> QED
  BY <1>1, <1>2, <1>4, <1>5 DEF HostInv

LEMMA HostStrayLeft ==
  ASSUME LifeInv, HostInv, StrayLeaves
  PROVE  HostInv'
<1>1. /\ stray # "none" /\ stray' = "none" /\ named' = named /\ rules' = rules
      /\ session' = session /\ phase' = phase /\ before' = before /\ built' = built
      /\ veth' = [l \in Links |-> IF veth[l] = "orphan" THEN "none" ELSE veth[l]]
  BY DEF StrayLeaves, StrayEnds, lifeVars
<1>2. (Alive' <=> Alive) /\ session.command # "serve"
  BY <1>1 DEF Alive, HostInv
<1>3. \A l \in Links : Added(l)' = Added(l) /\ HalfMade(l)' = HalfMade(l)
  BY <1>1 DEF Added, HalfMade
<1>4. \A l \in Links : veth'[l] = "none" \/ (veth'[l] = veth[l] /\ veth[l] # "orphan")
  BY <1>1
<1>5. Alive' => \A l \in Links :
        /\ rules'[l] <= before'.rules[l] + Added(l)'
        /\ veth'[l] = "host" => before'.veth[l] = "host" \/ HalfMade(l)'
  BY <1>1, <1>2, <1>3, <1>4 DEF HostInv
<1>6. phase' = "returned" =>
        /\ ~named'
        /\ \A l \in Links :
             /\ rules'[l] <= before'.rules[l]
             /\ \/ veth'[l] = "none"
                \/ veth'[l] = "host" /\ before'.veth[l] = "host"
                \/ veth'[l] = "host" /\ HalfMade(l)'
  BY <1>1, <1>3, <1>4 DEF HostInv
<1>7. \A l \in Links : veth'[l] # "orphan"
  BY <1>4
<1> QED
  BY <1>1, <1>2, <1>5, <1>6, <1>7 DEF HostInv

LEMMA HostCreating ==
  ASSUME LifeInv, HostInv, CreateCommand
  PROVE  HostInv'
<1>1. Step("create") /\ phase = "starting" /\ Alive
  BY DEF CreateCommand, Step, Alive
<1>2. CASE Fail /\ UNCHANGED <<hostVars, built>>
  <2>1. session' = session /\ built' = built /\ before' = before /\ lives' = lives
        /\ phase' = "unwinding" /\ UNCHANGED hostVars
    BY <1>2 DEF Fail
  <2> QED
    BY <1>1, <2>1, HostKept
<1>3. CASE /\ Take(Commands[built + 1]) /\ UNCHANGED stray /\ built' = built + 1
           /\ \/ Advance \/ Fail
              \/ UNCHANGED <<session, phase, at, before, lives, signalled, again, frozen>>
  <2>1. session' = session /\ before' = before /\ lives' = lives /\ Alive' /\ phase' # "returned"
    BY <1>1, <1>3 DEF Advance, Fail, Alive
  <2> QED
    BY <1>1, <1>3, <2>1, HostTook
<1> QED
  BY <1>2, <1>3 DEF CreateCommand

LEMMA HostNext ==
  ASSUME LifeInv, HostInv, [Next]_vars
  PROVE  HostInv'
<1> DEFINE Kept == /\ UNCHANGED hostVars
                   /\ session' = session /\ built' = built /\ before' = before /\ lives' = lives
                   /\ Alive' => Alive
                   /\ phase \in {"crashed", "returned"} => phase' = phase
                   /\ phase' = "returned" => phase = "returned"
<1>k. Kept => HostInv'
  BY HostKept
<1>1. UNCHANGED <<hostVars, lifeVars>> => Kept
  BY DEF lifeVars, Alive
<1>2. CASE UNCHANGED vars
  <2>1. UNCHANGED <<hostVars, lifeVars>>
    BY <1>2 DEF vars
  <2> QED
    BY <1>k, <1>1, <2>1, Zenon
<1>3. CASE Begin
  BY <1>3, HostBegin
<1>4. CASE Start
  <2>1. CASE CleanStale
    BY <2>1, HostStale
  <2>2. CASE CreateCommand
    BY <2>2, HostCreating
  <2>3. CASE Skip \/ Register \/ StoreEvaluators \/ SetHook \/ StartDrivers
    <3>1. UNCHANGED hostVars /\ phase = "starting" /\ built' = built /\ Advance
      BY <2>3 DEF Skip, Register, StoreEvaluators, SetHook, StartDrivers, Step
    <3>2. Kept
      BY <3>1 DEF Advance, Alive
    <3> QED
      BY <3>2, <1>k, Zenon
  <2>4. CASE SetupSatellite \/ SetupDualPath \/ InitBearer \/ OpenRecording \/ Listen \/ Launch
    <3>1. UNCHANGED hostVars /\ phase = "starting" /\ built' = built /\ (Advance \/ Fail)
      BY <2>4 DEF SetupSatellite, SetupDualPath, SetupNetem, InitBearer, OpenRecording,
                  Listen, Launch, Step
    <3>2. Kept
      BY <3>1 DEF Advance, Fail, Alive
    <3> QED
      BY <3>2, <1>k, Zenon
  <2> QED
    BY <1>4, <2>1, <2>2, <2>3, <2>4 DEF Start
<1>5. CASE Stop
  <2>1. CASE Unwind
    BY <2>1, HostUnwound
  <2>2. CASE Interrupt \/ ReplayDone \/ StopWaiting
    <3>1. UNCHANGED <<hostVars, lifeVars>>
      BY <2>2 DEF Interrupt, ReplayDone, StopWaiting, StayAlive
    <3> QED
      BY <1>k, <1>1, <3>1, Zenon
  <2>3. CASE CommandDone \/ Reaped \/ CloseServer
    <3>1. UNCHANGED hostVars /\ phase = "running" /\ phase' \in {"starting", "unwinding"}
          /\ session' = session /\ built' = built /\ before' = before /\ lives' = lives
      BY <2>3 DEF CommandDone, Reaped, CloseServer, Watching, Leave
    <3>2. Kept
      BY <3>1 DEF Alive
    <3> QED
      BY <3>2, <1>k, Zenon
  <2> QED
    BY <1>5, <2>1, <2>2, <2>3 DEF Stop
<1>6. CASE Quit \/ SwitchFocus \/ Signal
  <2>1. UNCHANGED hostVars /\ phase' = phase
        /\ session' = session /\ built' = built /\ before' = before /\ lives' = lives
    BY <1>6 DEF Quit, SwitchFocus, Signal
  <2>2. Kept
    BY <2>1 DEF Alive
  <2> QED
    BY <2>2, <1>k, Zenon
<1>7. CASE Crash
  BY <1>7, HostCrashed
<1>8. CASE StrayLeaves
  BY <1>8, HostStrayLeft
<1>9. ChildStep \/ Killed \/ Request \/ (\E c \in Clients : Handle(c))
        \/ OpenStream \/ CloseStream \/ Handler \/ Report
        \/ (\E s \in Sources : Callback(s)) \/ (\E n \in 1..MaxEvents : Enqueue(n))
        => UNCHANGED <<hostVars, lifeVars>>
  BY DEF ChildStep, Killed, Request, Handle, OpenStream, CloseStream, Handler,
         Report, Callback, Enqueue, StreamOnly, StayAlive
<1>10. CASE UNCHANGED <<hostVars, lifeVars>>
  BY <1>k, <1>1, <1>10, Zenon
<1> QED
  BY <1>2, <1>3, <1>4, <1>5, <1>6, <1>7, <1>8, <1>9, <1>10 DEF Next

\* However a session ended, whatever failed on the way and after a crash of
\* the life before, the host is as HostRestored says.
THEOREM HostIsRestored == Spec => []HostRestored
<1>1. Init => LifeInv /\ HostInv
  BY LifeInit, HostInitially
<1>2. LifeInv /\ HostInv /\ [Next]_vars => LifeInv' /\ HostInv'
  BY LifeNext, HostNext
<1>3. LifeInv /\ HostInv => HostRestored
  <2>1. ASSUME LifeInv, HostInv, phase = "returned"
        PROVE  child # "running"
    BY <2>1 DEF LifeInv, LifeOrder
  <2> QED
    BY <2>1 DEF HostInv, HostRestored, HalfMade
<1> QED
  BY <1>1, <1>2, <1>3, PTL DEF Spec

-----------------------------------------------------------------------------
(* What the clients of the API host may count on.                          *)

ListenAt     == IF session.command = "run" THEN 10 ELSE 5
EvaluatorsAt == IF session.command = "run" THEN 8 ELSE 2
HookAt       == IF session.command = "run" THEN 9 ELSE 4
DriversAt    == IF session.command = "run" THEN 11 ELSE 3

\* Something that only a listening server brings about.
Asking == \E c \in Clients : req[c] # NoRequest
Open == listening \/ stage # "none" \/ Asking

Serves == session.command = "serve" \/ session.addr

\* The server listens no earlier than its place in the start, and what
\* stands before that place has been done.
Ready ==
  /\ Open => /\ Alive /\ Serves /\ ListenAt <= at
             /\ phase = "starting" => ListenAt < at
  /\ Alive /\ at > 1 => session.own \subseteq registry
  /\ Alive /\ Serves /\ session.command # "replay" =>
       /\ at > EvaluatorsAt => session.own \subseteq evaluators
       /\ at > HookAt => hook

\* Devices of the command line get their driver from the start alone, the
\* others from the hook alone.
Driven == session.command # "replay" /\ at > DriversAt

Loops ==
  /\ Alive => \A i \in session.own : drivers[i] = IF Driven THEN 1 ELSE 0
  /\ ~Alive => \A i \in Ids : drivers[i] = 0
  /\ \A i \in Ids \ session.own :
       /\ drivers[i] \in {0, 1}
       /\ drivers[i] = 1 => i \in registry /\ i \in evaluators /\ Asking

Pending(c) == req[c].at \in {"registered", "stored"}

\* What is known of a request at each of its stages.
Told(c) ==
  /\ req[c].at \in {"idle", "received", "registered", "stored", "found"} => req[c].answer = 0
  /\ Pending(c) =>
       /\ req[c].kind = "post" /\ session.profile
       /\ req[c].id \in registry \ session.own /\ drivers[req[c].id] = 0
  /\ req[c].at = "stored" => req[c].id \in evaluators
  /\ req[c].answer = 201 =>
       /\ req[c].id \in registry \ session.own /\ req[c].id \in evaluators
       /\ drivers[req[c].id] = 1
  /\ req[c].kind = "condition" /\ req[c].promised =>
       /\ req[c].at = "received" => req[c].id \in registry /\ req[c].id \in evaluators
       /\ req[c].at = "found" => req[c].id \in evaluators
       /\ req[c].at = "done" => req[c].answer = 200

Apart ==
  \A c, d \in Clients : c # d /\ Pending(c) /\ Pending(d) => req[c].id # req[d].id

\* A device whose event is on its way to a client has its evaluator.
Followed ==
  /\ subs # {} => stage # "none"
  /\ \A s \in Sources : inCall[s] # 0 => stage # "none" /\ (s # Bearer => s \in evaluators)

OwnEvents == {ev \in Events : ev.src \in Ids => ev.by = ev.src}

DeviceInv ==
  /\ Ready /\ Loops /\ Apart /\ Followed /\ Queued(OwnEvents)
  /\ \A c \in Clients : Told(c)

\* What depends on the command line alone stays with it.
LEMMA SamePlaces ==
  ASSUME session' = session
  PROVE  /\ ListenAt' = ListenAt /\ EvaluatorsAt' = EvaluatorsAt
         /\ HookAt' = HookAt /\ DriversAt' = DriversAt /\ (Serves' <=> Serves)
         /\ Known' = Known /\ Equipped' = Equipped
BY DEF ListenAt, EvaluatorsAt, HookAt, DriversAt, Serves, Known, Equipped

\* The same requests, devices and stream satisfy the same of it.
LEMMA Untouched ==
  ASSUME DeviceInv, UNCHANGED <<deviceVars, streamVars>>, session' = session
  PROVE  /\ (Open' <=> Open) /\ (Asking' <=> Asking)
         /\ Apart' /\ Followed' /\ Queued(OwnEvents)' /\ \A c \in Clients : Told(c)'
         /\ registry' = registry /\ evaluators' = evaluators /\ drivers' = drivers /\ hook' = hook
<1>1. /\ registry' = registry /\ evaluators' = evaluators /\ drivers' = drivers
      /\ hook' = hook /\ listening' = listening /\ req' = req
  BY DEF deviceVars
<1>2. stage' = stage /\ subs' = subs /\ inCall' = inCall /\ channel' = channel
      /\ received' = received
  BY DEF streamVars
<1>3. (Open' <=> Open) /\ (Asking' <=> Asking)
  BY <1>1, <1>2 DEF Open, Asking
<1>4. Apart'
  BY <1>1 DEF DeviceInv, Apart, Pending
<1>5. Followed'
  BY <1>1, <1>2 DEF DeviceInv, Followed
<1>6. Queued(OwnEvents)'
  BY <1>2 DEF DeviceInv, Queued
<1>7. ASSUME NEW c \in Clients
      PROVE  Told(c)'
  <2>1. Told(c)
    BY DEF DeviceInv
  <2> QED
    BY <1>1, <2>1 DEF Told, Pending
<1> QED
  BY <1>1, <1>3, <1>4, <1>5, <1>6, <1>7

LEMMA Still ==
  ASSUME DeviceInv, UNCHANGED <<deviceVars, streamVars, lifeVars>>
  PROVE  DeviceInv'
<1>1. session' = session /\ phase' = phase /\ at' = at
  BY DEF lifeVars
<1>2. /\ (Open' <=> Open) /\ (Asking' <=> Asking) /\ Apart' /\ Followed' /\ Queued(OwnEvents)'
      /\ \A c \in Clients : Told(c)'
      /\ registry' = registry /\ evaluators' = evaluators /\ drivers' = drivers /\ hook' = hook
  BY <1>1, Untouched
<1>3. Alive' <=> Alive
  BY <1>1 DEF Alive
<1>4. Ready'
  BY <1>1, <1>2, <1>3, SamePlaces DEF DeviceInv, Ready
<1>5. Loops'
  BY <1>1, <1>2, <1>3, SamePlaces DEF DeviceInv, Loops, Driven
<1> QED
  BY <1>2, <1>4, <1>5 DEF DeviceInv

\* A step of a live process that passes no place where devices are made.
Uneventful ==
  /\ Alive /\ Alive' /\ session' = session
  /\ at \in Nat /\ at' \in Nat /\ at <= at'
  /\ phase' = "starting" => phase = "starting" \/ ListenAt < at'
  /\ at' > 1 => at > 1
  /\ session.command # "replay" =>
       /\ at' > DriversAt => at > DriversAt
       /\ Serves => /\ at' > EvaluatorsAt => at > EvaluatorsAt
                    /\ at' > HookAt => at > HookAt

LEMMA Quietly ==
  ASSUME DeviceInv, UNCHANGED <<deviceVars, streamVars>>, Uneventful
  PROVE  DeviceInv'
<1>1. session' = session /\ Alive /\ Alive' /\ at \in Nat /\ at' \in Nat /\ at <= at'
  BY DEF Uneventful
<1>2. /\ (Open' <=> Open) /\ (Asking' <=> Asking) /\ Apart' /\ Followed' /\ Queued(OwnEvents)'
      /\ \A c \in Clients : Told(c)'
      /\ registry' = registry /\ evaluators' = evaluators /\ drivers' = drivers /\ hook' = hook
  BY <1>1, Untouched
<1>3. ListenAt' = ListenAt /\ EvaluatorsAt' = EvaluatorsAt /\ HookAt' = HookAt
      /\ DriversAt' = DriversAt /\ (Serves' <=> Serves)
  BY <1>1, SamePlaces
<1>4. ListenAt \in Nat /\ EvaluatorsAt \in Nat /\ HookAt \in Nat /\ DriversAt \in Nat
  BY DEF ListenAt, EvaluatorsAt, HookAt, DriversAt
<1>5. Open' => /\ Alive' /\ Serves' /\ ListenAt' <= at'
               /\ phase' = "starting" => ListenAt' < at'
  <2>1. Open => /\ Serves /\ ListenAt <= at
                /\ phase = "starting" => ListenAt < at
    BY DEF DeviceInv, Ready
  <2>2. phase' = "starting" => phase = "starting" \/ ListenAt < at'
    BY DEF Uneventful
  <2> QED
    BY <1>1, <1>2, <1>3, <1>4, <2>1, <2>2
<1>6. at' > 1 => session.own \subseteq registry
  BY <1>1 DEF DeviceInv, Ready, Uneventful
<1>7. Serves /\ session.command # "replay" =>
        /\ at' > EvaluatorsAt => session.own \subseteq evaluators
        /\ at' > HookAt => hook
  BY <1>1 DEF DeviceInv, Ready, Uneventful
<1>8. Ready'
  BY <1>1, <1>2, <1>3, <1>5, <1>6, <1>7 DEF Ready
<1>9. Driven' <=> Driven
  <2>1. session.command # "replay" /\ at' > DriversAt => at > DriversAt
    BY DEF Uneventful
  <2>2. at > DriversAt => at' > DriversAt
    BY <1>1, <1>4
  <2> QED
    BY <1>1, <1>3, <2>1, <2>2 DEF Driven
<1>10. Loops'
  BY <1>1, <1>2, <1>9 DEF DeviceInv, Loops
<1> QED
  BY <1>2, <1>8, <1>10 DEF DeviceInv

LEMMA DevicesInitially ==
  ASSUME Init
  PROVE  DeviceInv
<1>1. /\ phase = "idle" /\ at = 0 /\ registry = {} /\ evaluators = {}
      /\ drivers = [i \in Ids |-> 0] /\ listening = FALSE /\ hook = FALSE
      /\ req = [c \in Clients |-> NoRequest]
  BY DEF Init, DeviceInit
<1>2. /\ stage = "none" /\ subs = {} /\ inCall = [s \in Sources |-> 0]
      /\ channel = << >> /\ received = << >>
  BY DEF Init, StreamInit
<1>3. ~Open /\ ~Alive
  BY <1>1, <1>2 DEF Open, Asking, Alive
<1>4. Ready /\ Followed
  BY <1>2, <1>3 DEF Ready, Followed
<1>5. Loops
  BY <1>1, <1>3 DEF Loops
<1>6. \A c \in Clients : req[c].at = "idle" /\ req[c].answer = 0 /\ req[c].kind = "none"
  BY <1>1 DEF NoRequest
<1>7. Apart /\ \A c \in Clients : Told(c)
  BY <1>6 DEF Apart, Told, Pending
<1>8. Queued(OwnEvents)
  <2>1. << >> \in Seq(OwnEvents) /\ Len(<< >>) = 0
    OBVIOUS
  <2>2. channel \in Seq(OwnEvents) /\ received \in Seq(OwnEvents) /\ Len(channel) = 0
    BY <1>2, <2>1
  <2> QED
    BY <2>2, StreamAssumption DEF Queued
<1> QED
  BY <1>4, <1>5, <1>7, <1>8 DEF DeviceInv

LEMMA DevicesCleared ==
  ASSUME ClearDevices, ClearStream, ~Alive'
  PROVE  DeviceInv'
<1>1. /\ registry' = {} /\ evaluators' = {}
      /\ drivers' = [i \in Ids |-> 0] /\ listening' = FALSE
      /\ req' = [c \in Clients |-> NoRequest]
  BY DEF ClearDevices
<1>2. /\ stage' = "none" /\ subs' = {} /\ inCall' = [s \in Sources |-> 0]
      /\ channel' = << >> /\ received' = << >>
  BY DEF ClearStream
<1>3. ~Open'
  BY <1>1, <1>2 DEF Open, Asking
<1>4. Ready' /\ Followed'
  BY <1>2, <1>3 DEF Ready, Followed
<1>5. Loops'
  BY <1>1, <1>3 DEF Loops
<1>6. \A c \in Clients : req'[c].at = "idle" /\ req'[c].answer = 0 /\ req'[c].kind = "none"
  BY <1>1 DEF NoRequest
<1>7. Apart' /\ \A c \in Clients : Told(c)'
  BY <1>6 DEF Apart, Told, Pending
<1>8. Queued(OwnEvents)'
  <2>1. << >> \in Seq(OwnEvents) /\ Len(<< >>) = 0
    OBVIOUS
  <2>2. channel' \in Seq(OwnEvents) /\ received' \in Seq(OwnEvents) /\ Len(channel') = 0
    BY <1>2, <2>1
  <2>3. OwnEvents' = OwnEvents
    BY DEF OwnEvents
  <2> QED
    BY <2>2, StreamAssumption DEF Queued
<1> QED
  BY <1>4, <1>5, <1>7, <1>8 DEF DeviceInv

LEMMA DevicesBegin ==
  ASSUME LifeInv, DeviceInv, Begin
  PROVE  DeviceInv'
<1>1. UNCHANGED <<deviceVars, streamVars>> /\ session' = session /\ at' = 1
      /\ phase' = "starting" /\ phase \in {"idle", "crashed"}
  BY DEF Begin
<1>2. /\ (Open' <=> Open) /\ (Asking' <=> Asking) /\ Apart' /\ Followed' /\ Queued(OwnEvents)'
      /\ \A c \in Clients : Told(c)'
      /\ registry' = registry /\ evaluators' = evaluators /\ drivers' = drivers /\ hook' = hook
  BY <1>1, Untouched
<1>3. ~Alive /\ ~Open
  BY <1>1 DEF Alive, DeviceInv, Ready
<1>4. DriversAt' >= 1 /\ EvaluatorsAt' >= 1 /\ HookAt' >= 1
  BY DEF DriversAt, EvaluatorsAt, HookAt
<1>5. Ready'
  BY <1>1, <1>2, <1>3, <1>4 DEF Ready, EvaluatorsAt, HookAt
<1>6. Loops'
  <2>1. session.own \subseteq Ids
    BY SessionParts DEF LifeInv, LifeTyped
  <2>2. ~Driven'
    BY <1>1 DEF Driven, DriversAt
  <2> QED
    BY <1>1, <1>2, <1>3, <2>1, <2>2 DEF DeviceInv, Loops
<1> QED
  BY <1>2, <1>5, <1>6 DEF DeviceInv

LEMMA Starting ==
  ASSUME LifeInv, phase = "starting"
  PROVE  /\ session \in Sessions /\ at \in 1..Len(Startup(session)) /\ at \in Nat
         /\ Len(Startup(session)) \in Nat
<1>1. session \in Sessions /\ at >= 1 /\ at \in 0..Len(Startup(session))
  BY DEF LifeInv, LifeTyped, LifeOrder
<1>2. Len(Startup(session)) \in Nat
  BY <1>1, Lengths
<1> QED
  BY <1>1, <1>2

LEMMA DevicePlaces ==
  ASSUME session \in Sessions, at \in 1..Len(Startup(session))
  PROVE  /\ Startup(session)[at] = "register" <=> at = 1
         /\ Startup(session)[at] = "evaluators" <=>
              session.command # "replay" /\ at = EvaluatorsAt
         /\ Startup(session)[at] = "hook" <=> session.command # "replay" /\ at = HookAt
         /\ Startup(session)[at] = "drivers" <=> session.command # "replay" /\ at = DriversAt
         /\ Startup(session)[at] = "listen" <=> at = ListenAt
         /\ ListenAt <= Len(Startup(session))
<1> DEFINE n == Startup(session)[at]
<1>0. session.command \in {"run", "serve", "replay"}
  BY SessionParts
<1>1. CASE session.command = "run"
  <2>1. Len(Startup(session)) = 12
    BY <1>1, Lengths
  <2>2. at = 1 \/ at = 2 \/ at = 3 \/ at = 4 \/ at = 5 \/ at = 6 \/ at = 7 \/ at = 8 \/ at = 9
        \/ at = 10 \/ at = 11 \/ at = 12
    BY <2>1
  <2>3. /\ n = "register" <=> at = 1
        /\ n = "evaluators" <=> at = 8
        /\ n = "hook" <=> at = 9
        /\ n = "drivers" <=> at = 11
        /\ n = "listen" <=> at = 10
    BY <1>1, <2>2, Places
  <2>4. EvaluatorsAt = 8 /\ HookAt = 9 /\ DriversAt = 11 /\ ListenAt = 10
    BY <1>1 DEF EvaluatorsAt, HookAt, DriversAt, ListenAt
  <2> QED
    BY <1>1, <2>1, <2>3, <2>4
<1>2. CASE session.command = "serve"
  <2>1. Len(Startup(session)) = 5
    BY <1>2, Lengths
  <2>2. at = 1 \/ at = 2 \/ at = 3 \/ at = 4 \/ at = 5
    BY <2>1
  <2>3. /\ n = "register" <=> at = 1
        /\ n = "evaluators" <=> at = 2
        /\ n = "hook" <=> at = 4
        /\ n = "drivers" <=> at = 3
        /\ n = "listen" <=> at = 5
    BY <1>2, <2>2, Places
  <2>4. EvaluatorsAt = 2 /\ HookAt = 4 /\ DriversAt = 3 /\ ListenAt = 5
    BY <1>2 DEF EvaluatorsAt, HookAt, DriversAt, ListenAt
  <2> QED
    BY <1>2, <2>1, <2>3, <2>4
<1>3. CASE session.command = "replay"
  <2>1. Len(Startup(session)) = 6
    BY <1>3, Lengths
  <2>2. at = 1 \/ at = 2 \/ at = 3 \/ at = 4 \/ at = 5 \/ at = 6
    BY <2>1
  <2>3. /\ n = "register" <=> at = 1
        /\ n # "evaluators" /\ n # "hook" /\ n # "drivers"
        /\ n = "listen" <=> at = 5
    BY <1>3, <2>2, Places
  <2>4. ListenAt = 5
    BY <1>3 DEF ListenAt
  <2> QED
    BY <1>3, <2>1, <2>3, <2>4
<1> QED
  BY <1>0, <1>1, <1>2, <1>3

LEMMA Passed ==
  ASSUME LifeInv, phase = "starting", Advance,
         Startup(session)[at] \notin {"register", "drivers"},
         Serves => Startup(session)[at] \notin {"evaluators", "hook"}
  PROVE  Uneventful
<1>1. /\ session \in Sessions /\ at \in 1..Len(Startup(session)) /\ at \in Nat
      /\ Len(Startup(session)) \in Nat
  BY Starting
<1>2. /\ at # 1
      /\ session.command # "replay" => at # DriversAt
      /\ Serves /\ session.command # "replay" => at # EvaluatorsAt /\ at # HookAt
  BY <1>1, DevicePlaces
<1>3. session' = session /\ (at' = at \/ at' = at + 1) /\ phase' \in {"starting", "running"}
  BY DEF Advance
<1>4. ListenAt \in Nat /\ EvaluatorsAt \in Nat /\ HookAt \in Nat /\ DriversAt \in Nat
  BY DEF ListenAt, EvaluatorsAt, HookAt, DriversAt
<1>5. Alive /\ Alive'
  BY <1>3 DEF Alive
<1>a. at \in Nat /\ at >= 1 /\ at # 1
  <2>1. at \in Nat /\ phase # "idle"
    BY <1>1
  <2>2. phase # "idle" => at >= 1
    BY Zenon DEF LifeInv, LifeOrder
  <2> QED
    BY <1>2, <2>1, <2>2, Zenon
<1>b. at' = at \/ at' = at + 1
  BY <1>3
<1>6. at' \in Nat /\ at <= at' /\ (at' > 1 => at > 1)
  BY <1>a, <1>b
<1>7. session.command # "replay" =>
        /\ at' > DriversAt => at > DriversAt
        /\ Serves => /\ at' > EvaluatorsAt => at > EvaluatorsAt
                     /\ at' > HookAt => at > HookAt
  <2>1. ASSUME NEW place \in Nat, at # place, at' > place
        PROVE  at > place
    BY <1>a, <1>b, <2>1
  <2>2. session.command # "replay" /\ at' > DriversAt => at > DriversAt
    BY <1>2, <1>4, <2>1, Zenon
  <2>3. session.command # "replay" /\ Serves =>
          (at' > EvaluatorsAt => at > EvaluatorsAt) /\ (at' > HookAt => at > HookAt)
    BY <1>2, <1>4, <2>1, Zenon
  <2> QED
    BY <2>2, <2>3, Zenon
<1> QED
  BY <1>a, <1>3, <1>5, <1>6, <1>7 DEF Uneventful

LEMMA Failed ==
  ASSUME LifeInv, phase \in {"starting", "running"}, session' = session, at' = at,
         phase' = "unwinding"
  PROVE  Uneventful
<1>1. session \in Sessions /\ at \in Nat
  BY Lengths DEF LifeInv, LifeTyped
<1> QED
  BY <1>1 DEF Uneventful, Alive

\* At the end of the start, and at its last step, the server's place is past.
LEMMA Ended ==
  ASSUME LifeInv, phase = "running", session' = session, at' = at,
         phase' = "running" \/ phase' = "unwinding"
           \/ (phase' = "starting" /\ session.command # "serve")
  PROVE  Uneventful
<1>1. session \in Sessions /\ at \in Nat /\ at = Len(Startup(session))
  BY Lengths DEF LifeInv, LifeTyped, LifeOrder
<1>2. session.command # "serve" => ListenAt < at
  <2>1. CASE session.command = "run"
    <3>1. at = 12
      BY <1>1, <2>1, Lengths
    <3> QED
      BY <2>1, <3>1 DEF ListenAt
  <2>2. CASE session.command = "replay"
    <3>1. at = 6
      BY <1>1, <2>2, Lengths
    <3> QED
      BY <2>2, <3>1 DEF ListenAt
  <2> QED
    BY <1>1, <2>1, <2>2, SessionParts
<1>3. Alive /\ Alive'
  BY DEF Alive
<1> QED
  BY <1>1, <1>2, <1>3 DEF Uneventful

\* Before the server listened nothing was asked, and the hook did nothing.
LEMMA Shut ==
  ASSUME DeviceInv, ~Open, UNCHANGED streamVars, req' = req, session' = session,
         Alive', Ready',
         \A i \in session.own : drivers'[i] = IF Driven' THEN 1 ELSE 0,
         \A i \in Ids \ session.own : drivers'[i] = drivers[i]
  PROVE  DeviceInv'
<1>1. \A c \in Clients : req[c].at = "idle" /\ req[c].answer = 0 /\ req[c].kind = "none"
  BY DEF Open, Asking, NoRequest
<1>2. \A c \in Clients : req'[c].at = "idle" /\ req'[c].answer = 0 /\ req'[c].kind = "none"
  BY <1>1
<1>3. Apart' /\ \A c \in Clients : Told(c)'
  BY <1>2 DEF Apart, Told, Pending
<1>4. stage' = stage /\ subs' = subs /\ inCall' = inCall /\ channel' = channel
      /\ received' = received
  BY DEF streamVars
<1>5. stage = "none"
  BY DEF Open, Asking
<1>6. Followed'
  BY <1>4, <1>5 DEF DeviceInv, Followed
<1>7. Queued(OwnEvents)'
  BY <1>4 DEF DeviceInv, Queued
<1>8. \A i \in Ids \ session.own : drivers'[i] = 0
  <2>1. \A i \in Ids \ session.own : drivers[i] = 0
    BY DEF DeviceInv, Loops, Open
  <2> QED
    BY <2>1
<1>9. Loops'
  BY <1>8 DEF Loops
<1> QED
  BY <1>3, <1>6, <1>7, <1>9 DEF DeviceInv

\* The steps that stand before the server's place are taken before it opens.
LEMMA NotYet ==
  ASSUME LifeInv, DeviceInv, phase = "starting",
         Startup(session)[at] \in {"register", "evaluators", "hook", "listen"}
  PROVE  ~Open /\ at <= ListenAt
<1>1. session \in Sessions /\ at \in 1..Len(Startup(session))
  BY Starting
<1>2. at = 1 \/ (session.command # "replay" /\ (at = EvaluatorsAt \/ at = HookAt))
      \/ at = ListenAt
  BY <1>1, DevicePlaces, Zenon
<1>3. ListenAt \in Nat /\ ListenAt >= 1
  BY DEF ListenAt
<1>4. EvaluatorsAt < ListenAt /\ HookAt < ListenAt
  BY DEF ListenAt, EvaluatorsAt, HookAt
<1>5. EvaluatorsAt \in Nat /\ HookAt \in Nat
  BY DEF EvaluatorsAt, HookAt
<1>6. at <= ListenAt /\ ~(ListenAt < at)
  BY <1>2, <1>3, <1>4, <1>5
<1>7. Open => ListenAt < at
  BY DEF DeviceInv, Ready
<1> QED
  BY <1>6, <1>7

\* Advance from a place that is not the last one.
LEMMA Next1 ==
  ASSUME LifeInv, phase = "starting", Advance
  PROVE  /\ session' = session /\ Alive /\ Alive'
         /\ at \in Nat /\ at >= 1
         /\ \/ phase' = "starting" /\ at' = at + 1
            \/ phase' = "running" /\ at' = at /\ at = Len(Startup(session))
<1>1. session \in Sessions /\ at \in Nat
  BY Starting
<1>2. at >= 1
  BY DEF LifeInv, LifeOrder
<1>3. phase' \in {"starting", "running"} /\ session' = session
  BY DEF Advance
<1>4. Alive /\ Alive'
  BY <1>3 DEF Alive
<1> QED
  BY <1>1, <1>2, <1>3, <1>4 DEF Advance

\* Nobody's own driver runs before the step that starts it.
LEMMA OwnDrivers ==
  ASSUME DeviceInv, Alive, session' = session, drivers' = drivers,
         Driven' <=> Driven
  PROVE  /\ \A i \in session.own : drivers'[i] = IF Driven' THEN 1 ELSE 0
         /\ \A i \in Ids \ session.own : drivers'[i] = drivers[i]
BY DEF DeviceInv, Loops

LEMMA RegisterKeeps ==
  ASSUME LifeInv, DeviceInv, Register
  PROVE  DeviceInv'
<1>1. phase = "starting" /\ Startup(session)[at] = "register" /\ Advance
      /\ registry' = session.own /\ UNCHANGED <<evaluators, drivers, hook, listening, req>>
      /\ UNCHANGED streamVars
  BY DEF Register, Step
<1>2. session' = session /\ Alive /\ Alive'
  BY <1>1, Next1
<1>3. ~Open
  BY <1>1, NotYet
<1>4. at = 1
  BY <1>1, Starting, DevicePlaces
<1>5. at' = 1 \/ at' = 2
  BY <1>1, <1>4 DEF Advance
<1>6. ~Open'
  <2>1. stage' = stage
    BY <1>1 DEF streamVars
  <2> QED
    BY <1>1, <1>3, <2>1 DEF Open, Asking
<1>7. ~Driven /\ ~Driven'
  BY <1>2, <1>4, <1>5 DEF Driven, DriversAt
<1>8. ~(at' > EvaluatorsAt') /\ ~(at' > HookAt')
  BY <1>2, <1>5 DEF EvaluatorsAt, HookAt
<1>9. Ready'
  BY <1>1, <1>2, <1>6, <1>8 DEF Ready
<1> QED
  BY <1>1, <1>2, <1>3, <1>7, <1>9, OwnDrivers, Shut

LEMMA StoreKeeps ==
  ASSUME LifeInv, DeviceInv, StoreEvaluators
  PROVE  DeviceInv'
<1>1. phase = "starting" /\ Startup(session)[at] = "evaluators" /\ Advance
      /\ evaluators' = session.own \union Known
      /\ UNCHANGED <<registry, drivers, hook, listening, req>> /\ UNCHANGED streamVars
  BY DEF StoreEvaluators, Step
<1>2. session' = session /\ Alive /\ Alive' /\ at \in Nat /\ (at' = at \/ at' = at + 1)
  BY <1>1, Next1
<1>3. ~Open
  BY <1>1, NotYet
<1>4. at = EvaluatorsAt
  BY <1>1, Starting, DevicePlaces
<1>5. ~Open'
  <2>1. stage' = stage
    BY <1>1 DEF streamVars
  <2> QED
    BY <1>1, <1>3, <2>1 DEF Open, Asking
<1>6. ~(at' > HookAt') /\ at > 1
  BY <1>2, <1>4 DEF EvaluatorsAt, HookAt
<1>7. Driven' <=> Driven
  BY <1>2, <1>4 DEF Driven, DriversAt, EvaluatorsAt
<1>8. Ready'
  <2>1. session.own \subseteq registry
    BY <1>2, <1>6 DEF DeviceInv, Ready
  <2> QED
    BY <1>1, <1>2, <1>5, <1>6, <2>1 DEF Ready
<1> QED
  BY <1>1, <1>2, <1>3, <1>7, <1>8, OwnDrivers, Shut

LEMMA HookKeeps ==
  ASSUME LifeInv, DeviceInv, SetHook
  PROVE  DeviceInv'
<1>1. phase = "starting" /\ Startup(session)[at] = "hook" /\ Advance /\ Wanted(session, "hook")
      /\ hook' = TRUE
      /\ UNCHANGED <<registry, evaluators, drivers, listening, req>> /\ UNCHANGED streamVars
  BY DEF SetHook, Step
<1>2. session' = session /\ Alive /\ Alive' /\ at \in Nat /\ (at' = at \/ at' = at + 1)
  BY <1>1, Next1
<1>3. ~Open
  BY <1>1, NotYet
<1>4. at = HookAt /\ session.command # "replay"
  BY <1>1, Starting, DevicePlaces
<1>5. ~Open'
  <2>1. stage' = stage
    BY <1>1 DEF streamVars
  <2> QED
    BY <1>1, <1>3, <2>1 DEF Open, Asking
<1>6. at > EvaluatorsAt /\ at > 1
  BY <1>2, <1>4 DEF EvaluatorsAt, HookAt
<1>7. Driven' <=> Driven
  BY <1>2, <1>4 DEF Driven, DriversAt, HookAt
<1>8. Ready'
  <2>1. session.own \subseteq registry /\ (Serves => session.own \subseteq evaluators)
    BY <1>2, <1>4, <1>6 DEF DeviceInv, Ready
  <2>2. Serves' <=> Serves
    BY <1>2, SamePlaces
  <2> QED
    BY <1>1, <1>2, <1>5, <2>1, <2>2 DEF Ready
<1> QED
  BY <1>1, <1>2, <1>3, <1>7, <1>8, OwnDrivers, Shut

LEMMA ListenKeeps ==
  ASSUME LifeInv, DeviceInv, Listen
  PROVE  DeviceInv'
<1>1. phase = "starting" /\ Startup(session)[at] = "listen" /\ Serves
      /\ UNCHANGED <<registry, evaluators, drivers, hook, req>> /\ UNCHANGED streamVars
  BY DEF Listen, Step, Wanted, Serves
<1>2. CASE UNCHANGED listening /\ (Advance \/ Fail)
  <2>1. UNCHANGED <<deviceVars, streamVars>>
    BY <1>1, <1>2 DEF deviceVars
  <2>2. CASE Advance
    <3>1. Uneventful
      BY <1>1, <2>2, Passed
    <3> QED
      BY <2>1, <3>1, Quietly
  <2>3. CASE Fail
    <3>1. session' = session /\ at' = at /\ phase' = "unwinding" /\ phase \in {"starting", "running"}
      BY <1>1, <2>3 DEF Fail
    <3>2. Uneventful
      BY <3>1, Failed
    <3> QED
      BY <2>1, <3>2, Quietly
  <2> QED
    BY <1>2, <2>2, <2>3
<1>3. CASE listening' = TRUE /\ Advance
  <2>1. /\ session' = session /\ Alive /\ Alive' /\ at \in Nat
        /\ \/ phase' = "starting" /\ at' = at + 1
           \/ phase' = "running" /\ at' = at
    BY <1>1, <1>3, Next1
  <2>2. ~Open
    BY <1>1, NotYet
  <2>3. at = ListenAt
    BY <1>1, Starting, DevicePlaces
  <2>4. at > 1 /\ at > HookAt /\ at > EvaluatorsAt
    BY <2>3 DEF ListenAt, HookAt, EvaluatorsAt
  <2>5. Driven' <=> Driven
    BY <2>1, <2>3 DEF Driven, DriversAt, ListenAt
  <2>6. /\ session.own \subseteq registry
        /\ session.command # "replay" => session.own \subseteq evaluators /\ hook
    BY <1>1, <2>1, <2>4 DEF DeviceInv, Ready
  <2>7. ListenAt' <= at' /\ (phase' = "starting" => ListenAt' < at')
    <3>1. ListenAt' = ListenAt
      BY <2>1, SamePlaces
    <3> QED
      BY <2>1, <2>3, <3>1
  <2>8. Serves' <=> Serves
    BY <2>1, SamePlaces
  <2>9. Ready'
    BY <1>1, <2>1, <2>6, <2>7, <2>8 DEF Ready
  <2> QED
    BY <1>1, <2>1, <2>2, <2>5, <2>9, OwnDrivers, Shut
<1> QED
  BY <1>2, <1>3 DEF Listen

LEMMA DriversKeep ==
  ASSUME LifeInv, DeviceInv, StartDrivers
  PROVE  DeviceInv'
<1>1. /\ phase = "starting" /\ Startup(session)[at] = "drivers" /\ Advance
      /\ drivers' = [i \in Ids |-> IF i \in session.own THEN drivers[i] + 1 ELSE drivers[i]]
      /\ UNCHANGED <<registry, evaluators, hook, listening, req>> /\ UNCHANGED streamVars
  BY DEF StartDrivers, Step
<1>2. session \in Sessions /\ session.own \subseteq Ids /\ session.command # "replay"
      /\ at = DriversAt
  BY <1>1, Starting, DevicePlaces, SessionParts
<1>3. session' = session /\ Alive /\ Alive' /\ at' = at + 1 /\ phase' = "starting"
  <2>1. at # Len(Startup(session))
    <3>1. CASE session.command = "run"
      <4>1. Len(Startup(session)) = 12 /\ at = 11
        BY <1>2, <3>1, Lengths DEF DriversAt
      <4> QED
        BY <4>1
    <3>2. CASE session.command = "serve"
      <4>1. Len(Startup(session)) = 5 /\ at = 3
        BY <1>2, <3>2, Lengths DEF DriversAt
      <4> QED
        BY <4>1
    <3> QED
      BY <1>2, <3>1, <3>2, SessionParts
  <2> QED
    BY <1>1, <2>1, Next1
<1>4. ~Driven /\ Driven'
  BY <1>2, <1>3 DEF Driven, DriversAt
<1>5. \A i \in session.own : drivers'[i] = 1
  <2>1. \A i \in session.own : drivers[i] = 0
    BY <1>3, <1>4 DEF DeviceInv, Loops
  <2> QED
    BY <1>1, <1>2, <2>1
<1>6. \A i \in Ids \ session.own : drivers'[i] = drivers[i]
  BY <1>1
<1>7. /\ listening' = listening /\ req' = req /\ registry' = registry
      /\ evaluators' = evaluators /\ hook' = hook
      /\ stage' = stage /\ subs' = subs /\ inCall' = inCall /\ channel' = channel
      /\ received' = received
  BY <1>1 DEF streamVars
<1>8. (Open' <=> Open) /\ (Asking' <=> Asking)
  BY <1>7 DEF Open, Asking
<1>9. Loops'
  <2>1. \A i \in session'.own : drivers'[i] = IF Driven' THEN 1 ELSE 0
    BY <1>3, <1>4, <1>5
  <2>2. \A i \in Ids \ session.own :
          /\ drivers'[i] \in {0, 1}
          /\ drivers'[i] = 1 => i \in registry' /\ i \in evaluators' /\ Asking'
    BY <1>6, <1>7, <1>8 DEF DeviceInv, Loops
  <2> QED
    BY <1>3, <2>1, <2>2 DEF Loops
<1>10. Ready'
  <2>1. Open => Serves /\ ListenAt < at
    BY <1>1 DEF DeviceInv, Ready
  <2>2. /\ at > 1 /\ at \in Nat
        /\ at' > EvaluatorsAt => at > EvaluatorsAt
        /\ at' > HookAt => at > HookAt
        /\ ListenAt < at => ListenAt < at'
    BY <1>2, <1>3 DEF DriversAt, EvaluatorsAt, HookAt, ListenAt
  <2>3. /\ session.own \subseteq registry
        /\ Serves => /\ at > EvaluatorsAt => session.own \subseteq evaluators
                     /\ at > HookAt => hook
    BY <1>2, <1>3, <2>2 DEF DeviceInv, Ready
  <2>4. ListenAt' = ListenAt /\ EvaluatorsAt' = EvaluatorsAt /\ HookAt' = HookAt
        /\ (Serves' <=> Serves)
    BY <1>3, SamePlaces
  <2>5. Open' => Serves' /\ ListenAt' < at' /\ ListenAt' <= at'
    <3>1. ListenAt \in Nat
      BY DEF ListenAt
    <3> QED
      BY <1>3, <1>8, <2>1, <2>2, <2>4, <3>1
  <2> QED
    BY <1>3, <1>7, <2>2, <2>3, <2>4, <2>5 DEF Ready
<1>11. Apart' /\ Followed' /\ Queued(OwnEvents)'
  <2>1. Apart'
    BY <1>7 DEF DeviceInv, Apart, Pending
  <2>2. Followed'
    BY <1>7 DEF DeviceInv, Followed
  <2> QED
    BY <1>7, <2>1, <2>2 DEF DeviceInv, Queued
<1>12. ASSUME NEW c \in Clients
       PROVE  Told(c)'
  <2>1. Told(c)
    BY DEF DeviceInv
  <2>2. req[c].id \in Ids \/ req[c].at = "idle"
    BY DEF LifeInv, Asked
  <2>3. req[c].id \in registry \ session.own => drivers'[req[c].id] = drivers[req[c].id]
    <3>1. registry \subseteq Ids
      BY DEF LifeInv, DeviceTypeOK
    <3> QED
      BY <1>6, <3>1
  <2>4. req' = req /\ registry' = registry /\ evaluators' = evaluators /\ session' = session
    BY <1>3, <1>7
  <2> QED
    BY <2>1, <2>3, <2>4 DEF Told, Pending
<1> QED
  BY <1>9, <1>10, <1>11, <1>12 DEF DeviceInv

LEMMA CloseKeeps ==
  ASSUME LifeInv, DeviceInv, CloseServer
  PROVE  DeviceInv'
<1>1. /\ phase = "running" /\ phase' = "unwinding" /\ session' = session /\ at' = at
      /\ listening' = FALSE
      /\ registry' = registry /\ evaluators' = evaluators /\ drivers' = drivers /\ hook' = hook
      /\ req' = req /\ stage' = stage /\ subs' = subs /\ inCall' = inCall
      /\ channel' = channel /\ received' = received
  BY DEF CloseServer, Leave
<1>2. Alive /\ Alive'
  BY <1>1 DEF Alive
<1>3. Open' => Open
  BY <1>1 DEF Open, Asking
<1>4. Ready'
  BY <1>1, <1>2, <1>3, SamePlaces DEF DeviceInv, Ready
<1>5. Loops'
  <2>1. Asking' <=> Asking
    BY <1>1 DEF Asking
  <2> QED
    BY <1>1, <1>2, <2>1, SamePlaces DEF DeviceInv, Loops, Driven
<1>6. Apart' /\ Followed' /\ Queued(OwnEvents)'
  <2>1. Apart'
    BY <1>1 DEF DeviceInv, Apart, Pending
  <2>2. Followed'
    BY <1>1 DEF DeviceInv, Followed
  <2> QED
    BY <1>1, <2>1, <2>2 DEF DeviceInv, Queued
<1>7. ASSUME NEW c \in Clients
      PROVE  Told(c)'
  <2>1. Told(c)
    BY DEF DeviceInv
  <2> QED
    BY <1>1, <2>1 DEF Told, Pending
<1> QED
  BY <1>4, <1>5, <1>6, <1>7 DEF DeviceInv

\* A request leaves the life and the stream alone, and takes nothing away.
LEMMA Framed ==
  ASSUME DeviceInv, Open, UNCHANGED <<lifeVars, streamVars>>,
         registry \subseteq registry', evaluators \subseteq evaluators', hook' = hook,
         \A i \in session.own : drivers'[i] = drivers[i]
  PROVE  /\ Ready' /\ Followed' /\ Queued(OwnEvents)' /\ session' = session
         /\ Alive' => \A i \in session.own : drivers'[i] = IF Driven' THEN 1 ELSE 0
         /\ Alive /\ Alive'
<1>1. session' = session /\ phase' = phase /\ at' = at
  BY DEF lifeVars
<1>2. stage' = stage /\ subs' = subs /\ inCall' = inCall /\ channel' = channel
      /\ received' = received
  BY DEF streamVars
<1>3. (Alive' <=> Alive) /\ Alive
  BY <1>1 DEF Alive, DeviceInv, Ready
<1>4. ListenAt' = ListenAt /\ EvaluatorsAt' = EvaluatorsAt /\ HookAt' = HookAt
      /\ (Serves' <=> Serves) /\ (Driven' <=> Driven)
  BY <1>1, SamePlaces DEF Driven
<1>5. Ready'
  BY <1>1, <1>3, <1>4 DEF DeviceInv, Ready
<1>6. Followed'
  BY <1>2 DEF DeviceInv, Followed
<1>7. Queued(OwnEvents)'
  BY <1>2 DEF DeviceInv, Queued
<1>8. \A i \in session.own : drivers'[i] = IF Driven' THEN 1 ELSE 0
  BY <1>3, <1>4 DEF DeviceInv, Loops
<1> QED
  BY <1>1, <1>3, <1>5, <1>6, <1>7, <1>8

\* What an open server has behind it.
LEMMA OpenFacts ==
  ASSUME LifeInv, DeviceInv, Open
  PROVE  /\ Alive /\ Serves /\ session.own \subseteq registry
         /\ session.command # "replay" => session.own \subseteq evaluators /\ hook
<1>1. Alive /\ Serves /\ ListenAt <= at
  BY DEF DeviceInv, Ready
<1>2. session \in Sessions /\ at \in Nat
  BY Lengths DEF LifeInv, LifeTyped
<1>3. at > 1 /\ at > EvaluatorsAt /\ at > HookAt
  BY <1>1, <1>2 DEF ListenAt, EvaluatorsAt, HookAt
<1> QED
  BY <1>1, <1>3 DEF DeviceInv, Ready

LEMMA ToldKept ==
  ASSUME NEW d \in Clients, Told(d), req'[d] = req[d], session' = session,
         registry \subseteq registry', evaluators \subseteq evaluators',
         Pending(d) \/ req[d].answer = 201 => drivers'[req[d].id] = drivers[req[d].id]
  PROVE  Told(d)'
BY DEF Told, Pending

\* Only the device of the hook that runs gets a driver.
LEMMA LoopsKept ==
  ASSUME DeviceInv, Alive', session' = session, drivers' = drivers, Asking',
         registry \subseteq registry', evaluators \subseteq evaluators',
         \A i \in session.own : drivers'[i] = IF Driven' THEN 1 ELSE 0
  PROVE  Loops'
BY DEF DeviceInv, Loops

LEMMA RequestRecord ==
  ASSUME LifeInv, NEW c \in Clients
  PROVE  req \in [Clients -> Requests] /\ req[c] \in Requests
BY DEF LifeInv, DeviceTypeOK, Requests

\* A request under way is one, and names a device.
LEMMA Underway ==
  ASSUME LifeInv, DeviceInv, NEW c \in Clients, req[c].at # "idle"
  PROVE  Asking /\ Open /\ req[c].id \in Ids
<1>1. req[c] # NoRequest
  BY DEF NoRequest
<1> QED
  BY <1>1 DEF Asking, Open, LifeInv, Asked

LEMMA Moved ==
  ASSUME LifeInv, NEW c \in Clients, NEW where \in {"registered", "stored", "found", "done"},
         NEW STATE status,
         req' = [req EXCEPT ![c] = [kind |-> req[c].kind, id |-> req[c].id, at |-> where,
                                    answer |-> status, promised |-> req[c].promised]]
  PROVE  /\ req'[c].kind = req[c].kind /\ req'[c].id = req[c].id /\ req'[c].at = where
         /\ req'[c].answer = status /\ req'[c].promised = req[c].promised
         /\ \A d \in Clients \ {c} : req'[d] = req[d]
         /\ Asking'
<1>1. req \in [Clients -> Requests]
  BY RequestRecord
<1>2. req'[c] = [kind |-> req[c].kind, id |-> req[c].id, at |-> where,
                 answer |-> status, promised |-> req[c].promised]
  BY <1>1
<1>3. \A d \in Clients \ {c} : req'[d] = req[d]
  BY <1>1
<1>4. req'[c].at = where
  BY <1>2
<1>5. Asking'
  BY <1>4 DEF Asking, NoRequest
<1> QED
  BY <1>2, <1>3, <1>5

LEMMA RegistrationKeeps ==
  ASSUME LifeInv, DeviceInv, NEW c \in Clients, PostRegister(c, session.profile),
         UNCHANGED <<lifeVars, streamVars>>
  PROVE  DeviceInv'
<1>1. /\ req[c].kind = "post" /\ req[c].at = "received"
      /\ evaluators' = evaluators /\ drivers' = drivers /\ hook' = hook /\ listening' = listening
  BY DEF PostRegister
<1>2. Asking /\ Open /\ req[c].id \in Ids
  BY <1>1, Underway
<1>3. registry \subseteq registry'
  BY DEF PostRegister, Enrol
<1>4. /\ Ready' /\ Followed' /\ Queued(OwnEvents)' /\ session' = session
      /\ Alive' => \A i \in session.own : drivers'[i] = IF Driven' THEN 1 ELSE 0
      /\ Alive /\ Alive'
  BY <1>1, <1>2, <1>3, Framed
<1>5. \A d \in Clients : Told(d)
  BY DEF DeviceInv
<1>6. {400, 409} \subseteq Answers
  BY DEF Answers
<1>7. CASE Answer(c, 400) \/ Answer(c, 409)
  <2>1. PICK status \in {400, 409} : Answer(c, status)
    BY <1>7
  <2>2. req' = [req EXCEPT ![c] = [kind |-> req[c].kind, id |-> req[c].id, at |-> "done",
                                   answer |-> status, promised |-> req[c].promised]]
    BY <1>6, <2>1, RequestRecord, RequestMoves
  <2>3. /\ req'[c].kind = req[c].kind /\ req'[c].id = req[c].id /\ req'[c].at = "done"
        /\ req'[c].answer = status
        /\ \A d \in Clients \ {c} : req'[d] = req[d]
        /\ Asking'
    <3>1. req'[c] = [kind |-> req[c].kind, id |-> req[c].id, at |-> "done",
                     answer |-> status, promised |-> req[c].promised]
      BY <2>2, RequestRecord
    <3>2. \A d \in Clients \ {c} : req'[d] = req[d]
      BY <2>2, RequestRecord
    <3>3. Asking'
      BY <3>1 DEF Asking, NoRequest
    <3> QED
      BY <3>1, <3>2, <3>3
  <2>4. Told(c)'
    BY <1>1, <2>3 DEF Told, Pending
  <2>5. \A d \in Clients \ {c} : Told(d)'
    BY <1>1, <1>3, <1>4, <1>5, <2>3, ToldKept
  <2>6. Apart'
    <3>1. \A d \in Clients : Pending(d)' => Pending(d) /\ req'[d] = req[d]
      BY <2>3 DEF Pending
    <3> QED
      BY <3>1 DEF DeviceInv, Apart
  <2>7. Loops'
    BY <1>1, <1>3, <1>4, <2>3, LoopsKept
  <2> QED
    BY <1>4, <2>4, <2>5, <2>6, <2>7 DEF DeviceInv
<1>8. CASE session.profile /\ Enrol(req[c].id) /\ Goto(c, "registered")
  <2>1. req[c].id \notin registry /\ registry' = registry \union {req[c].id}
    BY <1>8 DEF Enrol, Find
  <2>2. req' = [req EXCEPT ![c] = [kind |-> req[c].kind, id |-> req[c].id, at |-> "registered",
                                   answer |-> req[c].answer, promised |-> req[c].promised]]
    BY <1>8, RequestRecord, RequestMoves
  <2>3. /\ req'[c].kind = req[c].kind /\ req'[c].id = req[c].id /\ req'[c].at = "registered"
        /\ req'[c].answer = req[c].answer
        /\ \A d \in Clients \ {c} : req'[d] = req[d]
        /\ Asking'
    BY <2>2, Moved, Zenon
  <2>4. req[c].id \notin session.own
    BY <1>2, <2>1, OpenFacts
  <2>5. drivers[req[c].id] = 0
    BY <1>2, <2>1, <2>4 DEF DeviceInv, Loops
  <2>6. req[c].answer = 0
    BY <1>1, <1>5 DEF Told
  <2>7. Told(c)'
    BY <1>1, <1>4, <1>8, <2>1, <2>3, <2>4, <2>5, <2>6 DEF Told, Pending
  <2>8. \A d \in Clients \ {c} : Told(d)'
    BY <1>1, <1>3, <1>4, <1>5, <2>3, ToldKept
  <2>9. Apart'
    <3>1. \A d \in Clients \ {c} :
            Pending(d)' => Pending(d) /\ req'[d].id = req[d].id /\ req[d].id \in registry
      BY <1>5, <2>3 DEF Pending, Told
    <3>2. \A d, e \in Clients \ {c} :
            d # e /\ Pending(d)' /\ Pending(e)' => req'[d].id # req'[e].id
      BY <3>1 DEF DeviceInv, Apart
    <3>3. \A d \in Clients \ {c} : Pending(d)' => req'[d].id # req'[c].id
      BY <2>1, <2>3, <3>1
    <3> QED
      BY <3>2, <3>3 DEF Apart
  <2>10. Loops'
    BY <1>1, <1>3, <1>4, <2>3, LoopsKept
  <2> QED
    BY <1>4, <2>7, <2>8, <2>9, <2>10 DEF DeviceInv
<1> QED
  BY <1>7, <1>8 DEF PostRegister

LEMMA StorageKeeps ==
  ASSUME LifeInv, DeviceInv, NEW c \in Clients, PostStore(c),
         UNCHANGED <<lifeVars, streamVars>>
  PROVE  DeviceInv'
<1>1. /\ req[c].at = "registered" /\ evaluators' = evaluators \union {req[c].id}
      /\ registry' = registry /\ drivers' = drivers /\ hook' = hook /\ listening' = listening
  BY DEF PostStore
<1>2. Asking /\ Open /\ req[c].id \in Ids
  BY <1>1, Underway
<1>4. /\ Ready' /\ Followed' /\ Queued(OwnEvents)' /\ session' = session
      /\ Alive' => \A i \in session.own : drivers'[i] = IF Driven' THEN 1 ELSE 0
      /\ Alive /\ Alive'
  BY <1>1, <1>2, Framed
<1>5. \A d \in Clients : Told(d)
  BY DEF DeviceInv
<1>6. session.profile /\ Pending(c)
  BY <1>1, <1>5 DEF Told, Pending
<1>7. hook
  <2>1. session.command # "replay"
    BY <1>6, ProfileAssumption DEF LifeInv, LifeTyped
  <2> QED
    BY <1>2, <2>1, OpenFacts
<1>8. req' = [req EXCEPT ![c] = [kind |-> req[c].kind, id |-> req[c].id, at |-> "stored",
                                 answer |-> req[c].answer, promised |-> req[c].promised]]
  <2>1. Goto(c, "stored")
    BY <1>7 DEF PostStore
  <2> QED
    BY <2>1, RequestRecord, RequestMoves
<1>9. /\ req'[c].kind = req[c].kind /\ req'[c].id = req[c].id /\ req'[c].at = "stored"
      /\ req'[c].answer = req[c].answer
      /\ \A d \in Clients \ {c} : req'[d] = req[d]
      /\ Asking'
  BY <1>8, Moved, Zenon
<1>10. Told(c)'
  <2>1. req[c].answer = 0 /\ req[c].kind = "post" /\ req[c].id \in registry \ session.own
        /\ drivers[req[c].id] = 0
    BY <1>1, <1>5 DEF Told, Pending
  <2> QED
    BY <1>1, <1>4, <1>6, <1>9, <2>1 DEF Told, Pending
<1>11. \A d \in Clients \ {c} : Told(d)'
  BY <1>1, <1>4, <1>5, <1>9, ToldKept
<1>12. Apart'
  <2>1. \A d \in Clients : Pending(d)' => Pending(d) /\ req'[d].id = req[d].id
    BY <1>6, <1>9 DEF Pending
  <2> QED
    BY <2>1 DEF DeviceInv, Apart
<1>13. Loops'
  BY <1>1, <1>4, <1>9, LoopsKept
<1> QED
  BY <1>4, <1>10, <1>11, <1>12, <1>13 DEF DeviceInv

LEMMA HookCallKeeps ==
  ASSUME LifeInv, DeviceInv, NEW c \in Clients, PostHook(c, Known),
         UNCHANGED <<lifeVars, streamVars>>
  PROVE  DeviceInv'
<1>1. /\ req[c].at = "stored" /\ evaluators' = evaluators
      /\ registry' = registry /\ hook' = hook /\ listening' = listening /\ Answer(c, 201)
  BY DEF PostHook
<1>2. Asking /\ Open /\ req[c].id \in Ids
  BY <1>1, Underway
<1>5. \A d \in Clients : Told(d)
  BY DEF DeviceInv
<1>6. session.profile /\ Pending(c) /\ req[c].id \in registry \ session.own
      /\ drivers[req[c].id] = 0 /\ req[c].id \in evaluators /\ req[c].kind = "post"
  BY <1>1, <1>5 DEF Told, Pending
<1>7. req[c].id \notin Known
  <2>1. session.command = "run" => "sandbox-0" \in session.own
    BY <1>6, ProfileAssumption DEF LifeInv, LifeTyped
  <2> QED
    BY <1>6, <2>1 DEF Known
<1>8. drivers' = [drivers EXCEPT ![req[c].id] = @ + 1] /\ drivers \in [Ids -> Nat]
  BY <1>7 DEF PostHook, LifeInv, DeviceTypeOK
<1>9. drivers'[req[c].id] = 1 /\ \A i \in Ids \ {req[c].id} : drivers'[i] = drivers[i]
  BY <1>2, <1>6, <1>8
<1>10. \A i \in session.own : drivers'[i] = drivers[i]
  <2>1. session.own \subseteq Ids
    BY SessionParts DEF LifeInv, LifeTyped
  <2> QED
    BY <1>6, <1>9, <2>1
<1>4. /\ Ready' /\ Followed' /\ Queued(OwnEvents)' /\ session' = session
      /\ Alive' => \A i \in session.own : drivers'[i] = IF Driven' THEN 1 ELSE 0
      /\ Alive /\ Alive'
  BY <1>1, <1>2, <1>10, Framed
<1>11. req' = [req EXCEPT ![c] = [kind |-> req[c].kind, id |-> req[c].id, at |-> "done",
                                  answer |-> 201, promised |-> req[c].promised]]
  <2>1. 201 \in Answers
    BY DEF Answers
  <2> QED
    BY <1>1, <2>1, RequestRecord, RequestMoves
<1>12. /\ req'[c].kind = req[c].kind /\ req'[c].id = req[c].id /\ req'[c].at = "done"
       /\ req'[c].answer = 201
       /\ \A d \in Clients \ {c} : req'[d] = req[d]
       /\ Asking'
  <2>1. req'[c] = [kind |-> req[c].kind, id |-> req[c].id, at |-> "done",
                   answer |-> 201, promised |-> req[c].promised]
    BY <1>11, RequestRecord
  <2>2. \A d \in Clients \ {c} : req'[d] = req[d]
    BY <1>11, RequestRecord
  <2>3. Asking'
    BY <2>1 DEF Asking, NoRequest
  <2> QED
    BY <2>1, <2>2, <2>3
<1>13. Told(c)'
  BY <1>1, <1>4, <1>6, <1>9, <1>12 DEF Told, Pending
<1>14. \A d \in Clients \ {c} : Told(d)'
  <2>1. ASSUME NEW d \in Clients \ {c}, Pending(d) \/ req[d].answer = 201
        PROVE  drivers'[req[d].id] = drivers[req[d].id]
    <3>1. req[d].id \in Ids
      <4>1. registry \subseteq Ids
        BY DEF LifeInv, DeviceTypeOK
      <4> QED
        BY <1>5, <2>1, <4>1 DEF Told
    <3>2. CASE Pending(d)
      <4>1. req[d].id # req[c].id
        BY <1>6, <3>2 DEF DeviceInv, Apart
      <4> QED
        BY <1>9, <3>1, <4>1
    <3>3. CASE req[d].answer = 201
      <4>1. drivers[req[d].id] = 1
        BY <1>5, <3>3 DEF Told
      <4>2. req[d].id # req[c].id
        BY <1>6, <4>1
      <4> QED
        BY <1>9, <3>1, <4>2
    <3> QED
      BY <2>1, <3>2, <3>3
  <2> QED
    BY <1>1, <1>4, <1>5, <1>12, <2>1, ToldKept
<1>15. Apart'
  <2>1. \A d \in Clients : Pending(d)' => Pending(d) /\ req'[d] = req[d]
    BY <1>12 DEF Pending
  <2> QED
    BY <2>1 DEF DeviceInv, Apart
<1>16. Loops'
  <2>1. ASSUME NEW i \in Ids \ session.own
        PROVE  /\ drivers'[i] \in {0, 1}
               /\ drivers'[i] = 1 => i \in registry' /\ i \in evaluators' /\ Asking'
    <3>1. CASE i = req[c].id
      BY <1>1, <1>6, <1>9, <1>12, <3>1
    <3>2. CASE i # req[c].id
      <4>1. drivers'[i] = drivers[i]
        BY <1>9, <3>2
      <4> QED
        BY <1>1, <1>12, <4>1 DEF DeviceInv, Loops
    <3> QED
      BY <3>1, <3>2
  <2> QED
    BY <1>4, <2>1 DEF Loops
<1> QED
  BY <1>4, <1>13, <1>14, <1>15, <1>16 DEF DeviceInv

LEMMA AnswerParts ==
  ASSUME LifeInv, NEW c \in Clients, NEW status \in Answers, Answer(c, status)
  PROVE  /\ req'[c].kind = req[c].kind /\ req'[c].at = "done" /\ req'[c].answer = status
         /\ \A d \in Clients \ {c} : req'[d] = req[d]
         /\ Asking'
<1>1. req' = [req EXCEPT ![c] = [kind |-> req[c].kind, id |-> req[c].id, at |-> "done",
                                 answer |-> status, promised |-> req[c].promised]]
  BY RequestRecord, RequestMoves
<1>2. req'[c] = [kind |-> req[c].kind, id |-> req[c].id, at |-> "done",
                 answer |-> status, promised |-> req[c].promised]
  BY <1>1, RequestRecord
<1>3. \A d \in Clients \ {c} : req'[d] = req[d]
  BY <1>1, RequestRecord
<1>4. Asking'
  BY <1>2 DEF Asking, NoRequest
<1> QED
  BY <1>2, <1>3, <1>4

\* A step of one request that changes nothing but that request.
LEMMA OneRequest ==
  ASSUME LifeInv, DeviceInv, Open, NEW c \in Clients,
         UNCHANGED <<lifeVars, streamVars>>,
         registry' = registry, evaluators' = evaluators, drivers' = drivers, hook' = hook,
         \A d \in Clients \ {c} : req'[d] = req[d],
         Asking', Told(c)', ~Pending(c)'
  PROVE  DeviceInv'
<1>1. /\ Ready' /\ Followed' /\ Queued(OwnEvents)' /\ session' = session
      /\ Alive' => \A i \in session.own : drivers'[i] = IF Driven' THEN 1 ELSE 0
      /\ Alive /\ Alive'
  BY Framed
<1>2. \A d \in Clients \ {c} : Told(d)'
  BY <1>1, ToldKept DEF DeviceInv
<1>3. Apart'
  <2>1. \A d \in Clients : Pending(d)' => Pending(d) /\ req'[d] = req[d]
    BY DEF Pending
  <2> QED
    BY <2>1 DEF DeviceInv, Apart
<1>4. Loops'
  BY <1>1, LoopsKept
<1> QED
  BY <1>1, <1>2, <1>3, <1>4 DEF DeviceInv

LEMMA LookupKeeps ==
  ASSUME LifeInv, DeviceInv, NEW c \in Clients, GetDevice(c) \/ GetEvaluator(c),
         UNCHANGED <<lifeVars, streamVars>>
  PROVE  DeviceInv'
<1>1. /\ req[c].at \in {"received", "found"} /\ registry' = registry
      /\ evaluators' = evaluators /\ drivers' = drivers /\ hook' = hook
  BY DEF GetDevice, GetEvaluator
<1>2. Open
  BY <1>1, Underway
<1>3. Told(c)
  BY DEF DeviceInv
<1>4. {200, 404, 500} \subseteq Answers
  BY DEF Answers
<1>5. ASSUME Goto(c, "found"), Find(req[c].id), req[c].at = "received", req[c].kind = "condition"
      PROVE  DeviceInv'
  <2>1. req' = [req EXCEPT ![c] = [kind |-> req[c].kind, id |-> req[c].id, at |-> "found",
                                   answer |-> req[c].answer, promised |-> req[c].promised]]
    BY <1>5, RequestRecord, RequestMoves
  <2>2. /\ req'[c].kind = req[c].kind /\ req'[c].id = req[c].id /\ req'[c].at = "found"
        /\ req'[c].answer = req[c].answer /\ req'[c].promised = req[c].promised
        /\ \A d \in Clients \ {c} : req'[d] = req[d]
        /\ Asking'
    BY <2>1, Moved, Zenon
  <2>3. req[c].answer = 0 /\ (req[c].promised => req[c].id \in evaluators)
    BY <1>3, <1>5 DEF Told
  <2>4. Told(c)' /\ ~Pending(c)'
    BY <1>1, <2>2, <2>3 DEF Told, Pending
  <2> QED
    BY <1>1, <1>2, <2>2, <2>4, OneRequest
<1>6. ASSUME NEW status \in {200, 404, 500}, Answer(c, status),
             req[c].kind = "condition" /\ req[c].promised => status = 200
      PROVE  DeviceInv'
  <2>1. /\ req'[c].kind = req[c].kind /\ req'[c].at = "done" /\ req'[c].answer = status
        /\ \A d \in Clients \ {c} : req'[d] = req[d]
        /\ Asking'
    BY <1>4, <1>6, AnswerParts
  <2>2. req'[c].promised = req[c].promised
    <3>1. req' = [req EXCEPT ![c] = [kind |-> req[c].kind, id |-> req[c].id, at |-> "done",
                                     answer |-> status, promised |-> req[c].promised]]
      BY <1>4, <1>6, RequestRecord, RequestMoves
    <3> QED
      BY <3>1, RequestRecord
  <2>3. Told(c)' /\ ~Pending(c)'
    BY <1>6, <2>1, <2>2 DEF Told, Pending
  <2> QED
    BY <1>1, <1>2, <2>1, <2>3, OneRequest
<1>7. CASE GetDevice(c)
  <2>1. req[c].kind = "condition" /\ req[c].at = "received"
        /\ \/ Find(req[c].id) /\ Goto(c, "found")
           \/ ~Find(req[c].id) /\ Answer(c, 404)
    BY <1>7 DEF GetDevice
  <2>2. ~Find(req[c].id) => ~req[c].promised
    BY <1>3, <2>1 DEF Told, Find
  <2> QED
    BY <1>5, <1>6, <2>1, <2>2
<1>8. CASE GetEvaluator(c)
  <2>1. req[c].at = "found"
        /\ \/ req[c].id \in evaluators /\ Answer(c, 200)
           \/ req[c].id \notin evaluators /\ Answer(c, 500)
    BY <1>8 DEF GetEvaluator
  <2>2. req[c].id \notin evaluators => ~(req[c].kind = "condition" /\ req[c].promised)
    BY <1>3, <2>1 DEF Told
  <2> QED
    BY <1>6, <2>1, <2>2
<1> QED
  BY <1>7, <1>8

LEMMA ReceiveKeeps ==
  ASSUME LifeInv, DeviceInv, NEW c \in Clients, NEW kind \in {"post", "condition"},
         NEW id \in Ids, Receive(c, kind, id, Equipped), UNCHANGED <<lifeVars, streamVars>>
  PROVE  DeviceInv'
<1>1. /\ listening /\ registry' = registry /\ evaluators' = evaluators
      /\ drivers' = drivers /\ hook' = hook
  BY DEF Receive
<1>2. Open
  BY <1>1 DEF Open
<1>3. id \in Promised(Equipped) => id \in registry /\ id \in evaluators
  <2>1. Equipped \subseteq registry /\ Equipped \subseteq evaluators
    BY <1>2, OpenFacts DEF Equipped
  <2>2. \A d \in Clients : req[d].answer = 201 => req[d].id \in registry /\ req[d].id \in evaluators
    BY DEF DeviceInv, Told
  <2> QED
    BY <2>1, <2>2 DEF Promised
<1> DEFINE promised == id \in Promised(Equipped)
           new == [kind |-> kind, id |-> id, at |-> "received",
                   answer |-> 0, promised |-> promised]
<1>4. req' = [req EXCEPT ![c] = new]
  BY DEF Receive
<1>5. req'[c] = new /\ \A d \in Clients \ {c} : req'[d] = req[d]
  BY <1>4, RequestRecord
<1>6. req'[c].kind = kind /\ req'[c].id = id /\ req'[c].at = "received" /\ req'[c].answer = 0
      /\ (req'[c].promised => id \in registry /\ id \in evaluators)
  <2>1. req'[c].kind = kind /\ req'[c].id = id /\ req'[c].at = "received" /\ req'[c].answer = 0
        /\ req'[c].promised = promised
    BY <1>5
  <2> QED
    BY <1>3, <2>1
<1>7. Asking'
  BY <1>6 DEF Asking, NoRequest
<1>8. Told(c)' /\ ~Pending(c)'
  BY <1>1, <1>6 DEF Told, Pending
<1> QED
  BY <1>1, <1>2, <1>5, <1>7, <1>8, OneRequest

LEMMA RequestsKeep ==
  ASSUME LifeInv, DeviceInv, Request \/ \E c \in Clients : Handle(c)
  PROVE  DeviceInv'
<1>1. UNCHANGED <<lifeVars, streamVars>>
  BY DEF Request, Handle
<1>2. CASE Request
  <2>1. session.asked \subseteq Ids /\ session.clients \subseteq Clients
    BY SessionParts DEF LifeInv, LifeTyped
  <2>2. \E c \in Clients, kind \in {"post", "condition"}, id \in Ids :
          Receive(c, kind, id, Equipped)
    BY <1>2, <2>1 DEF Request
  <2> QED
    BY <1>1, <2>2, ReceiveKeeps
<1>3. ASSUME NEW c \in Clients, Handle(c)
      PROVE  DeviceInv'
  BY <1>1, <1>3, RegistrationKeeps, StorageKeeps, HookCallKeeps, LookupKeeps DEF Handle
<1> QED
  BY <1>2, <1>3

\* Events that come to the stream are filled in as they should be.
LEMMA OwnEventsAreFine ==
  /\ Greeting("session_info") \in OwnEvents /\ Greeting("initial") \in OwnEvents
  /\ \A n \in 1..MaxEvents : Handover(n) \in OwnEvents
<1>1. /\ Greeting("session_info").src \notin Ids /\ Greeting("initial").src \notin Ids
      /\ \A n \in 1..MaxEvents : Handover(n).src \notin Ids
  BY IdsAssumption DEF Greeting, Handover
<1> QED
  BY <1>1, EventsAreFine DEF OwnEvents

LEMMA StreamOwn ==
  ASSUME LifeInv, DeviceInv, [Next]_vars
  PROVE  Queued(OwnEvents)'
<1>1. \A s \in Sources \ {Bearer} :
        inCall[s] # 0 => [src |-> s, n |-> inCall[s], by |-> EvaluatorFor(s)] \in OwnEvents
  <2>1. ASSUME NEW s \in Sources \ {Bearer}, inCall[s] # 0
        PROVE  [src |-> s, n |-> inCall[s], by |-> EvaluatorFor(s)] \in OwnEvents
    <3>1. inCall[s] \in 0..MaxEvents
      BY DEF LifeInv, StreamTyped
    <3>2. EvaluatorFor(s) = s
      BY <2>1 DEF DeviceInv, Followed, EvaluatorFor
    <3>3. [src |-> s, n |-> inCall[s], by |-> s] \in Events
      BY <2>1, <3>1 DEF Events
    <3> QED
      BY <3>2, <3>3 DEF OwnEvents
  <2> QED
    BY <2>1
<1>2. StreamMove(OwnEvents)
  BY <1>1, Moves
<1>3. StreamTyped /\ Queued(OwnEvents)
  BY DEF LifeInv, DeviceInv
<1> QED
  BY <1>2, <1>3, OwnEventsAreFine, StreamTypes

\* What is left to show of a step of the stream alone.
LEMMA Streamed ==
  ASSUME DeviceInv, UNCHANGED <<lifeVars, deviceVars>>, stage' # "none" => Open,
         Followed', Queued(OwnEvents)'
  PROVE  DeviceInv'
<1>1. session' = session /\ phase' = phase /\ at' = at
  BY DEF lifeVars
<1>2. /\ registry' = registry /\ evaluators' = evaluators /\ drivers' = drivers
      /\ hook' = hook /\ listening' = listening /\ req' = req
  BY DEF deviceVars
<1>3. (Asking' <=> Asking) /\ (Alive' <=> Alive) /\ (Open' => Open)
  BY <1>1, <1>2 DEF Asking, Alive, Open
<1>4. Ready'
  BY <1>1, <1>2, <1>3, SamePlaces DEF DeviceInv, Ready
<1>5. Loops'
  BY <1>1, <1>2, <1>3, SamePlaces DEF DeviceInv, Loops, Driven
<1>6. Apart'
  BY <1>2 DEF DeviceInv, Apart, Pending
<1>7. ASSUME NEW c \in Clients
      PROVE  Told(c)'
  <2>1. Told(c)
    BY DEF DeviceInv
  <2> QED
    BY <1>1, <1>2, <2>1 DEF Told, Pending
<1> QED
  BY <1>4, <1>5, <1>6, <1>7 DEF DeviceInv

\* A driver that reports to an open stream is that of a device with an evaluator.
LEMMA Reporting ==
  ASSUME LifeInv, DeviceInv, Alive, NEW s \in Sources \ {Bearer}, drivers[s] > 0,
         stage # "none"
  PROVE  s \in evaluators
<1>1. s \in Ids
  BY IdsAssumption DEF Sources
<1>2. CASE s \in session.own
  <2>1. Driven
    BY <1>2 DEF DeviceInv, Loops
  <2>2. session.own \subseteq evaluators
    BY <2>1, OpenFacts DEF Open, Driven
  <2> QED
    BY <1>2, <2>2
<1>3. CASE s \notin session.own
  BY <1>1, <1>3 DEF DeviceInv, Loops
<1> QED
  BY <1>2, <1>3

LEMMA StreamKeeps ==
  ASSUME LifeInv, DeviceInv,
         \/ OpenStream \/ CloseStream \/ Handler \/ Report
         \/ \E s \in Sources : Callback(s)
         \/ \E n \in 1..MaxEvents : Enqueue(n)
  PROVE  DeviceInv'
<1>1. UNCHANGED <<lifeVars, deviceVars>>
  BY DEF OpenStream, CloseStream, Handler, Report, Callback, Enqueue, StreamOnly
<1>2. evaluators' = evaluators
  BY <1>1 DEF deviceVars
<1>3. Queued(OwnEvents)'
  <2>1. [Next]_vars
    BY DEF Next
  <2> QED
    BY <2>1, StreamOwn
<1>4. Followed /\ (stage # "none" => Open)
  BY DEF DeviceInv, Open
<1> SUFFICES (stage' # "none" => Open) /\ Followed'
  BY <1>1, <1>3, Streamed
<1>f. inCall \in [Sources -> 0..MaxEvents] /\ Bearer \in Sources
  BY DEF LifeInv, StreamTyped, Sources
<1>5. ASSUME stage' # "none", stage = "none" => Open, subs' # {} => stage' # "none",
             inCall' = inCall
      PROVE  (stage' # "none" => Open) /\ Followed'
  BY <1>2, <1>4, <1>5 DEF Followed
<1>6. ASSUME stage' = stage, subs' = subs, inCall' = inCall
      PROVE  (stage' # "none" => Open) /\ Followed'
  BY <1>2, <1>4, <1>6 DEF Followed
<1>7. ASSUME stage' = stage, subs' = subs, NEW s \in Sources, inCall' = [inCall EXCEPT ![s] = 0]
      PROVE  (stage' # "none" => Open) /\ Followed'
  <2>1. \A t \in Sources : inCall'[t] # 0 => inCall[t] # 0
    BY <1>f, <1>7
  <2> QED
    BY <1>2, <1>4, <1>7, <2>1 DEF Followed
<1>8. CASE OpenStream
  BY <1>5, <1>8 DEF OpenStream, Connect, Open
<1>9. CASE CloseStream
  BY <1>6, <1>9 DEF CloseStream, Disconnect
<1>10. CASE Handler
  <2>1. CASE Subscribe
    <3>1. stage = "subscribing" /\ stage' \in {stage, "flushed"} /\ inCall' = inCall
      BY <2>1 DEF Subscribe
    <3> QED
      BY <1>5, <3>1
  <2>2. CASE Greet
    <3>1. stage # "none" /\ stage' # "none" /\ inCall' = inCall
      BY <2>2 DEF Greet
    <3> QED
      BY <1>5, <3>1
  <2>3. CASE Forward
    BY <1>6, <2>3 DEF Forward
  <2>4. CASE Unsubscribe
    <3>1. stage # "none" /\ stage' # "none" /\ inCall' = inCall
      BY <2>4 DEF Unsubscribe
    <3> QED
      BY <1>5, <3>1
  <2> QED
    BY <1>10, <2>1, <2>2, <2>3, <2>4 DEF Handler
<1>11. CASE Report
  <2>1. PICK s \in Sources : (s # Bearer => drivers[s] > 0) /\ Publish(s)
    BY <1>11 DEF Report
  <2>2. /\ Alive /\ stage' = stage /\ subs' = subs
        /\ inCall' = [inCall EXCEPT ![s] = IF Topic(s) \in subs THEN sent[s] + 1 ELSE 0]
    BY <1>11, <2>1 DEF Report, Publish
  <2>3. CASE Topic(s) \notin subs
    BY <1>7, <2>2, <2>3
  <2>4. CASE Topic(s) \in subs
    <3>1. stage # "none"
      BY <1>4, <2>4 DEF Followed
    <3>2. s # Bearer => s \in evaluators
      BY <2>1, <2>2, <3>1, Reporting
    <3>3. \A t \in Sources \ {s} : inCall'[t] = inCall[t]
      BY <1>f, <2>2
    <3> QED
      BY <1>2, <1>4, <2>2, <3>1, <3>2, <3>3 DEF Followed
  <2> QED
    BY <2>3, <2>4
<1>12. ASSUME NEW s \in Sources, Callback(s)
       PROVE  (stage' # "none" => Open) /\ Followed'
  <2>1. stage' = stage /\ subs' = subs /\ inCall' = [inCall EXCEPT ![s] = 0]
    BY <1>12 DEF Callback, OnHandover, OnCoverage
  <2> QED
    BY <1>7, <2>1
<1>13. ASSUME NEW n \in 1..MaxEvents, Enqueue(n)
       PROVE  (stage' # "none" => Open) /\ Followed'
  BY <1>6, <1>13 DEF Enqueue, EnqueueReliable
<1> QED
  BY <1>8, <1>9, <1>10, <1>11, <1>12, <1>13

\* A step of the start other than those five passes no place of theirs.
LEMMA OtherStarts ==
  ASSUME LifeInv, DeviceInv, Start, ~Register, ~StoreEvaluators, ~SetHook, ~Listen,
         ~StartDrivers
  PROVE  DeviceInv'
<1>1. phase = "starting" /\ UNCHANGED <<deviceVars, streamVars>>
  BY DEF Start, Skip, CleanStale, CreateCommand, SetupSatellite, SetupDualPath, SetupNetem,
         InitBearer, OpenRecording, Launch, Step
<1>2. /\ Startup(session)[at] \notin {"register", "drivers"}
      /\ Serves => Startup(session)[at] \notin {"evaluators", "hook"}
  <2>1. CASE Skip
    BY <2>1 DEF Skip, Wanted, Serves
  <2>2. CASE ~Skip
    <3>1. Startup(session)[at] \in
            {"stale", "create", "netem", "terrestrial", "bearer", "record", "child"}
      BY <2>2 DEF Start, CleanStale, CreateCommand, SetupSatellite, SetupDualPath,
                  SetupNetem, InitBearer, OpenRecording, Launch, Step
    <3> QED
      BY <3>1
  <2> QED
    BY <2>1, <2>2
<1>3. Advance \/ Fail \/ UNCHANGED <<session, phase, at>>
  BY DEF Start, Skip, CleanStale, CreateCommand, SetupSatellite, SetupDualPath, SetupNetem,
         InitBearer, OpenRecording, Launch
<1>4. Advance => Uneventful
  BY <1>1, <1>2, Passed
<1>5. Fail => Uneventful
  <2>1. Fail => session' = session /\ at' = at /\ phase' = "unwinding"
    BY DEF Fail
  <2> QED
    BY <1>1, <2>1, Failed
<1>6. UNCHANGED <<session, phase, at>> => Uneventful
  <2>1. at \in Nat
    BY <1>1, Starting
  <2> QED
    BY <1>1, <2>1 DEF Uneventful, Alive
<1> QED
  BY <1>1, <1>3, <1>4, <1>5, <1>6, Quietly

LEMMA StopKeeps ==
  ASSUME LifeInv, DeviceInv, Stop
  PROVE  DeviceInv'
<1>1. CASE CommandDone \/ Reaped
  <2>1. UNCHANGED <<deviceVars, streamVars>> /\ phase = "running" /\ session' = session
        /\ at' = at /\ phase' \in {"starting", "unwinding"} /\ session.command # "serve"
    BY <1>1 DEF CommandDone, Reaped, Leave, Watching
  <2> QED
    BY <2>1, Ended, Quietly
<1>2. CASE Interrupt \/ ReplayDone \/ StopWaiting
  <2>1. UNCHANGED <<deviceVars, streamVars, lifeVars>>
    BY <1>2 DEF Interrupt, ReplayDone, StopWaiting, StayAlive
  <2> QED
    BY <2>1, Still
<1>3. CASE Unwind
  <2>1. ClearDevices /\ ClearStream /\ ~Alive'
    BY <1>3 DEF Unwind, Alive
  <2> QED
    BY <2>1, DevicesCleared
<1> QED
  BY <1>1, <1>2, <1>3, CloseKeeps DEF Stop

LEMMA DevicesNext ==
  ASSUME LifeInv, DeviceInv, [Next]_vars
  PROVE  DeviceInv'
<1>1. CASE UNCHANGED vars \/ StrayLeaves \/ ChildStep \/ Killed
  <2>1. UNCHANGED <<deviceVars, streamVars, lifeVars>>
    BY <1>1 DEF vars, StrayLeaves, ChildStep, Killed, StayAlive
  <2> QED
    BY <2>1, Still
<1>2. CASE Begin
  BY <1>2, DevicesBegin
<1>3. CASE Start
  BY <1>3, RegisterKeeps, StoreKeeps, HookKeeps, ListenKeeps, DriversKeep, OtherStarts
<1>4. CASE Stop
  BY <1>4, StopKeeps
<1>5. CASE Quit \/ SwitchFocus \/ Signal
  <2>1. UNCHANGED <<deviceVars, streamVars>> /\ phase \in {"starting", "running"}
        /\ session' = session /\ at' = at /\ phase' = phase
    BY <1>5 DEF Quit, SwitchFocus, Signal, Watching
  <2>2. at \in Nat
    BY Lengths DEF LifeInv, LifeTyped
  <2>3. Uneventful
    BY <2>1, <2>2 DEF Uneventful, Alive
  <2> QED
    BY <2>1, <2>3, Quietly
<1>6. CASE Crash
  <2>1. ClearDevices /\ ClearStream /\ ~Alive'
    BY <1>6 DEF Crash, Alive
  <2> QED
    BY <2>1, DevicesCleared
<1> QED
  BY <1>1, <1>2, <1>3, <1>4, <1>5, <1>6, RequestsKeep, StreamKeeps DEF Next

\* Whatever the order of the requests of several clients and of the steps of
\* the start: no device gets a second driver, a registration that was answered
\* left an evaluator and a driver, a condition asked after that is answered,
\* and the events of a device come from its own evaluator.
THEOREM DevicesAreServed == Spec => []DevicesServed
<1>1. Init => LifeInv /\ DeviceInv
  BY LifeInit, DevicesInitially
<1>2. LifeInv /\ DeviceInv /\ [Next]_vars => LifeInv' /\ DeviceInv'
  BY LifeNext, DevicesNext
<1>3. LifeInv /\ DeviceInv => DevicesServed
  <2> SUFFICES ASSUME LifeInv, DeviceInv
               PROVE  DevicesServed
    OBVIOUS
  <2>1. \A i \in Ids : drivers[i] <= 1
    <3>1. \A i \in Ids : drivers[i] = 0 \/ drivers[i] = 1
      BY DEF DeviceInv, Loops
    <3> QED
      BY <3>1
  <2>2. ASSUME NEW c \in Clients
        PROVE  /\ req[c].answer = 201 => req[c].id \in evaluators /\ drivers[req[c].id] = 1
               /\ req[c].kind = "condition" /\ req[c].promised /\ req[c].at = "done"
                    => req[c].answer = 200
    BY DEF DeviceInv, Told
  <2>3. \A k \in 1..Len(received) :
          received[k].src \in Ids => received[k].by = received[k].src
    <3>1. received \in Seq(OwnEvents)
      BY DEF DeviceInv, Queued
    <3>2. \A k \in 1..Len(received) : received[k] \in OwnEvents
      BY <3>1
    <3> QED
      BY <3>2 DEF OwnEvents
  <2> QED
    BY <2>1, <2>2, <2>3 DEF DevicesServed
<1> QED
  BY <1>1, <1>2, <1>3, PTL DEF Spec

-----------------------------------------------------------------------------
(* What a client of the event stream may count on: its order, and that no  *)
(* handover published once it has the header is dropped on the way.        *)

InOrder(e, f) ==
  e.src = f.src => IF e.src = Bearer THEN e.n # f.n ELSE e.n < f.n

\* An event on its way: it was published, and its callback is over.
Sent(e) ==
  /\ e.src \in Sources /\ e.n \in 1..sent[e.src]
  /\ inCall[e.src] # 0 => e.n < inCall[e.src]
  /\ e.src = Bearer => e.n \notin waiting

Counted ==
  /\ \A s \in Sources : inCall[s] # 0 => inCall[s] = sent[s]
  /\ \A n \in waiting : n <= sent[Bearer] /\ (inCall[Bearer] # 0 => n < inCall[Bearer])

InChannel ==
  \A k \in 1..Len(channel) :
    Sent(channel[k]) /\ \A j \in 1..k - 1 : InOrder(channel[j], channel[k])

InReceived ==
  \A k \in 3..Len(received) :
    Sent(received[k]) /\ \A j \in 3..k - 1 : InOrder(received[j], received[k])

Ahead ==
  \A k \in 3..Len(received), j \in 1..Len(channel) : InOrder(received[k], channel[j])

Greeted ==
  /\ Len(received) >= 1 => received[1].src = "session_info"
  /\ Len(received) >= 2 => received[2].src = "initial"
  /\ stage \in {"none", "subscribing", "flushed"} => received = << >>
  /\ stage = "greeting" => Len(received) <= 1 /\ (connected => Len(received) = 1)
  /\ stage = "streaming" /\ connected => Len(received) >= 2

\* A handover in the callback, in a goroutine that waits for room, in the
\* channel, or with the client.
OnTheWay(n) ==
  \/ inCall[Bearer] = n \/ n \in waiting
  \/ \E k \in 1..Len(channel) : channel[k] = Handover(n)
  \/ HandoverSeen(n)

\* Of the handovers published once the client has the header, none is dropped
\* while it stays (sse.go:24, sse.go:83).
NoneLost ==
  stage \in {"flushed", "greeting", "streaming"} /\ connected =>
    \A n \in 1..MaxEvents : unseen < n /\ n <= sent[Bearer] => OnTheWay(n)

Subscribed == stage \in {"flushed", "greeting", "streaming"} => "handover" \in subs

StreamInv ==
  Counted /\ InChannel /\ InReceived /\ Ahead /\ Greeted /\ Subscribed /\ NoneLost

\* Events that are on their way stay on their way.
Lasting == \A e \in Events : Sent(e) => Sent(e)'

\* Nothing is written and nothing is put into the channel.
LEMMA NothingMoved ==
  ASSUME Queued(Events), InChannel, InReceived, Ahead, Lasting, UNCHANGED <<channel, received>>
  PROVE  InChannel' /\ InReceived' /\ Ahead'
<1>1. channel \in Seq(Events) /\ received \in Seq(Events)
  BY DEF Queued
<1>2. ASSUME NEW k \in 1..Len(channel)
      PROVE  Sent(channel[k])' /\ \A j \in 1..k - 1 : InOrder(channel[j], channel[k])
  <2>1. PICK e \in Events : e = channel[k]
    BY <1>1
  <2>2. Sent(e)'
    BY <2>1 DEF InChannel, Lasting
  <2>3. Sent(channel[k])'
    BY <2>1, <2>2 DEF Sent
  <2> QED
    BY <2>3 DEF InChannel
<1>3. ASSUME NEW k \in 3..Len(received)
      PROVE  Sent(received[k])' /\ \A j \in 3..k - 1 : InOrder(received[j], received[k])
  <2>1. PICK e \in Events : e = received[k]
    BY <1>1
  <2>2. Sent(e)'
    BY <2>1 DEF InReceived, Lasting
  <2>3. Sent(received[k])'
    BY <2>1, <2>2 DEF Sent
  <2> QED
    BY <2>3 DEF InReceived
<1> QED
  BY <1>2, <1>3 DEF InChannel, InReceived, Ahead, InOrder

\* An event is put into the channel behind all that came before it.
LEMMA PutIn ==
  ASSUME Queued(Events), InChannel, InReceived, Ahead, Lasting,
         NEW ev \in Events, channel' = Append(channel, ev), received' = received,
         Sent(ev)', \A e \in Events : Sent(e) => InOrder(e, ev)
  PROVE  InChannel' /\ InReceived' /\ Ahead'
<1>1. channel \in Seq(Events) /\ received \in Seq(Events) /\ Len(channel) \in Nat
      /\ Len(received) \in Nat
  BY DEF Queued
<1>2. /\ Len(channel') = Len(channel) + 1 /\ channel'[Len(channel) + 1] = ev
      /\ \A k \in 1..Len(channel) : channel'[k] = channel[k]
  BY <1>1
<1>3. ASSUME NEW k \in 1..Len(channel')
      PROVE  Sent(channel[k])' /\ \A j \in 1..k - 1 : InOrder(channel'[j], channel'[k])
  <2>1. CASE k = Len(channel) + 1
    <3>1. Sent(channel[k])'
      BY <1>2, <2>1 DEF Sent
    <3>2. ASSUME NEW j \in 1..k - 1
          PROVE  InOrder(channel'[j], channel'[k])
      <4>1. j \in 1..Len(channel)
        BY <1>1, <2>1, <3>2
      <4>2. channel[j] \in Events /\ Sent(channel[j])
        BY <1>1, <4>1 DEF InChannel
      <4> QED
        BY <1>2, <2>1, <4>1, <4>2
    <3> QED
      BY <3>1, <3>2
  <2>2. CASE k \in 1..Len(channel)
    <3>1. PICK e \in Events : e = channel[k]
      BY <1>1, <2>2
    <3>2. Sent(e)'
      BY <2>2, <3>1 DEF InChannel, Lasting
    <3>3. channel'[k] = e
      BY <1>2, <2>2, <3>1
    <3>4. Sent(channel[k])'
      BY <3>2, <3>3 DEF Sent
    <3>5. ASSUME NEW j \in 1..k - 1
          PROVE  InOrder(channel'[j], channel'[k])
      <4>1. j \in 1..Len(channel)
        BY <1>1, <2>2, <3>5
      <4> QED
        BY <1>2, <2>2, <4>1 DEF InChannel
    <3> QED
      BY <3>4, <3>5
  <2> QED
    BY <1>1, <1>2, <2>1, <2>2
<1>4. ASSUME NEW k \in 3..Len(received)
      PROVE  Sent(received[k])' /\ \A j \in 3..k - 1 : InOrder(received[j], received[k])
  <2>1. PICK e \in Events : e = received[k]
    BY <1>1
  <2>2. Sent(e)'
    BY <2>1 DEF InReceived, Lasting
  <2>3. Sent(received[k])'
    BY <2>1, <2>2 DEF Sent
  <2> QED
    BY <2>3 DEF InReceived
<1>5. ASSUME NEW k \in 3..Len(received), NEW j \in 1..Len(channel')
      PROVE  InOrder(received[k], channel'[j])
  <2>1. CASE j = Len(channel) + 1
    <3>1. received[k] \in Events /\ Sent(received[k])
      BY <1>1 DEF InReceived
    <3> QED
      BY <1>2, <2>1, <3>1
  <2>2. CASE j \in 1..Len(channel)
    BY <1>2, <2>2 DEF Ahead
  <2> QED
    BY <1>1, <1>2, <2>1, <2>2
<1>6. InChannel'
  BY <1>3 DEF InChannel, InOrder
<1>7. InReceived'
  BY <1>4 DEF InReceived, InOrder
<1>8. Ahead'
  BY <1>5 DEF Ahead, InOrder
<1> QED
  BY <1>6, <1>7, <1>8

\* The first event of the channel is written to a client that was greeted.
LEMMA TakenOut ==
  ASSUME Queued(Events), InChannel, InReceived, Ahead, Lasting,
         channel # << >>, channel' = Tail(channel), Write(Head(channel)),
         connected => Len(received) >= 2
  PROVE  InChannel' /\ InReceived' /\ Ahead'
<1>1. channel \in Seq(Events) /\ received \in Seq(Events) /\ Len(channel) \in Nat
      /\ Len(received) \in Nat
  BY DEF Queued
<1>2. /\ Len(channel') = Len(channel) - 1 /\ Len(channel) >= 1 /\ Head(channel) = channel[1]
      /\ \A k \in 1..Len(channel') : channel'[k] = channel[k + 1] /\ k + 1 \in 1..Len(channel)
  BY <1>1
<1>3. InChannel'
  <2>1. ASSUME NEW k \in 1..Len(channel')
        PROVE  Sent(channel[k])' /\ \A j \in 1..k - 1 : InOrder(channel'[j], channel'[k])
    <3>1. k + 1 \in 1..Len(channel) /\ channel'[k] = channel[k + 1]
      BY <1>2
    <3>2. PICK e \in Events : e = channel[k + 1]
      BY <1>1, <3>1
    <3>3. Sent(e)'
      BY <3>1, <3>2 DEF InChannel, Lasting
    <3>4. Sent(channel[k])'
      BY <3>1, <3>2, <3>3 DEF Sent
    <3>5. ASSUME NEW j \in 1..k - 1
          PROVE  InOrder(channel'[j], channel'[k])
      <4>1. j \in 1..Len(channel') /\ j + 1 \in 1..(k + 1) - 1
        BY <1>1, <1>2, <3>5
      <4>2. channel'[j] = channel[j + 1]
        BY <1>2, <4>1
      <4> QED
        BY <3>1, <4>1, <4>2 DEF InChannel
    <3> QED
      BY <3>4, <3>5
  <2> QED
    BY <2>1 DEF InChannel, InOrder
<1>4. CASE ~connected
  <2>1. received' = received
    BY <1>4 DEF Write
  <2>2. ASSUME NEW k \in 3..Len(received)
        PROVE  Sent(received[k])' /\ \A j \in 3..k - 1 : InOrder(received[j], received[k])
    <3>1. PICK e \in Events : e = received[k]
      BY <1>1
    <3>2. Sent(e)'
      BY <3>1 DEF InReceived, Lasting
    <3>3. Sent(received[k])'
      BY <2>1, <3>1, <3>2 DEF Sent
    <3> QED
      BY <3>3 DEF InReceived
  <2>3. InReceived'
    BY <2>1, <2>2 DEF InReceived, InOrder
  <2>4. Ahead'
    BY <1>2, <2>1 DEF Ahead, InOrder
  <2> QED
    BY <1>3, <2>3, <2>4
<1>5. CASE connected
  <2>1. /\ received' = Append(received, channel[1]) /\ Len(received') = Len(received) + 1
        /\ received'[Len(received) + 1] = channel[1] /\ Len(received) >= 2
        /\ \A k \in 1..Len(received) : received'[k] = received[k]
    BY <1>1, <1>2, <1>5 DEF Write
  <2>2. 1 \in 1..Len(channel)
    BY <1>1, <1>2
  <2>3. ASSUME NEW k \in 3..Len(received')
        PROVE  Sent(received[k])' /\ \A j \in 3..k - 1 : InOrder(received'[j], received'[k])
    <3>1. CASE k = Len(received) + 1
      <4>1. PICK e \in Events : e = channel[1]
        BY <1>1, <2>2
      <4>2. Sent(e)'
        BY <2>2, <4>1 DEF InChannel, Lasting
      <4>3. Sent(received[k])'
        BY <2>1, <3>1, <4>1, <4>2 DEF Sent
      <4>4. ASSUME NEW j \in 3..k - 1
            PROVE  InOrder(received'[j], received'[k])
        <5>1. j \in 3..Len(received)
          BY <1>1, <3>1, <4>4
        <5>2. InOrder(received[j], channel[1])
          BY <2>2, <5>1 DEF Ahead
        <5> QED
          BY <1>1, <2>1, <3>1, <5>1, <5>2
      <4> QED
        BY <4>3, <4>4
    <3>2. CASE k \in 3..Len(received)
      <4>1. PICK e \in Events : e = received[k]
        BY <1>1, <3>2
      <4>2. Sent(e)' /\ received'[k] = e
        BY <1>1, <2>1, <3>2, <4>1 DEF InReceived, Lasting
      <4>3. Sent(received[k])'
        BY <4>2 DEF Sent
      <4>4. ASSUME NEW j \in 3..k - 1
            PROVE  InOrder(received'[j], received'[k])
        <5>1. j \in 3..Len(received) /\ received'[j] = received[j]
          BY <1>1, <2>1, <3>2, <4>4
        <5> QED
          BY <3>2, <4>1, <4>2, <4>4, <5>1 DEF InReceived
      <4> QED
        BY <4>3, <4>4
    <3> QED
      BY <1>1, <2>1, <3>1, <3>2
  <2>4. ASSUME NEW k \in 3..Len(received'), NEW j \in 1..Len(channel')
        PROVE  InOrder(received'[k], channel'[j])
    <3>1. j + 1 \in 1..Len(channel) /\ channel'[j] = channel[j + 1]
      BY <1>2
    <3>2. CASE k = Len(received) + 1
      <4>1. 1 \in 1..(j + 1) - 1
        BY <1>1, <1>2
      <4>2. InOrder(channel[1], channel[j + 1])
        BY <3>1, <4>1 DEF InChannel
      <4> QED
        BY <1>1, <2>1, <3>1, <3>2, <4>2
    <3>3. CASE k \in 3..Len(received)
      <4>1. received'[k] = received[k]
        BY <1>1, <2>1, <3>3
      <4> QED
        BY <3>1, <3>3, <4>1 DEF Ahead
    <3>4. k = Len(received) + 1 \/ k \in 3..Len(received)
      BY <1>1, <2>1
    <3> QED
      BY <3>2, <3>3, <3>4
  <2>5. InReceived'
    BY <2>3 DEF InReceived, InOrder
  <2>6. Ahead'
    BY <2>4 DEF Ahead, InOrder
  <2> QED
    BY <1>3, <2>5, <2>6
<1> QED
  BY <1>4, <1>5

\* The two greetings come first.
LEMMA GreetingKeeps ==
  ASSUME StreamTyped, Queued(Events), StreamInv, Greet
  PROVE  InChannel' /\ InReceived' /\ Ahead' /\ Greeted'
<1>1. received \in Seq(Events) /\ Len(received) \in Nat
  BY DEF Queued
<1>2. UNCHANGED <<sent, inCall, waiting, channel, connected>>
  BY DEF Greet
<1>3. Lasting
  BY <1>2 DEF Lasting, Sent
<1>4. Len(received') <= 2 /\ Len(received') \in Nat /\ Greeted'
  <2>1. CASE stage = "flushed" /\ stage' = "greeting" /\ Write(Greeting("session_info"))
    <3>1. received = << >>
      BY <2>1 DEF StreamInv, Greeted
    <3>2. CASE connected
      <4>1. received' = <<Greeting("session_info")>>
        BY <2>1, <3>1, <3>2 DEF Write
      <4>2. Len(received') = 1 /\ received'[1].src = "session_info"
        BY <4>1 DEF Greeting
      <4> QED
        BY <2>1, <4>2 DEF Greeted
    <3>3. CASE ~connected
      <4>1. received' = received /\ Len(received') = 0
        BY <2>1, <3>1, <3>3 DEF Write
      <4> QED
        BY <1>2, <2>1, <3>3, <4>1 DEF Greeted
    <3> QED
      BY <3>2, <3>3
  <2>2. CASE stage = "greeting" /\ stage' = "streaming" /\ Write(Greeting("initial"))
    <3>1. Len(received) <= 1 /\ (connected => Len(received) = 1)
          /\ (Len(received) >= 1 => received[1].src = "session_info")
      BY <2>2 DEF StreamInv, Greeted
    <3>2. CASE connected
      <4>1. received' = Append(received, Greeting("initial")) /\ Len(received) = 1
        BY <2>2, <3>1, <3>2 DEF Write
      <4>2. Len(received') = 2 /\ received'[1] = received[1] /\ received'[2] = Greeting("initial")
        <5>1. PICK ev \in Events : ev = Greeting("initial")
          BY EventsAreFine
        <5>2. received' = Append(received, ev)
          BY <4>1, <5>1
        <5>3. Len(received') = Len(received) + 1 /\ received'[Len(received) + 1] = ev
              /\ \A k \in 1..Len(received) : received'[k] = received[k]
          BY <1>1, <5>2
        <5> QED
          BY <4>1, <5>1, <5>3
      <4>3. received'[2].src = "initial"
        BY <4>2 DEF Greeting
      <4> QED
        BY <2>2, <3>1, <4>1, <4>2, <4>3 DEF Greeted
    <3>3. CASE ~connected
      <4>1. received' = received
        BY <2>2, <3>3 DEF Write
      <4> QED
        BY <1>1, <1>2, <2>2, <3>1, <3>3, <4>1 DEF Greeted
    <3> QED
      BY <3>2, <3>3
  <2> QED
    BY <2>1, <2>2 DEF Greet
<1>5. Len(received) <= 1
  <2>1. received = << >> => Len(received) = 0
    OBVIOUS
  <2> QED
    BY <2>1 DEF Greet, StreamInv, Greeted
<1>6. 3..Len(received') = {}
  BY <1>4
<1>7. InReceived' /\ Ahead'
  BY <1>6 DEF InReceived, Ahead
<1>8. InChannel'
  BY <1>3, NothingMoved, <1>2 DEF StreamInv, InChannel, Lasting, Sent, InOrder
<1> QED
  BY <1>4, <1>7, <1>8

\* What the client has it keeps.
LEMMA SeenKept ==
  ASSUME Queued(Events), NEW ev \in Events, Write(ev), NEW n, HandoverSeen(n)
  PROVE  HandoverSeen(n)'
<1>1. received \in Seq(Events) /\ Len(received) \in Nat
  BY DEF Queued
<1>2. PICK k \in 1..Len(received) : received[k] = Handover(n)
  BY DEF HandoverSeen
<1>3. k \in 1..Len(received') /\ received'[k] = received[k]
  BY <1>1, <1>2 DEF Write
<1> QED
  BY <1>2, <1>3 DEF HandoverSeen, Handover

\* Greetings and subscriptions do not depend on the bus.
LEMMA StaysGreeted ==
  ASSUME Greeted, Subscribed, UNCHANGED <<stage, subs, received>>, connected' => connected
  PROVE  Greeted' /\ Subscribed'
BY DEF Greeted, Subscribed

LEMMA StaysOnTheWay ==
  ASSUME StreamTyped, NoneLost, stage' = stage, connected' => connected, unseen' = unseen,
         \A n \in 1..MaxEvents : n <= sent'[Bearer] =>
           (n <= sent[Bearer] /\ (connected' /\ OnTheWay(n) => OnTheWay(n)')) \/ OnTheWay(n)'
  PROVE  NoneLost'
BY DEF NoneLost

LEMMA HandlerKeeps ==
  ASSUME StreamTyped, Queued(Events), StreamInv,
         \/ UNCHANGED streamVars \/ ClearStream
         \/ /\ connected' = FALSE
            /\ UNCHANGED <<stage, subs, inCall, sent, unseen, channel, waiting, received>>
         \/ Connect \/ Subscribe \/ Unsubscribe
  PROVE  StreamInv'
<1> USE DEF StreamTyped
<1>1. ASSUME UNCHANGED <<inCall, sent, channel, waiting, received>>
      PROVE  Counted' /\ InChannel' /\ InReceived' /\ Ahead'
  <2>1. Lasting /\ Counted'
    BY <1>1 DEF Lasting, Sent, Counted, StreamInv
  <2> QED
    BY <1>1, <2>1, NothingMoved DEF StreamInv
<1>2. CASE UNCHANGED streamVars \/ (/\ connected' = FALSE
           /\ UNCHANGED <<stage, subs, inCall, sent, unseen, channel, waiting, received>>)
  <2>1. /\ UNCHANGED <<stage, subs, inCall, sent, unseen, channel, waiting, received>>
        /\ connected' => connected
    BY <1>2 DEF streamVars
  <2>2. Greeted' /\ Subscribed'
    BY <2>1, StaysGreeted DEF StreamInv
  <2>3. \A n : OnTheWay(n) => OnTheWay(n)'
    BY <2>1 DEF OnTheWay, HandoverSeen, Handover
  <2>4. NoneLost'
    BY <2>1, <2>3 DEF StreamInv, NoneLost
  <2> QED
    BY <1>1, <2>1, <2>2, <2>4 DEF StreamInv
<1>3. CASE ClearStream
  <2>1. channel' = << >> /\ received' = << >> /\ waiting' = {} /\ stage' = "none"
        /\ inCall' = [s \in Sources |-> 0]
    BY <1>3 DEF ClearStream
  <2>2. Len(channel') = 0 /\ Len(received') = 0
    BY <2>1
  <2>3. Counted'
    BY <2>1 DEF Counted
  <2>4. InChannel' /\ InReceived' /\ Ahead'
    BY <2>2 DEF InChannel, InReceived, Ahead
  <2>5. Greeted' /\ Subscribed' /\ NoneLost'
    BY <2>1, <2>2 DEF Greeted, Subscribed, NoneLost
  <2> QED
    BY <2>3, <2>4, <2>5 DEF StreamInv
<1>4. CASE Connect
  <2>1. UNCHANGED <<inCall, sent, channel, waiting, received>> /\ received = << >>
        /\ stage' = "subscribing"
    BY <1>4 DEF Connect, StreamInv, Greeted
  <2>2. Greeted' /\ Subscribed' /\ NoneLost'
    BY <2>1 DEF Greeted, Subscribed, NoneLost
  <2> QED
    BY <1>1, <2>1, <2>2 DEF StreamInv
<1>5. CASE Subscribe
  <2>1. UNCHANGED <<inCall, sent, channel, waiting, received>> /\ received = << >>
        /\ connected' = connected /\ stage' \in {"subscribing", "flushed"}
    BY <1>5 DEF Subscribe, StreamInv, Greeted
  <2>2. stage' = "flushed" => "handover" \in subs' /\ unseen' = sent[Bearer]
    BY <1>5 DEF Subscribe, Join
  <2>3. sent[Bearer] \in Nat
    BY StreamAssumption DEF Sources
  <2>4. Greeted' /\ Subscribed'
    BY <2>1, <2>2 DEF Greeted, Subscribed
  <2>5. NoneLost'
    BY <2>1, <2>2, <2>3 DEF NoneLost
  <2> QED
    BY <1>1, <2>1, <2>4, <2>5 DEF StreamInv
<1>6. CASE Unsubscribe
  <2>1. UNCHANGED <<inCall, sent, channel, waiting, received, connected>> /\ stage' = "gone"
        /\ (Len(received) >= 1 => received[1].src = "session_info")
        /\ (Len(received) >= 2 => received[2].src = "initial")
    BY <1>6 DEF Unsubscribe, StreamInv, Greeted
  <2>2. Greeted' /\ Subscribed' /\ NoneLost'
    BY <2>1 DEF Greeted, Subscribed, NoneLost
  <2> QED
    BY <1>1, <2>1, <2>2 DEF StreamInv
<1> QED
  BY <1>2, <1>3, <1>4, <1>5, <1>6

LEMMA WritesKeep ==
  ASSUME StreamTyped, Queued(Events), StreamInv, Greet \/ Forward
  PROVE  StreamInv'
<1>1. channel \in Seq(Events) /\ received \in Seq(Events) /\ Len(channel) \in Nat
      /\ Len(received) \in Nat
  BY DEF Queued
<1>2. UNCHANGED <<connected, subs, inCall, sent, unseen, waiting>>
  BY DEF Greet, Forward
<1>3. Counted' /\ Lasting
  BY <1>2 DEF StreamInv, Counted, Lasting, Sent
<1>4. CASE Greet
  <2>1. InChannel' /\ InReceived' /\ Ahead' /\ Greeted'
    BY <1>4, GreetingKeeps
  <2>2. stage \in {"flushed", "greeting"} /\ channel' = channel
    BY <1>4 DEF Greet
  <2>3. Subscribed'
    BY <1>2, <2>2 DEF StreamInv, Subscribed
  <2>4. \A n : HandoverSeen(n) => HandoverSeen(n)'
    BY <1>4, SeenKept, EventsAreFine DEF Greet
  <2>5. \A n : OnTheWay(n) => OnTheWay(n)'
    BY <1>2, <2>2, <2>4 DEF OnTheWay, Handover
  <2>6. NoneLost'
    BY <1>2, <2>2, <2>5 DEF StreamInv, NoneLost
  <2> QED
    BY <1>3, <2>1, <2>3, <2>6 DEF StreamInv
<1>5. CASE Forward
  <2>1. stage = "streaming" /\ stage' = stage /\ channel # << >> /\ channel' = Tail(channel)
        /\ Write(Head(channel))
    BY <1>5 DEF Forward
  <2>2. connected => Len(received) >= 2
    BY <2>1 DEF StreamInv, Greeted
  <2>3. InChannel' /\ InReceived' /\ Ahead'
    BY <1>3, <2>1, <2>2, TakenOut DEF StreamInv
  <2>4. /\ Len(channel) >= 1 /\ Head(channel) = channel[1] /\ channel[1] \in Events
        /\ Len(channel') = Len(channel) - 1
        /\ \A k \in 1..Len(channel') : channel'[k] = channel[k + 1]
    BY <1>1, <2>1
  <2>5. connected => /\ Len(received') = Len(received) + 1
                     /\ received'[Len(received) + 1] = channel[1]
                     /\ \A k \in 1..Len(received) : received'[k] = received[k]
    BY <1>1, <2>1, <2>4 DEF Write
  <2>6. ~connected => received' = received
    BY <2>1 DEF Write
  <2>7. Greeted'
    <3>1. /\ Len(received) >= 1 => received[1].src = "session_info"
          /\ Len(received) >= 2 => received[2].src = "initial"
      BY DEF StreamInv, Greeted
    <3>2. CASE connected
      <4>1. /\ Len(received') >= 2 /\ received'[1] = received[1] /\ received'[2] = received[2]
        BY <1>1, <2>2, <2>5, <3>2
      <4> QED
        BY <2>1, <2>2, <3>1, <3>2, <4>1 DEF Greeted
    <3>3. CASE ~connected
      BY <1>2, <2>1, <2>6, <3>1, <3>3 DEF Greeted
    <3> QED
      BY <3>2, <3>3
  <2>8. Subscribed'
    BY <1>2, <2>1 DEF StreamInv, Subscribed
  <2>9. ASSUME connected, NEW n, OnTheWay(n)
        PROVE  OnTheWay(n)'
    <3>1. CASE inCall[Bearer] = n \/ n \in waiting
      BY <1>2, <3>1 DEF OnTheWay
    <3>2. CASE HandoverSeen(n)
      <4>1. HandoverSeen(n)'
        BY <2>1, <2>4, <3>2, SeenKept
      <4> QED
        BY <4>1 DEF OnTheWay
    <3>3. ASSUME NEW k \in 1..Len(channel), channel[k] = Handover(n)
          PROVE  OnTheWay(n)'
      <4>1. CASE k = 1
        <5>1. Len(received') \in Nat /\ Len(received) + 1 \in 1..Len(received')
              /\ received'[Len(received) + 1] = Handover(n)
          BY <1>1, <2>5, <2>9, <3>3, <4>1
        <5>2. HandoverSeen(n)'
          BY <5>1 DEF HandoverSeen, Handover
        <5> QED
          BY <5>2 DEF OnTheWay
      <4>2. CASE k # 1
        <5>1. PICK j \in 1..Len(channel') : j = k - 1
          BY <1>1, <2>4, <4>2
        <5>2. j + 1 = k /\ channel'[j] = channel[k]
          BY <2>4, <5>1
        <5>3. channel'[j] = Handover(n)
          BY <3>3, <5>2
        <5> QED
          BY <5>1, <5>3 DEF OnTheWay, Handover
      <4> QED
        BY <4>1, <4>2
    <3> QED
      BY <2>9, <3>1, <3>2, <3>3 DEF OnTheWay
  <2>10. NoneLost'
    BY <1>2, <2>1, <2>9 DEF StreamInv, NoneLost
  <2> QED
    BY <1>3, <2>3, <2>7, <2>8, <2>10 DEF StreamInv
<1> QED
  BY <1>4, <1>5

LEMMA PublicationKeeps ==
  ASSUME StreamTyped, Queued(Events), StreamInv, NEW s \in Sources, Publish(s)
  PROVE  StreamInv'
<1> USE DEF StreamTyped
<1>1. /\ inCall[s] = 0 /\ sent' = [sent EXCEPT ![s] = @ + 1]
      /\ inCall' = [inCall EXCEPT ![s] = IF Topic(s) \in subs THEN sent[s] + 1 ELSE 0]
      /\ UNCHANGED <<connected, stage, subs, unseen, channel, waiting, received>>
  BY DEF Publish
<1>2. /\ Bearer \in Sources /\ MaxEvents \in Nat /\ sent[s] \in Nat /\ sent'[s] = sent[s] + 1
      /\ inCall'[s] = (IF Topic(s) \in subs THEN sent[s] + 1 ELSE 0)
      /\ \A t \in Sources \ {s} : sent'[t] = sent[t] /\ inCall'[t] = inCall[t]
      /\ \A t \in Sources : sent[t] \in Nat
      /\ \A n \in waiting : n \in Nat
  BY <1>1, StreamAssumption DEF Sources
<1>3. Lasting
  <2>1. ASSUME NEW e \in Events, Sent(e)
        PROVE  Sent(e)'
    <3>1. e.src \in Sources /\ e.n \in 1..sent[e.src] /\ (e.src = Bearer => e.n \notin waiting)
          /\ (inCall[e.src] # 0 => e.n < inCall[e.src])
      BY <2>1 DEF Sent
    <3>2. CASE e.src = s
      <4>1. e.n \in 1..sent'[e.src] /\ (inCall'[e.src] # 0 => e.n < inCall'[e.src])
        BY <1>2, <3>1, <3>2
      <4> QED
        BY <1>1, <3>1, <4>1 DEF Sent
    <3>3. CASE e.src # s
      BY <1>1, <1>2, <3>1, <3>3 DEF Sent
    <3> QED
      BY <3>2, <3>3
  <2> QED
    BY <2>1 DEF Lasting
<1>4. Counted'
  <2>1. \A t \in Sources : inCall'[t] # 0 => inCall'[t] = sent'[t]
    BY <1>2 DEF StreamInv, Counted
  <2>2. ASSUME NEW n \in waiting
        PROVE  n <= sent'[Bearer] /\ (inCall'[Bearer] # 0 => n < inCall'[Bearer])
    <3>1. n \in Nat /\ n <= sent[Bearer] /\ (inCall[Bearer] # 0 => n < inCall[Bearer])
      BY <1>2 DEF StreamInv, Counted
    <3>2. CASE s = Bearer
      BY <1>2, <3>1, <3>2
    <3>3. CASE s # Bearer
      BY <1>2, <3>1, <3>3
    <3> QED
      BY <3>2, <3>3
  <2> QED
    BY <1>1, <2>1, <2>2 DEF Counted
<1>5. InChannel' /\ InReceived' /\ Ahead'
  BY <1>1, <1>3, NothingMoved DEF StreamInv
<1>6. Greeted' /\ Subscribed'
  BY <1>1, StaysGreeted DEF StreamInv
<1>7. ASSUME NEW n \in 1..MaxEvents, OnTheWay(n)
      PROVE  OnTheWay(n)'
  <2>1. inCall[Bearer] = n => inCall'[Bearer] = n
    BY <1>1, <1>2
  <2> QED
    BY <1>1, <1>7, <2>1 DEF OnTheWay, HandoverSeen, Handover
<1>8. NoneLost'
  <2> SUFFICES ASSUME stage \in {"flushed", "greeting", "streaming"}, connected,
                      NEW n \in 1..MaxEvents, unseen < n, n <= sent'[Bearer]
               PROVE  OnTheWay(n)'
    BY <1>1 DEF NoneLost
  <2>1. CASE n <= sent[Bearer]
    BY <1>7, <2>1 DEF StreamInv, NoneLost
  <2>2. CASE ~(n <= sent[Bearer])
    <3>1. s = Bearer /\ n = sent[Bearer] + 1
      BY <1>2, <2>2
    <3>2. "handover" \in subs
      BY DEF StreamInv, Subscribed
    <3>3. inCall'[Bearer] = n
      BY <1>2, <3>1, <3>2 DEF Topic
    <3> QED
      BY <3>3 DEF OnTheWay
  <2> QED
    BY <2>1, <2>2
<1> QED
  BY <1>4, <1>5, <1>6, <1>8 DEF StreamInv

LEMMA CoverageKeeps ==
  ASSUME StreamTyped, Queued(Events), StreamInv, NEW s \in Sources,
         NEW by \in Sources \union {"session"}, OnCoverage(s, by)
  PROVE  StreamInv'
<1> USE DEF StreamTyped
<1> DEFINE ev == [src |-> s, n |-> inCall[s], by |-> by]
<1>1. /\ s # Bearer /\ inCall[s] # 0 /\ inCall' = [inCall EXCEPT ![s] = 0]
      /\ UNCHANGED <<connected, stage, subs, sent, unseen, waiting, received>>
      /\ channel' = IF Len(channel) < Capacity THEN Append(channel, ev) ELSE channel
  BY DEF OnCoverage, EnqueueDrop
<1>2. /\ Bearer \in Sources /\ inCall[s] \in Nat /\ inCall'[s] = 0
      /\ inCall'[Bearer] = inCall[Bearer]
      /\ \A t \in Sources \ {s} : inCall'[t] = inCall[t]
      /\ inCall[s] = sent[s]
  <2>1. inCall[s] = sent[s]
    BY <1>1 DEF StreamInv, Counted
  <2> QED
    BY <1>1, <2>1, StreamAssumption DEF Sources
<1>3. ev \in Events /\ ev.src = s /\ ev.n = inCall[s]
  BY DEF Events
<1>4. Lasting
  BY <1>1, <1>2 DEF Lasting, Sent
<1>5. Counted'
  BY <1>1, <1>2 DEF StreamInv, Counted
<1>6. Greeted' /\ Subscribed'
  BY <1>1, StaysGreeted DEF StreamInv
<1> HIDE DEF ev
<1>7. InChannel' /\ InReceived' /\ Ahead'
  <2>1. CASE channel' = channel
    BY <1>1, <1>4, <2>1, NothingMoved DEF StreamInv
  <2>2. CASE channel' = Append(channel, ev)
    <3>1. PICK new \in Events : new = ev
      BY <1>3
    <3>2. Sent(new)'
      BY <1>1, <1>2, <1>3, <3>1 DEF Sent
    <3>3. \A e \in Events : Sent(e) => InOrder(e, new)
      BY <1>1, <1>3, <3>1 DEF Sent, InOrder
    <3> QED
      BY <1>1, <1>4, <2>2, <3>1, <3>2, <3>3, PutIn DEF StreamInv
  <2> QED
    BY <1>1, <2>1, <2>2
<1>8. ASSUME NEW n, OnTheWay(n)
      PROVE  OnTheWay(n)'
  <2>1. \A k \in 1..Len(channel) : k \in 1..Len(channel') /\ channel'[k] = channel[k]
    <3>1. channel \in Seq(Events)
      BY DEF Queued
    <3> QED
      BY <1>1, <1>3, <3>1
  <2> QED
    BY <1>1, <1>2, <1>8, <2>1 DEF OnTheWay, HandoverSeen, Handover
<1>9. NoneLost'
  BY <1>1, <1>8 DEF StreamInv, NoneLost
<1> QED
  BY <1>5, <1>6, <1>7, <1>9 DEF StreamInv

LEMMA HandoverKeeps ==
  ASSUME StreamTyped, Queued(Events), StreamInv, OnHandover
  PROVE  StreamInv'
<1> USE DEF StreamTyped
<1>1. /\ inCall[Bearer] # 0 /\ inCall' = [inCall EXCEPT ![Bearer] = 0]
      /\ waiting' = waiting \union {inCall[Bearer]}
      /\ UNCHANGED <<connected, stage, subs, sent, unseen, channel, received>>
  BY DEF OnHandover
<1>2. /\ Bearer \in Sources /\ inCall[Bearer] \in Nat /\ inCall'[Bearer] = 0
      /\ \A t \in Sources \ {Bearer} : inCall'[t] = inCall[t]
      /\ inCall[Bearer] = sent[Bearer]
  <2>1. inCall[Bearer] = sent[Bearer]
    BY <1>1 DEF StreamInv, Counted, Sources
  <2> QED
    BY <1>1, <2>1, StreamAssumption DEF Sources
<1>3. Lasting
  <2>1. ASSUME NEW e \in Events, Sent(e)
        PROVE  Sent(e)'
    <3>1. e.src \in Sources /\ e.n \in 1..sent[e.src] /\ (e.src = Bearer => e.n \notin waiting)
          /\ (inCall[e.src] # 0 => e.n < inCall[e.src])
      BY <2>1 DEF Sent
    <3>2. e.src = Bearer => e.n # inCall[Bearer]
      BY <1>1, <1>2, <3>1
    <3> QED
      BY <1>1, <1>2, <3>1, <3>2 DEF Sent
  <2> QED
    BY <2>1 DEF Lasting
<1>4. Counted'
  BY <1>1, <1>2 DEF StreamInv, Counted
<1>5. InChannel' /\ InReceived' /\ Ahead'
  BY <1>1, <1>3, NothingMoved DEF StreamInv
<1>6. Greeted' /\ Subscribed'
  BY <1>1, StaysGreeted DEF StreamInv
<1>7. ASSUME NEW n, OnTheWay(n)
      PROVE  OnTheWay(n)'
  BY <1>1, <1>7 DEF OnTheWay, HandoverSeen, Handover
<1>8. NoneLost'
  BY <1>1, <1>7 DEF StreamInv, NoneLost
<1> QED
  BY <1>4, <1>5, <1>6, <1>8 DEF StreamInv

LEMMA GoroutineKeeps ==
  ASSUME StreamTyped, Queued(Events), StreamInv, NEW n \in 1..MaxEvents, EnqueueReliable(n)
  PROVE  StreamInv'
<1> USE DEF StreamTyped
<1>1. /\ n \in waiting /\ waiting' = waiting \ {n}
      /\ UNCHANGED <<connected, stage, subs, inCall, sent, unseen, received>>
      /\ channel' = Append(channel, Handover(n)) \/ (~connected /\ channel' = channel)
  BY DEF EnqueueReliable
<1>2. /\ Bearer \in Sources /\ n \in Nat /\ n >= 1 /\ sent[Bearer] \in Nat /\ n <= sent[Bearer]
      /\ inCall[Bearer] # 0 => n < inCall[Bearer]
  <2>1. n <= sent[Bearer] /\ (inCall[Bearer] # 0 => n < inCall[Bearer])
    BY <1>1 DEF StreamInv, Counted
  <2> QED
    BY <2>1, StreamAssumption DEF Sources
<1>3. Lasting
  BY <1>1 DEF Lasting, Sent
<1>4. Counted'
  BY <1>1 DEF StreamInv, Counted
<1>5. Greeted' /\ Subscribed'
  BY <1>1, StaysGreeted DEF StreamInv
<1>6. PICK new \in Events : new = Handover(n)
  BY EventsAreFine
<1>7. new.src = Bearer /\ new.n = n
  BY <1>6 DEF Handover
<1>8. channel \in Seq(Events) /\ Len(channel) \in Nat
  BY DEF Queued
<1>9. InChannel' /\ InReceived' /\ Ahead'
  <2>1. CASE channel' = channel
    BY <1>1, <1>3, <2>1, NothingMoved DEF StreamInv
  <2>2. CASE channel' = Append(channel, new)
    <3>1. Sent(new)'
      <4>1. Bearer \in Sources /\ n \in 1..sent[Bearer]
        BY <1>2
      <4> QED
        BY <1>1, <1>2, <1>7, <4>1 DEF Sent
    <3>2. \A e \in Events : Sent(e) => InOrder(e, new)
      BY <1>1, <1>7 DEF Sent, InOrder
    <3> QED
      BY <1>1, <1>3, <2>2, <3>1, <3>2, PutIn DEF StreamInv
  <2> QED
    BY <1>1, <1>6, <2>1, <2>2
<1>10. ASSUME connected, NEW m, OnTheWay(m)
       PROVE  OnTheWay(m)'
  <2>1. channel' = Append(channel, new)
    BY <1>1, <1>6, <1>10
  <2>2. /\ Len(channel') = Len(channel) + 1 /\ channel'[Len(channel) + 1] = new
        /\ \A k \in 1..Len(channel) : k \in 1..Len(channel') /\ channel'[k] = channel[k]
        /\ Len(channel) + 1 \in 1..Len(channel')
    BY <1>8, <2>1
  <2>3. CASE m = n
    <3>1. channel'[Len(channel) + 1] = Handover(m)
      BY <1>6, <2>2, <2>3
    <3> QED
      BY <2>2, <3>1 DEF OnTheWay, Handover
  <2>4. CASE m # n
    BY <1>1, <1>10, <2>2, <2>4 DEF OnTheWay, HandoverSeen, Handover
  <2> QED
    BY <2>3, <2>4
<1>11. NoneLost'
  BY <1>1, <1>10 DEF StreamInv, NoneLost
<1> QED
  BY <1>4, <1>5, <1>9, <1>11 DEF StreamInv

LEMMA StreamStep ==
  ASSUME StreamTyped, Queued(Events), StreamInv, StreamMove(Events)
  PROVE  StreamInv'
BY HandlerKeeps, WritesKeep, PublicationKeeps, CoverageKeeps, HandoverKeeps, GoroutineKeeps
   DEF StreamMove

LEMMA StreamInitially ==
  ASSUME Init
  PROVE  StreamInv
<1>1. channel = << >> /\ received = << >> /\ waiting = {} /\ stage = "none"
      /\ inCall = [s \in Sources |-> 0]
  BY DEF Init, StreamInit
<1>2. Len(channel) = 0 /\ Len(received) = 0
  BY <1>1
<1>3. Counted
  BY <1>1 DEF Counted
<1>4. InChannel /\ InReceived /\ Ahead
  BY <1>2 DEF InChannel, InReceived, Ahead
<1>5. Greeted /\ Subscribed /\ NoneLost
  BY <1>1, <1>2 DEF Greeted, Subscribed, NoneLost
<1> QED
  BY <1>3, <1>4, <1>5 DEF StreamInv

LEMMA StreamNext ==
  ASSUME LifeInv, StreamInv, [Next]_vars
  PROVE  StreamInv'
<1>1. \A s \in Sources \ {Bearer} :
        inCall[s] # 0 => [src |-> s, n |-> inCall[s], by |-> EvaluatorFor(s)] \in Events
  <2>1. ASSUME NEW s \in Sources
        PROVE  [src |-> s, n |-> inCall[s], by |-> EvaluatorFor(s)] \in Events
    <3>1. inCall[s] \in 0..MaxEvents
      BY DEF LifeInv, StreamTyped
    <3>2. EvaluatorFor(s) \in Sources \union {"session", "none"}
      BY DEF EvaluatorFor
    <3> QED
      BY <3>1, <3>2 DEF Events
  <2> QED
    BY <2>1
<1>2. StreamMove(Events)
  BY <1>1, Moves
<1> QED
  BY <1>2, StreamStep DEF LifeInv

LEMMA StreamCorrect == Spec => [](LifeInv /\ StreamInv)
<1>1. Init => LifeInv /\ StreamInv
  BY LifeInit, StreamInitially
<1>2. LifeInv /\ StreamInv /\ [Next]_vars => LifeInv' /\ StreamInv'
  BY LifeNext, StreamNext
<1> QED
  BY <1>1, <1>2, PTL DEF Spec

\* The safety half of StreamFaithful, for any number of events and any capacity
\* of the handler's channel: the two greetings come first, each device's
\* coverage comes in the order it was published in although events may be
\* dropped, and no handover comes twice although each is sent by a goroutine of
\* its own.
THEOREM StreamIsOrdered == Spec => []StreamInOrder
<1>1. LifeInv /\ StreamInv => StreamInOrder
  <2> SUFFICES ASSUME LifeInv, StreamInv
               PROVE  StreamInOrder
    OBVIOUS
  <2>1. \A k \in 1..Len(received) :
          received[k].src = CASE k = 1 -> "session_info" [] k = 2 -> "initial"
                              [] OTHER -> received[k].src
    <3>1. ASSUME NEW k \in 1..Len(received)
          PROVE  /\ k = 1 => received[k].src = "session_info"
                 /\ k = 2 => received[k].src = "initial"
      <4>1. received \in Seq(Events)
        BY DEF LifeInv, Queued
      <4>2. Len(received) \in Nat /\ k \in Nat /\ k <= Len(received)
        BY <4>1
      <4> QED
        BY <4>2 DEF StreamInv, Greeted
    <3> QED
      BY <3>1
  <2>2. ASSUME NEW j \in 3..Len(received), NEW k \in 3..Len(received), j < k,
               received[j].src = received[k].src
        PROVE  IF received[j].src = Bearer THEN received[j].n # received[k].n
               ELSE received[j].n < received[k].n
    <3>1. j \in 3..k - 1
      BY <2>2
    <3> QED
      BY <2>2, <3>1 DEF StreamInv, InReceived, InOrder
  <2> QED
    BY <2>1, <2>2 DEF StreamInOrder
<1> QED
  BY <1>1, StreamCorrect, PTL

\* "must-not-lose" (sse.go:24): a handover published once the client has the
\* response header is with the client or still has someone who will send it, as
\* long as the client stays; HandoversArrive adds that it does get there.
THEOREM NoHandoverLost == Spec => []NoneLost
<1>1. LifeInv /\ StreamInv => NoneLost
  BY DEF StreamInv
<1> QED
  BY <1>1, StreamCorrect, PTL
=============================================================================
