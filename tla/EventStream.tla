----------------------------- MODULE EventStream -----------------------------
(***************************************************************************)
(* GET /events (internal/kernel/apihost/sse.go) for one client.  The       *)
(* handler subscribes to the bus topic by topic, flushes the header, and   *)
(* then writes what the callbacks put into its channel.  Coverage, link    *)
(* state, message, position and lifecycle events are dropped when the      *)
(* channel is full, and stand here as one topic; a handover is handed to a *)
(* goroutine of its own that waits for room.                               *)
(*                                                                         *)
(* The bus copies its subscribers under its mutex and calls them after it  *)
(* let go, so a callback may run when its client has already unsubscribed. *)
(* The client reads what is written until it disconnects.                  *)
(***************************************************************************)
EXTENDS Naturals, Sequences

CONSTANTS
  Reporters,    \* the drivers that publish coverage, by device
  Capacity,     \* of the handler's channel
  MaxEvents     \* bound: events published by each source

ASSUME StreamAssumption == Capacity \in Nat \ {0} /\ MaxEvents \in Nat

Bearer == "bearer"                     \* publishes the handovers
Sources == Reporters \union {Bearer}
Topic(s) == IF s = Bearer THEN "handover" ELSE "coverage"

VARIABLES
  connected,    \* the client's context is not done
  stage,        \* of the handler
  subs,         \* topics it is subscribed to
  inCall,       \* [Sources -> event whose callback is under way, 0 if none]
  sent,         \* [Sources -> events published]
  unseen,       \* handovers published before the header was flushed
  channel,      \* the buffered channel
  waiting,      \* handovers whose goroutine waits to send
  received      \* what the client has been sent, in order

streamVars ==
  <<connected, stage, subs, inCall, sent, unseen, channel, waiting, received>>

Events == [src : Sources \union {"session_info", "initial"}, n : 0..MaxEvents,
           by : Sources \union {"session", "none"}]

StreamTypeOK ==
  /\ connected \in BOOLEAN
  /\ stage \in {"none", "subscribing", "flushed", "greeting", "streaming", "gone"}
  /\ subs \subseteq {"coverage", "handover"}
  /\ inCall \in [Sources -> 0..MaxEvents] /\ sent \in [Sources -> 0..MaxEvents]
  /\ unseen \in 0..MaxEvents
  /\ channel \in Seq(Events) /\ Len(channel) <= Capacity
  /\ waiting \subseteq 1..MaxEvents
  /\ received \in Seq(Events)

StreamInit ==
  /\ connected = FALSE /\ stage = "none" /\ subs = {} /\ unseen = 0
  /\ inCall = [s \in Sources |-> 0] /\ sent = [s \in Sources |-> 0]
  /\ channel = << >> /\ waiting = {} /\ received = << >>

ClearStream ==
  /\ connected' = FALSE /\ stage' = "none" /\ subs' = {} /\ unseen' = 0
  /\ inCall' = [s \in Sources |-> 0] /\ sent' = [s \in Sources |-> 0]
  /\ channel' = << >> /\ waiting' = {} /\ received' = << >>

Greeting(kind) == [src |-> kind, n |-> 0, by |-> "none"]
Handover(n) == [src |-> Bearer, n |-> n, by |-> "none"]

-----------------------------------------------------------------------------
(* The handler.                                                            *)

Connect ==
  /\ stage = "none"
  /\ connected' = TRUE /\ stage' = "subscribing"
  /\ UNCHANGED <<subs, inCall, sent, unseen, channel, waiting, received>>

Join(topic) == subs' = subs \union {topic}

(* The six subscriptions of the handler, in its order.                     *)
Subscribe ==
  /\ stage = "subscribing"
  /\ Join(IF subs = {} THEN "coverage" ELSE "handover")
  /\ stage' = IF subs = {} THEN stage ELSE "flushed"
  /\ unseen' = IF subs = {} THEN unseen ELSE sent[Bearer]
  /\ UNCHANGED <<connected, inCall, sent, channel, waiting, received>>

(* A write reaches the client while it is there; its error is ignored.     *)
Write(ev) == received' = IF connected THEN Append(received, ev) ELSE received

Greet ==
  /\ \/ stage = "flushed" /\ stage' = "greeting" /\ Write(Greeting("session_info"))
     \/ stage = "greeting" /\ stage' = "streaming" /\ Write(Greeting("initial"))
  /\ UNCHANGED <<connected, subs, inCall, sent, unseen, channel, waiting>>

Forward ==
  /\ stage = "streaming" /\ channel # << >>
  /\ Write(Head(channel))
  /\ channel' = Tail(channel)
  /\ UNCHANGED <<connected, stage, subs, inCall, sent, unseen, waiting>>

Unsubscribe ==
  /\ stage = "streaming" /\ ~connected
  /\ stage' = "gone" /\ subs' = {}
  /\ UNCHANGED <<connected, inCall, sent, unseen, channel, waiting, received>>

Disconnect ==
  /\ connected
  /\ connected' = FALSE
  /\ UNCHANGED <<stage, subs, inCall, sent, unseen, channel, waiting, received>>

-----------------------------------------------------------------------------
(* The bus and the callbacks.                                              *)

(* Publish*: one event of a source at a time, its subscribers copied.      *)
Publish(s) ==
  /\ inCall[s] = 0 /\ sent[s] < MaxEvents
  /\ sent' = [sent EXCEPT ![s] = @ + 1]
  /\ inCall' = [inCall EXCEPT ![s] = IF Topic(s) \in subs THEN sent[s] + 1 ELSE 0]
  /\ UNCHANGED <<connected, stage, subs, unseen, channel, waiting, received>>

EnqueueDrop(ev) ==
  channel' = IF Len(channel) < Capacity THEN Append(channel, ev) ELSE channel

(* The coverage callback fills the event in from the evaluator it is given. *)
OnCoverage(s, by) ==
  /\ s # Bearer /\ inCall[s] # 0
  /\ EnqueueDrop([src |-> s, n |-> inCall[s], by |-> by])
  /\ inCall' = [inCall EXCEPT ![s] = 0]
  /\ UNCHANGED <<connected, stage, subs, sent, unseen, waiting, received>>

\* Mutant: a handover is dropped like any other event when there is no room.
OnHandoverDropping ==
  /\ inCall[Bearer] # 0
  /\ EnqueueDrop(Handover(inCall[Bearer]))
  /\ inCall' = [inCall EXCEPT ![Bearer] = 0]
  /\ UNCHANGED <<connected, stage, subs, sent, unseen, waiting, received>>

OnHandover ==
  /\ inCall[Bearer] # 0
  /\ waiting' = waiting \union {inCall[Bearer]}
  /\ inCall' = [inCall EXCEPT ![Bearer] = 0]
  /\ UNCHANGED <<connected, stage, subs, sent, unseen, channel, received>>

(* sseEnqueueReliable's goroutine: room in the channel, or the client gone. *)
EnqueueReliable(n) ==
  /\ n \in waiting
  /\ \/ /\ Len(channel) < Capacity
        /\ channel' = Append(channel, Handover(n))
     \/ ~connected /\ UNCHANGED channel
  /\ waiting' = waiting \ {n}
  /\ UNCHANGED <<connected, stage, subs, inCall, sent, unseen, received>>
=============================================================================
