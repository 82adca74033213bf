----------------------------- MODULE DeviceHost -----------------------------
(***************************************************************************)
(* The devices of the API host (internal/kernel/apihost/server.go): the    *)
(* registry, the evaluators, the driver loops started for them, and the    *)
(* requests that register a device and ask for its condition.  The         *)
(* registry has its own mutex and the evaluators another, so a request is  *)
(* a chain of steps between which other requests run.  A profile that      *)
(* loaded also makes an evaluator, so the code's removal of a device whose *)
(* evaluator could not be made has no step here.                           *)
(***************************************************************************)
EXTENDS Naturals

CONSTANTS
  Ids,       \* device identifiers
  Clients    \* clients; each makes at most one request

VARIABLES
  registry,     \* SUBSET Ids: device.Registry
  evaluators,   \* SUBSET Ids: Server.evaluators
  drivers,      \* [Ids -> loops started]
  hook,         \* Server.onDeviceReg is set
  listening,    \* the server accepts requests
  req           \* [Clients -> the request and how far it is]

deviceVars == <<registry, evaluators, drivers, hook, listening, req>>

NoRequest == [kind |-> "none", id |-> "none", at |-> "idle",
              answer |-> 0, promised |-> FALSE]

Answers == {0, 200, 201, 400, 404, 409, 500}

DeviceTypeOK ==
  /\ registry \subseteq Ids /\ evaluators \subseteq Ids
  /\ drivers \in [Ids -> Nat]
  /\ hook \in BOOLEAN /\ listening \in BOOLEAN
  /\ req \in [Clients ->
                [kind : {"none", "post", "condition"}, id : Ids \union {"none"},
                 at : {"idle", "received", "registered", "stored", "found", "done"},
                 answer : Answers, promised : BOOLEAN]]

DeviceInit ==
  /\ registry = {} /\ evaluators = {} /\ drivers = [i \in Ids |-> 0]
  /\ hook = FALSE /\ listening = FALSE /\ req = [c \in Clients |-> NoRequest]

ClearDevices ==
  /\ registry' = {} /\ evaluators' = {} /\ drivers' = [i \in Ids |-> 0]
  /\ hook' = FALSE /\ listening' = FALSE /\ req' = [c \in Clients |-> NoRequest]

(* Devices a client may count on: those of the command line and those whose *)
(* registration has been answered.                                         *)
Promised(own) ==
  own \union {req[c].id : c \in {e \in Clients : req[e].answer = 201}}

Receive(c, kind, id, own) ==
  /\ listening /\ req[c] = NoRequest
  /\ req' = [req EXCEPT ![c] = [kind |-> kind, id |-> id, at |-> "received",
                               answer |-> 0, promised |-> id \in Promised(own)]]
  /\ UNCHANGED <<registry, evaluators, drivers, hook, listening>>

Answer(c, status) ==
  req' = [req EXCEPT ![c].at = "done", ![c].answer = status]

Goto(c, where) == req' = [req EXCEPT ![c].at = where]

(* The registry, under its mutex.                                          *)
Find(id) == id \in registry
Enrol(id) == ~Find(id) /\ registry' = registry \union {id}

(* POST /devices: the profile is looked up, then the registry decides.     *)
PostRegister(c, profileKnown) ==
  /\ req[c].kind = "post" /\ req[c].at = "received"
  /\ \/ /\ ~profileKnown
        /\ Answer(c, 400) /\ UNCHANGED registry
     \/ /\ profileKnown /\ Find(req[c].id)
        /\ Answer(c, 409) /\ UNCHANGED registry
     \/ /\ profileKnown /\ Enrol(req[c].id)
        /\ Goto(c, "registered")
  /\ UNCHANGED <<evaluators, drivers, hook, listening>>

(* The evaluator is stored and the hook read under one hold of s.mu.       *)
PostStore(c) ==
  /\ req[c].at = "registered"
  /\ evaluators' = evaluators \union {req[c].id}
  /\ IF hook THEN Goto(c, "stored") ELSE Answer(c, 201)
  /\ UNCHANGED <<registry, drivers, hook, listening>>

(* The hook starts a driver; that of `run` skips the devices it knows.     *)
PostHook(c, known) ==
  /\ req[c].at = "stored"
  /\ drivers' = IF req[c].id \in known THEN drivers
                ELSE [drivers EXCEPT ![req[c].id] = @ + 1]
  /\ Answer(c, 201)
  /\ UNCHANGED <<registry, evaluators, hook, listening>>

(* GET /devices/{id}/condition (and /lookahead): the registry, then the    *)
(* evaluator.                                                              *)
GetDevice(c) ==
  /\ req[c].kind = "condition" /\ req[c].at = "received"
  /\ IF Find(req[c].id) THEN Goto(c, "found") ELSE Answer(c, 404)
  /\ UNCHANGED <<registry, evaluators, drivers, hook, listening>>

GetEvaluator(c) ==
  /\ req[c].at = "found"
  /\ Answer(c, IF req[c].id \in evaluators THEN 200 ELSE 500)
  /\ UNCHANGED <<registry, evaluators, drivers, hook, listening>>
=============================================================================
