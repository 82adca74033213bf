----------------------------- MODULE RunSession -----------------------------
(***************************************************************************)
(* One life of `ntnbox run`, `ntnbox serve` or `ntnbox replay`, from the   *)
(* registration of its devices to the return of the command: the steps of  *)
(* its start, each of which may fail; the API host that answers meanwhile; *)
(* the watch over the user's command; and what is undone on the way out.   *)
(* A signal may come at any moment, and a crash (SIGKILL, SIGHUP) at any   *)
(* moment too, after which the command is given again.                     *)
(***************************************************************************)
EXTENDS SandboxHost, ChildRun, DeviceHost, EventStream, FiniteSets

CONSTANTS
  Sessions    \* command lines, each with what is done to its session

ASSUME IdsAssumption ==
  /\ "sandbox-0" \in Ids /\ Reporters \subseteq Ids
  /\ Ids \cap {Bearer, "session_info", "initial"} = {}

ASSUME SessionsAssumption ==
  Sessions \subseteq
    [command : {"run", "serve", "replay"},
     dual : BOOLEAN,                 \* profile with terrestrial fallback
     addr : BOOLEAN, tui : BOOLEAN, record : BOOLEAN,
     profile : BOOLEAN,              \* the API host was given a profile
     own : SUBSET Ids,               \* devices of the command line
     asked : SUBSET Ids,             \* devices the clients ask about
     clients : SUBSET Clients,
     viewer : BOOLEAN,               \* a client opens the event stream of a
                                     \* session that has an evaluator
     crashes : BOOLEAN]              \* the first life may crash

(* A replay has no profile to give, and a profile's `run` has sandbox-0.   *)
ASSUME ProfileAssumption ==
  \A s \in Sessions : s.profile =>
    /\ s.command # "replay"
    /\ s.command = "run" => "sandbox-0" \in s.own

VARIABLES
  session,
  phase,        \* "idle", "starting", "running", "unwinding", "returned", "crashed"
  at,           \* step of the start
  built,        \* commands of Create that took effect
  before,       \* rules and pairs on the host when this life began
  lives,        \* lives begun
  signalled,    \* the context of signal.NotifyContext is done
  again,        \* the dashboard was left with `r`
  frozen        \* the dashboard's event loop waits for itself

lifeVars == <<session, phase, at, built, before, lives, signalled, again, frozen>>
vars == <<hostVars, childVars, deviceVars, streamVars, lifeVars>>

\* Mutant: the server listens before the hook is set.
StartupListensFirst(s) ==
  CASE s.command = "run" ->
         <<"register", "stale", "create", "netem", "terrestrial", "bearer", "record",
           "evaluators", "listen", "hook", "drivers", "child">>
    [] s.command = "serve" ->
         <<"register", "evaluators", "drivers", "listen", "hook">>
    [] s.command = "replay" ->
         <<"register", "stale", "create", "netem", "listen", "child">>

(***************************************************************************)
(* The steps of the start, in the order of each command's code, and the    *)
(* flags and profiles that ask for some of them.                           *)
(***************************************************************************)
Startup(s) ==
  CASE s.command = "run" ->
         <<"register", "stale", "create", "netem", "terrestrial", "bearer", "record",
           "evaluators", "hook", "listen", "drivers", "child">>
    [] s.command = "serve" ->
         <<"register", "evaluators", "drivers", "hook", "listen">>
    [] s.command = "replay" ->
         <<"register", "stale", "create", "netem", "listen", "child">>

Wanted(s, step) ==
  /\ step \in {"terrestrial", "bearer"} => s.dual
  /\ step = "record" => s.record
  /\ step \in {"evaluators", "hook", "listen"} => s.command = "serve" \/ s.addr

(* Devices the hook of `run` was built to skip.                            *)
Known == IF session.command = "run" THEN session.own \union {"sandbox-0"} ELSE {}

Alive == phase \in {"starting", "running", "unwinding"}

TypeOK ==
  /\ HostTypeOK /\ ChildTypeOK /\ DeviceTypeOK /\ StreamTypeOK
  /\ session \in Sessions
  /\ phase \in {"idle", "starting", "running", "unwinding", "returned", "crashed"}
  /\ at \in 0..Len(Startup(session))
  /\ built \in 0..CommandsOf(session.dual)
  /\ before \in [rules : [Links -> Nat],
                 veth : [Links -> {"none", "host", "inside", "orphan"}]]
  /\ lives \in 0..2
  /\ signalled \in BOOLEAN /\ again \in BOOLEAN /\ frozen \in BOOLEAN

Init ==
  /\ HostInit /\ ChildInit /\ DeviceInit /\ StreamInit
  /\ session \in Sessions
  /\ phase = "idle" /\ at = 0 /\ built = 0 /\ lives = 0
  /\ before = [rules |-> rules, veth |-> veth]
  /\ signalled = FALSE /\ again = FALSE /\ frozen = FALSE

Begin ==
  /\ phase = "idle" \/ phase = "crashed"
  /\ phase' = "starting" /\ at' = 1 /\ built' = 0 /\ lives' = lives + 1
  /\ before' = [rules |-> rules, veth |-> veth]
  /\ signalled' = FALSE /\ again' = FALSE /\ frozen' = FALSE
  /\ UNCHANGED <<session, hostVars, childVars, deviceVars, streamVars>>

-----------------------------------------------------------------------------
(* The start.                                                              *)

Step(n) ==
  /\ phase = "starting" /\ Startup(session)[at] = n
  /\ Wanted(session, n)

Advance ==
  /\ IF at = Len(Startup(session))
     THEN phase' = "running" /\ UNCHANGED at
     ELSE at' = at + 1 /\ UNCHANGED phase
  /\ UNCHANGED <<session, before, lives, signalled, again, frozen>>

Fail ==
  /\ phase' = "unwinding"
  /\ UNCHANGED <<session, at, before, lives, signalled, again, frozen>>

Skip ==
  /\ phase = "starting" /\ ~Wanted(session, Startup(session)[at])
  /\ Advance
  /\ UNCHANGED <<built, hostVars, childVars, deviceVars, streamVars>>

Register ==
  /\ Step("register")
  /\ registry' = session.own
  /\ Advance
  /\ UNCHANGED <<built, evaluators, drivers, hook, listening, req,
                 hostVars, childVars, streamVars>>

(* The command's context is the session's: once it is done, nothing runs.  *)
CleanStale ==
  /\ Step("stale")
  /\ IF signalled THEN UNCHANGED hostVars ELSE DeleteStale
  /\ Advance
  /\ UNCHANGED <<built, childVars, deviceVars, streamVars>>

CreateCommand ==
  /\ Step("create")
  /\ LET Took == Take(Commands[built + 1]) /\ UNCHANGED stray /\ built' = built + 1
     IN  \/ /\ ~signalled /\ Took
            /\ IF built + 1 = CommandsOf(session.dual) THEN Advance
               ELSE UNCHANGED <<session, phase, at, before, lives,
                                signalled, again, frozen>>
         \/ Fail /\ UNCHANGED <<hostVars, built>>
         \/ signalled /\ Took /\ Fail
  /\ UNCHANGED <<childVars, deviceVars, streamVars>>

(* Three tc commands for each egress, under the session's context.         *)
SetupNetem(n) ==
  /\ Step(n)
  /\ \/ ~signalled /\ Advance
     \/ Fail
  /\ UNCHANGED <<built, hostVars, childVars, deviceVars, streamVars>>

SetupSatellite == SetupNetem("netem")
SetupDualPath  == SetupNetem("terrestrial")

(* The first route, under a context of its own.                            *)
InitBearer ==
  /\ Step("bearer")
  /\ Advance \/ Fail
  /\ UNCHANGED <<built, hostVars, childVars, deviceVars, streamVars>>

OpenRecording ==
  /\ Step("record")
  /\ Advance \/ Fail
  /\ UNCHANGED <<built, hostVars, childVars, deviceVars, streamVars>>

(* `run` also stores that of the session as the evaluator of sandbox-0.    *)
StoreEvaluators ==
  /\ Step("evaluators")
  /\ evaluators' = session.own \union Known
  /\ Advance
  /\ UNCHANGED <<built, registry, drivers, hook, listening, req,
                 hostVars, childVars, streamVars>>

SetHook ==
  /\ Step("hook")
  /\ hook' = TRUE
  /\ Advance
  /\ UNCHANGED <<built, registry, evaluators, drivers, listening, req,
                 hostVars, childVars, streamVars>>

(* A port that cannot be bound ends `serve`; the others go on without it.  *)
Listen ==
  /\ Step("listen")
  /\ \/ listening' = TRUE /\ Advance
     \/ /\ UNCHANGED listening
        /\ IF session.command = "serve" THEN Fail ELSE Advance
  /\ UNCHANGED <<built, registry, evaluators, drivers, hook, req,
                 hostVars, childVars, streamVars>>

StartDrivers ==
  /\ Step("drivers")
  /\ drivers' = [i \in Ids |-> IF i \in session.own THEN drivers[i] + 1 ELSE drivers[i]]
  /\ Advance
  /\ UNCHANGED <<built, registry, evaluators, hook, listening, req,
                 hostVars, childVars, streamVars>>

Launch ==
  /\ Step("child")
  /\ \/ StartChild /\ Advance
     \/ Fail /\ UNCHANGED childVars
  /\ UNCHANGED <<built, hostVars, deviceVars, streamVars>>

Start ==
  \/ Skip \/ Register \/ CleanStale \/ CreateCommand
  \/ SetupSatellite \/ SetupDualPath \/ InitBearer \/ OpenRecording
  \/ StoreEvaluators \/ SetHook \/ Listen \/ StartDrivers \/ Launch

-----------------------------------------------------------------------------
(* The watch over the child, and the way out.                              *)

Watching == phase = "running" /\ session.command # "serve"

StayAlive == UNCHANGED <<hostVars, deviceVars, streamVars, lifeVars>>

Leave ==
  /\ phase' = "unwinding"
  /\ UNCHANGED <<session, at, built, before, lives, signalled, again, frozen>>

(* Without a dashboard the command's end is the session's end.             *)
CommandDone ==
  /\ Watching /\ ~session.tui
  /\ SeeExit /\ Leave
  /\ UNCHANGED <<hostVars, deviceVars, streamVars>>

Interrupt == Watching /\ signalled /\ Terminate /\ StayAlive

ReplayDone ==
  /\ Watching /\ session.command = "replay" /\ ~session.tui /\ replayed
  /\ Terminate /\ StayAlive

(* Keys of the dashboard, which takes none once its context is done.       *)
Quit ==
  /\ Watching /\ session.tui /\ ~frozen /\ ~signalled
  /\ Terminate
  /\ \/ UNCHANGED again
     \/ session.command = "replay" /\ replayed /\ again' = TRUE
  /\ UNCHANGED <<session, phase, at, built, before, lives, signalled, frozen,
                 hostVars, deviceVars, streamVars>>

(* `d` with several devices: Update sends to the program that runs Update. *)
SwitchFocus ==
  /\ Watching /\ session.tui /\ watch = "watching" /\ ~signalled
  /\ Cardinality(session.own) > 1 /\ session.command = "run"
  /\ frozen' = TRUE
  /\ UNCHANGED <<session, phase, at, built, before, lives, signalled, again,
                 hostVars, childVars, deviceVars, streamVars>>

StopWaiting == Watching /\ GraceOver /\ StayAlive

(* The child is gone: return, or start it again for another replay.        *)
Reaped ==
  /\ Watching /\ Reap
  /\ phase' = IF again THEN "starting" ELSE "unwinding"
  /\ again' = FALSE
  /\ UNCHANGED <<session, at, built, before, lives, signalled, frozen,
                 hostVars, deviceVars, streamVars>>

(* httpSrv.Close: the listener and every connection.                       *)
CloseServer ==
  /\ phase = "running" /\ session.command = "serve" /\ signalled
  /\ listening' = FALSE /\ connected' = FALSE
  /\ Leave
  /\ UNCHANGED <<registry, evaluators, drivers, hook, req, stage, subs, inCall,
                 sent, unseen, channel, waiting, received, hostVars, childVars>>

(* The command or a descendant of it is in the namespace.                  *)
Inhabited == child = "running" \/ heirs # {}

(* The deferred calls, and with the return everything in the process.      *)
Unwind ==
  /\ phase = "unwinding"
  /\ phase' = "returned"
  /\ IF session.command = "serve" THEN UNCHANGED hostVars
     ELSE Destroy(LinksOf(session.dual), Inhabited)
  /\ Disown /\ ClearDevices /\ ClearStream
  /\ UNCHANGED <<session, at, built, before, lives, signalled, again, frozen>>

Stop == CommandDone \/ Interrupt \/ ReplayDone \/ StopWaiting \/ Reaped
          \/ CloseServer \/ Unwind

-----------------------------------------------------------------------------
(* What happens to a session.                                              *)

(* `serve` installs its handler after the evaluators: before that a signal *)
(* ends the process, which has nothing to undo yet.                        *)
Caught == session.command = "serve" => at > 2

Signal ==
  /\ phase \in {"starting", "running"} /\ ~signalled /\ Caught
  /\ signalled' = TRUE
  /\ UNCHANGED <<session, phase, at, built, before, lives, again, frozen,
                 hostVars, childVars, deviceVars, streamVars>>

(* The process is gone, its command and what it made on the host are not.  *)
Crash ==
  /\ Alive /\ session.crashes /\ lives = 1
  /\ phase' = "crashed"
  /\ stray' = IF Inhabited THEN "inside" ELSE "none"
  /\ ClearChild /\ ClearDevices /\ ClearStream
  /\ UNCHANGED <<named, veth, rules, session, at, built, before, lives,
                 signalled, again, frozen>>

StrayLeaves ==
  /\ StrayEnds
  /\ UNCHANGED <<childVars, deviceVars, streamVars, lifeVars>>

ChildStep ==
  /\ Alive
  /\ \/ ChildExits
     \/ \E kind \in {"quiet", "holding"} : (kind = "holding" => session.tui) /\ Fork(kind)
     \/ \E kind \in {"quiet", "holding"} : HeirsEnd(kind)
     \/ session.command = "replay" /\ ReplayEnds
     \/ session.tui /\ \E long \in BOOLEAN : PrintLine(long, signalled)
  /\ StayAlive

Killed == KillLands /\ StayAlive

-----------------------------------------------------------------------------
(* The API host while the process lives.                                   *)

(* Own devices that have an evaluator: a replay has none to give.          *)
Equipped == IF session.command = "replay" THEN {} ELSE session.own

Handle(c) ==
  /\ \/ PostRegister(c, session.profile) \/ PostStore(c) \/ PostHook(c, Known)
     \/ GetDevice(c) \/ GetEvaluator(c)
  /\ UNCHANGED <<hostVars, childVars, streamVars, lifeVars>>

Request ==
  /\ Alive
  /\ \E c \in session.clients, kind \in {"post", "condition"}, id \in session.asked :
       Receive(c, kind, id, Equipped)
  /\ UNCHANGED <<hostVars, childVars, streamVars, lifeVars>>

StreamOnly == UNCHANGED <<hostVars, childVars, deviceVars, lifeVars>>

OpenStream == session.viewer /\ listening /\ Connect /\ StreamOnly
CloseStream == Disconnect /\ StreamOnly
Handler == (Subscribe \/ Greet \/ Forward \/ Unsubscribe) /\ StreamOnly

(* A driver publishes the coverage of its device, the dual-path sandbox    *)
(* the handovers that the coverage of the first device brings about.       *)
Report ==
  /\ Alive /\ session.viewer
  /\ \E s \in Sources :
       /\ IF s = Bearer THEN session.dual /\ \E i \in session.own : drivers[i] > 0
          ELSE drivers[s] > 0
       /\ Publish(s)
  /\ StreamOnly

(* evaluatorFor: that of the device, or else that of the session.          *)
EvaluatorFor(s) == IF s \in evaluators THEN s ELSE "session"

Callback(s) ==
  /\ IF s = Bearer THEN OnHandover ELSE OnCoverage(s, EvaluatorFor(s))
  /\ StreamOnly

Enqueue(n) == EnqueueReliable(n) /\ StreamOnly

Next ==
  \/ Begin \/ Start \/ Stop
  \/ Quit \/ SwitchFocus \/ Signal \/ Crash \/ StrayLeaves \/ ChildStep \/ Killed
  \/ Request \/ \E c \in Clients : Handle(c)
  \/ OpenStream \/ CloseStream \/ Handler \/ Report
  \/ \E s \in Sources : Callback(s)
  \/ \E n \in 1..MaxEvents : Enqueue(n)

Spec == Init /\ [][Next]_vars

(* The goroutines run, the three-second timer fires, SIGKILL kills, and a  *)
(* client that stays connected reads.  Nothing makes the child or its      *)
(* descendants exit, the user press a key, or a signal come.               *)
Fairness ==
  /\ WF_vars(Start) /\ WF_vars(Stop) /\ WF_vars(Killed)
  /\ WF_vars(Handler)
  /\ \A s \in Sources : WF_vars(Callback(s))
  /\ \A n \in 1..MaxEvents : WF_vars(Enqueue(n))

FairSpec == Spec /\ Fairness

-----------------------------------------------------------------------------
(* Properties.                                                             *)

(* However a session ended (Destroy on an error of Create, or deferred     *)
(* after a signal, an exit or a failed start), its namespace is gone, its  *)
(* command is not running, and the host has no more NAT rules than before, *)
(* even where the life before it crashed.  Destroy relies on the namespace *)
(* to take the veth pairs along (namespace.go:181), so a pair stays while  *)
(* a process is inside: a descendant of the command of this session, or    *)
(* the stray child or descendant of a crashed one.  It also stays where    *)
(* Create was cut off between `link add` and `link set`.                   *)
HostRestored ==
  phase = "returned" =>
    /\ ~named /\ child # "running"
    /\ \A l \in Links :
         /\ rules[l] <= before.rules[l]
         /\ \/ veth[l] = "none"
            \/ veth[l] = "orphan" /\ stray = "apart"
            \/ veth[l] = "host" /\ before.veth[l] = "host"
            \/ veth[l] = "host" /\ built > 0 /\ Commands[built] = Command("link add", l)

(* A device has at most one driver, and once its registration was answered *)
(* an evaluator and exactly one; a condition asked after that answer, or   *)
(* of a device of the command line, is answered; and an event on the       *)
(* stream was filled in from its own device's evaluator, never from that   *)
(* of the session.                                                         *)
DevicesServed ==
  /\ \A i \in Ids : drivers[i] <= 1
  /\ \A c \in Clients :
       /\ req[c].answer = 201 => req[c].id \in evaluators /\ drivers[req[c].id] = 1
       /\ req[c].kind = "condition" /\ req[c].promised /\ req[c].at = "done"
            => req[c].answer = 200
  /\ \A k \in 1..Len(received) : received[k].src \in Ids => received[k].by = received[k].src

(* What a client of the event stream gets: session_info and the initial    *)
(* coverage first, each source's coverage in the order it was published,   *)
(* and no handover twice.                                                  *)
StreamInOrder ==
  /\ \A k \in 1..Len(received) :
       received[k].src = CASE k = 1 -> "session_info" [] k = 2 -> "initial"
                           [] OTHER -> received[k].src
  /\ \A j, k \in 3..Len(received) : j < k /\ received[j].src = received[k].src =>
       IF received[j].src = Bearer THEN received[j].n # received[k].n
       ELSE received[j].n < received[k].n

HandoverSeen(n) == \E k \in 1..Len(received) : received[k] = Handover(n)

(* A handover published once the client has the response header reaches    *)
(* it, or the client disconnects ("must-not-lose", sse.go:24; subscriptions *)
(* precede the flush so that none is lost to the race, sse.go:83).         *)
HandoversArrive ==
  \A n \in 1..MaxEvents :
    (stage \in {"flushed", "greeting", "streaming"} /\ connected
       /\ unseen < n /\ n <= sent[Bearer])
      ~> (HandoverSeen(n) \/ ~connected)

StreamFaithful == []StreamInOrder /\ HandoversArrive

(* A signalled session ends, whatever its command does with SIGTERM; so    *)
(* does one without a dashboard whose command exited or whose replay is    *)
(* over.  Two cases are excepted, both under the dashboard, whose cmd.Wait *)
(* also waits for the output pipe: readLines left while output was still   *)
(* to come, and a descendant of the command holds the pipe.  A session can *)
(* thus not stay for ever once no descendant holds it and readLines reads. *)
SessionEnds ==
  (Alive /\ (signalled \/ phase = "unwinding"
             \/ (~session.tui /\ phase = "running" /\ (child = "exited" \/ replayed))))
    ~> (~Alive \/ stuck \/ "holding" \in heirs)
=============================================================================
