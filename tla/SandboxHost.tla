---------------------------- MODULE SandboxHost ----------------------------
(***************************************************************************)
(* What `ntnbox run` and `ntnbox replay` leave on the host: the named      *)
(* network namespace, one veth pair and one NAT rule for each egress, made *)
(* by the commands of internal/module/devsandbox/netns.                    *)
(*                                                                         *)
(* A command fails without effect, or succeeds; when the session's context *)
(* is cancelled while it runs, it is killed and reported as failed whether *)
(* or not its effect had been reached.  The commands of Destroy run under  *)
(* context.Background() and their errors are ignored: they are taken to    *)
(* succeed on what exists.  The rest is the kernel: a namespace lives while *)
(* it has a name or a process in it, and takes the pairs whose inner end it *)
(* holds along when it ends.                                               *)
(***************************************************************************)
EXTENDS Naturals, Sequences

VARIABLES
  named,    \* `ip netns` knows ntnbox-sandbox-0
  veth,     \* [Links -> where the inner end of the pair is]
  rules,    \* [Links -> number of MASQUERADE rules for its subnet]
  stray     \* what outlived its session, a child whose run crashed or a
            \* descendant of the command: "none", "inside" the named
            \* namespace, or "apart", in one that has lost its name

hostVars == <<named, veth, rules, stray>>

Links == {"sat", "terr"}

(* With terrestrial fallback a second egress is configured.                *)
LinksOf(dual) == IF dual THEN Links ELSE {"sat"}

HostTypeOK ==
  /\ named \in BOOLEAN
  /\ veth \in [Links -> {"none", "host", "inside", "orphan"}]
  /\ rules \in [Links -> Nat]
  /\ stray \in {"none", "inside", "apart"}

HostInit ==
  /\ named = FALSE
  /\ veth = [l \in Links |-> "none"]
  /\ rules = [l \in Links |-> 0]
  /\ stray = "none"

(***************************************************************************)
(* Create.  "configure" stands for the address, up and route commands of   *)
(* an egress: like the qdiscs of netem, they leave nothing behind that is  *)
(* not in the namespace or on its pair.                                    *)
(***************************************************************************)
Command(op, l) == [op |-> op, link |-> l]

Commands ==
  << Command("netns add", "sat"),
     Command("link add", "sat"), Command("link set", "sat"),
     Command("configure", "sat"), Command("masquerade", "sat"),
     Command("link add", "terr"), Command("link set", "terr"),
     Command("configure", "terr"), Command("masquerade", "terr") >>

(* The last four are those of the terrestrial egress.                      *)
CommandsOf(dual) == IF dual THEN 9 ELSE 5

Take(c) ==
  LET op == c.op
      l  == c.link
  IN  \/ /\ op = "netns add" /\ ~named
         /\ named' = TRUE
         /\ UNCHANGED <<veth, rules>>
      \/ /\ op = "link add" /\ veth[l] = "none"
         /\ veth' = [veth EXCEPT ![l] = "host"]
         /\ UNCHANGED <<named, rules>>
      \/ /\ op = "link set" /\ veth[l] = "host" /\ named
         /\ veth' = [veth EXCEPT ![l] = "inside"]
         /\ UNCHANGED <<named, rules>>
      \/ /\ op = "configure"
         /\ UNCHANGED <<named, veth, rules>>
      \/ /\ op = "masquerade"
         /\ rules' = [rules EXCEPT ![l] = @ + 1]
         /\ UNCHANGED <<named, veth>>

(* The name goes; the namespace goes with it unless a process is inside,   *)
(* one of this session or a stray one of an earlier.                       *)
Unname(inhabited) ==
  /\ named' = FALSE
  /\ veth' = [l \in Links |-> IF veth[l] # "inside" THEN veth[l]
                              ELSE IF inhabited \/ stray = "inside" THEN "orphan"
                              ELSE "none"]
  /\ stray' = IF inhabited \/ stray = "inside" THEN "apart" ELSE stray

DeleteStale == Unname(FALSE) /\ UNCHANGED rules

\* Mutant: Destroy forgets the rule of the terrestrial egress.
DestroySatellite(links, inhabited) ==
  /\ rules' = [rules EXCEPT !["sat"] = IF @ > 0 THEN @ - 1 ELSE @]
  /\ Unname(inhabited)

Destroy(links, inhabited) ==
  /\ rules' = [l \in Links |-> IF l \in links /\ rules[l] > 0
                               THEN rules[l] - 1 ELSE rules[l]]
  /\ Unname(inhabited)

(* The last stray process ends, and with it a namespace only it kept alive. *)
StrayEnds ==
  /\ stray # "none"
  /\ stray' = "none"
  /\ veth' = [l \in Links |-> IF veth[l] = "orphan" THEN "none" ELSE veth[l]]
  /\ UNCHANGED <<named, rules>>
=============================================================================
