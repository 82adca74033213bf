---------------------------- MODULE MCRunSession ----------------------------
(***************************************************************************)
(* The command lines RunSession is checked with, each with the part of the *)
(* environment it is about: a dual-path run that crashes once and is run   *)
(* again, the API host under two clients, the event stream beside late     *)
(* registrations and beside handovers, a replay, and the two dashboards.   *)
(***************************************************************************)
EXTENDS RunSession

Bare(command, own) ==
  [command |-> command, dual |-> FALSE, addr |-> FALSE, tui |-> FALSE,
   record |-> FALSE, profile |-> command # "replay", own |-> own, asked |-> {},
   clients |-> {}, viewer |-> FALSE, crashes |-> FALSE]

One  == Bare("run", {"sandbox-0"})
Late == {"sandbox-0", "late"}

MCSessions ==
  { [One EXCEPT !.dual = TRUE, !.record = TRUE, !.crashes = TRUE],
    [One EXCEPT !.addr = TRUE, !.asked = Late, !.clients = {"c1", "c2"}],
    [One EXCEPT !.addr = TRUE, !.dual = TRUE, !.viewer = TRUE],
    [Bare("run", {"sandbox-0", "late"}) EXCEPT !.tui = TRUE],
    [Bare("serve", {"sandbox-0"}) EXCEPT !.asked = {"late"}, !.clients = {"c1"},
                              !.viewer = TRUE],
    [Bare("serve", {"sandbox-0"}) EXCEPT !.asked = Late, !.clients = {"c1", "c2"}],
    [Bare("replay", {"sandbox-0"}) EXCEPT !.addr = TRUE,
                              !.asked = Late, !.clients = {"c1"}],
    [Bare("replay", {"sandbox-0"}) EXCEPT !.tui = TRUE] }
=============================================================================
