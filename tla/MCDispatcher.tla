----------------------------- MODULE MCDispatcher -----------------------------
(* Instances of Dispatcher for TLC: a small agent configuration and one or   *)
(* two messages of every kind the handler tells apart.                       *)
EXTENDS Dispatcher

Plain(id, op) ==
  [id |-> id, json |-> TRUE, v |-> 1, replyTo |-> "", payload |-> TRUE, op |-> op,
   params |-> "", command |-> "", interval |-> 0]

WithParams(id, op, command, interval) ==
  [Plain(id, op) EXCEPT !.params = "object", !.command = command, !.interval = interval]

MCOperations ==
  {"system.disk", "services.restart", "vm.reboot", "system.update",
   "agent.allowed_operations", "telemetry.set_interval", "exec", "vm.snapshot"}

MCCommands == {"/usr/bin/df"}

\* Messages that Dispatch lets through to run.
RunMessages ==
  { Plain("c1", "system.disk"),
    [Plain("c2", "services.restart") EXCEPT !.replyTo = "_INBOX.a", !.params = "object"],
    Plain("c3", "vm.reboot"),
    Plain("c4", "system.update"),
    [Plain("c5", "agent.allowed_operations") EXCEPT !.params = "[]"],
    WithParams("c6", "telemetry.set_interval", "", 5),
    [Plain("c7", "telemetry.set_interval") EXCEPT !.params = "null"],
    [WithParams("c8", "exec", "/usr/bin/df", 0) EXCEPT !.replyTo = "_INBOX.b"],
    WithParams("c9", "exec", "/usr/bin/who", 0),
    Plain("c10", "vm.snapshot") }

\* Messages that the callback or Dispatch turns away.
BadMessages ==
  { [Plain("d1", "") EXCEPT !.json = FALSE],
    [Plain("d2", "vm.reboot") EXCEPT !.v = 2],
    [Plain("d3", "") EXCEPT !.payload = FALSE],
    Plain("d4", "vm.shutdown"),
    [Plain("d5", "exec") EXCEPT !.params = "malformed", !.replyTo = "_INBOX.c"] }

AllMessages == RunMessages \cup BadMessages
=============================================================================
