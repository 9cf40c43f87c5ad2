------------------------------- MODULE MCStartup -------------------------------
(* Settings, drives and identities for Startup. *)
EXTENDS Startup

D == INSTANCE Dispatcher WITH
  Messages <- {}, AllowedOperations <- {}, AllowedCommands <- {}, PendingLimit <- 0,
  MaxDeliveries <- 0, inbox <- <<>>, delivered <- 0, pc <- "", result <- "",
  handled <- <<>>, answers <- <<>>, effects <- <<>>

\* What is announced by default is what Dispatcher.run implements.
ASSUME CatalogIsImplemented == Catalog = D!KnownOps

Of(uuid, key) == [uuid |-> uuid, key |-> key]
Data(uuid, key) == [state |-> "ok", uuid |-> uuid, key |-> key]
Bad == [state |-> "bad", uuid |-> "", key |-> ""]

FileOf(ops, commands) ==
  [uuid |-> <<"vm">>, key |-> <<"k1">>, ops |-> ops, commands |-> commands]
KeyInEnv(key) == [NoLayer EXCEPT !.key = <<key>>]

MCSettings == {
  [readable |-> TRUE, file |-> FileOf(<<>>, <<{"/bin/ls"}>>), env |-> NoLayer],
  [readable |-> TRUE, file |-> FileOf(<<{}>>, <<{"/bin/ls"}>>), env |-> KeyInEnv("k2")],
  [readable |-> TRUE, file |-> FileOf(<<{"system.info"}>>, <<{"/bin/ls"}>>),
   env |-> [KeyInEnv("k2") EXCEPT
              !.ops = <<{"agent.allowed_operations", "exec", "system.inf"}>>]],
  [readable |-> FALSE, file |-> NoLayer, env |-> NoLayer]}

MCDrives == {
  [yaml |-> Data("vm2", "k2"), json |-> Data("vm", "k3")],
  [yaml |-> Data("vm2", ""),   json |-> Absent],
  [yaml |-> Data("", "k3"),    json |-> Absent],
  [yaml |-> Bad,               json |-> Absent],
  [yaml |-> Absent,            json |-> Data("vm", "k3")]}

MCRegistered == {Of("vm", "k1"), Of("vm", "k2"), Of("vm", "k3"), Of("vm2", "k2")}
=============================================================================
