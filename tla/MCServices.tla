------------------------------ MODULE MCServices ------------------------------
(* Instance of Services for TLC: one unit, nginx.service, asked for with and   *)
(* without its suffix, nginx.socket, which does not exist, and a name with a   *)
(* dot that is no unit's.                                                      *)
EXTENDS Services

OneStem == {"nginx"}
OneUnit == [stem : OneStem, ending : {"service"}]

Named(ending) == [stem |-> "nginx", ending |-> ending]

\* Every kind of call that the model tells apart, and its ways to fail.
AllCalls ==
  [action : {"start", "enable", "disable", "list"}, name : {Named("")}]
    \cup [action : {"stop"}, name : {Named("service")}]
    \cup [action : {"restart"}, name : {Named("socket")}]
    \cup [action : {"get"}, name : {Named("dotted"), Named("socket")}]
=============================================================================
