----------------------------- MODULE MCServiceHost -----------------------------
(***************************************************************************)
(* ServiceHost for TLC: a program whose REST service is replaced while it  *)
(* serves, one whose requests start and stop a service, one whose threads  *)
(* call the dispatcher, and one that arranges its services.                *)
(***************************************************************************)
EXTENDS ServiceHost

MCContainers == <<"realtime">>
MCPaths == {<<"root">>, <<"root", "realtime", "x">>, <<"db_writer", "x">>}
MCDeployments ==
  {[names |-> {"rest_api"}, tasks |-> {"registrar"} \cup Handlers, nodes |-> 0],
   [names |-> {"rest_api"}, tasks |-> {"api"} \cup Handlers, nodes |-> 1],
   [names |-> {"db_writer"}, tasks |-> {"registrar"} \cup Callers, nodes |-> 0],
   [names |-> {"db_writer"}, tasks |-> {}, nodes |-> 3]}

=============================================================================
