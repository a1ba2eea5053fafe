------------------------------ MODULE MCConsole ------------------------------
(* Instances of Console for TLC. *)
EXTENDS Console

Part(host, port) == [host |-> host, port |-> port]

Open(p, env, slots, n) == [panel |-> p, env |-> env, slots |-> slots, changes |-> n]
Reversed == << Part("", 8002), Part("", 0), Part("localhost", 8001) >>
OneNode == << Part("", 0), Part("localhost", 0) >>
NoNodes == << Part("", 0) >>

\* The default nodes, of which the third is not running; two servers in the
\* reverse order, with defaults to be filled in; one server, asked again before
\* it has answered, by each panel that shows it; a list without nodes.
AllPanels == {Open("kv", NoEnv, 1, 2), Open("kv", NoNodes, 1, 0),
              Open("status", Reversed, 1, 3), Open("status", OneNode, 2, 2),
              Open("overview", OneNode, 2, 2),
              Open("cards", OneNode, 2, 2), Open("cards", NoNodes, 2, 1)}
Keys == {<<>>, <<"a">>, <<"a", "b">>}
Values == {<<>>, <<"x", "y">>}
=============================================================================
