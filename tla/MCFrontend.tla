---------------------------- MODULE MCFrontend -----------------------------
(***************************************************************************)
(* Two peers, three files of which two are offered under one transfer id,  *)
(* channels of one place.  A behaviour draws one of these mixes: how the   *)
(* interface is run, what the node holds, how often each event from        *)
(* outside may happen and which keys are pressed.                          *)
(***************************************************************************)
EXTENDS Frontend

CONSTANTS a1, a2, f1, f2, f3, t1, t2

MCIdOf == [f \in Offers |-> IF f = f3 THEN t2 ELSE t1]

Nothing == [mode |-> "direct", cold |-> FALSE, tor |-> Ready, contacts |-> {},
            requests |-> 0, files |-> {},
            incoming |-> 0, online |-> 0, removals |-> 0, breaks |-> 0, quits |-> 0,
            presses |-> 0, keys |-> {}]
EventTypes == <<"tor_ready", "connection_request", "chat_message", "file_offer", "peer_online">>

Starting == [Nothing EXCEPT !.cold = TRUE, !.tor = Bootstrapping, !.requests = 1, !.presses = 1,
                            !.keys = {"y"}]
Attached == [Nothing EXCEPT !.mode = "attached", !.cold = TRUE, !.requests = 1, !.files = {f1},
                            !.breaks = 1, !.presses = 1, !.keys = {"y"}]
Watching == [Nothing EXCEPT !.mode = "attached", !.cold = TRUE, !.contacts = {a1}, !.online = 1,
                            !.requests = 1]
Prompts == [Nothing EXCEPT !.requests = 3, !.presses = 2, !.keys = {"y", "n"}]
Chatting == [Nothing EXCEPT !.contacts = {a1}, !.incoming = 1,
                            !.presses = 3, !.keys = {"enter", "esc"}]
Files == [Nothing EXCEPT !.contacts = {a1}, !.presses = 5, !.keys = {"f", "enter", "esc", "c"}]
Receiving == [Nothing EXCEPT !.files = {f1, f2}, !.presses = 2, !.keys = {"y", "n"}]
Offered == [Nothing EXCEPT !.files = {f2, f3}, !.presses = 2, !.keys = {"y"}]
Forms == [Nothing EXCEPT !.contacts = {a1}, !.requests = 1, !.online = 1, !.presses = 2, !.quits = 1,
                         !.keys = {"a", "n", "d", "s", "t", "enter"}]
Shrinking == [Nothing EXCEPT !.contacts = {a1, a2}, !.removals = 1, !.presses = 4,
                             !.keys = {"down", "a", "enter"}]
MCMixes == {Starting, Attached, Watching, Prompts, Chatting, Files, Receiving, Offered, Forms, Shrinking}
=============================================================================
