------------------------------ MODULE MCDaemon ------------------------------
(***************************************************************************)
(* Two streams that ask for the same service, two calls that change the    *)
(* contacts, a queue of one event.  A behaviour draws one of these mixes.  *)
(***************************************************************************)
EXTENDS Daemon

CONSTANTS node, app, s1, s2, c1, c2, a1, a2, h1, r1, r2, p1, p2, w1

AppOnly == [s \in Streams |-> app]

Plain == [old |-> FALSE, tor |-> "off", faults |-> {}, starts |-> 1, crashes |-> 0, changes |-> 0,
          streams |-> {}, handlers |-> {}, rpcs |-> {}]

\* The data directory through crashes, failures and a wrong passphrase.
Directory == [Plain EXCEPT !.tor = "bundle", !.starts = 3, !.crashes = 2,
                           !.faults = {"passphrase", "disk", "network", "tor", "host", "listen"}]
Upgrade == [Directory EXCEPT !.old = TRUE]
\* Contacts are changed by two calls at a time, with a restart.
Book == [Plain EXCEPT !.starts = 2, !.crashes = 1, !.changes = 3, !.faults = {"disk"}, !.rpcs = {w1}]
\* Streams come and go while Tor starts and the daemon stops.
Competing == [Plain EXCEPT !.tor = "path", !.streams = {s1, s2}, !.starts = 2, !.crashes = 1,
                           !.faults = {"disk", "manifest", "tor"}]
Asking == [Plain EXCEPT !.tor = "path", !.streams = {s1}, !.handlers = {h1, r1, r2}]
MCMixes == {Directory, Upgrade, Book, Competing, Asking}
=============================================================================
