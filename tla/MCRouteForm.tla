---------------------------- MODULE MCRouteForm ----------------------------
\* A service of one HTTP route with a header, and one of a TCP route and the same.
EXTENDS RouteForm

CONSTANTS h1, h2, host, a1, a2, d

MCHosts == [n \in {host} |-> a1]
Http == [NoRoute EXCEPT !.type = "http", !.domain = d, !.node = host, !.address = a1,
                        !.mport = 80,
                        !.proxy_settings.add = [n \in {h1} |-> Empty]]
Tcp == [NoRoute EXCEPT !.type = "tcp", !.port = 80, !.node = host, !.address = a1, !.mport = 80]
MCStarts == {<<Http>>, <<Tcp, Http>>}
============================================================================
