------------------------------ MODULE NgxListen ------------------------------
(***************************************************************************)
(* The listen directives of the servers (http/ngx_http_core_module.c), the *)
(* ports and addresses they are collected into, the sockets that are opened*)
(* for them (http/ngx_http.c) and the address a connection is taken to be  *)
(* made to (http/ngx_http_request.c).                                      *)
(***************************************************************************)
EXTENDS Integers, Sequences, SequencesExt, FiniteSets

CONSTANTS
    Families,    \* families of addresses
    Ports,       \* port numbers
    Ips,         \* addresses of the host
    MaxListens,  \* listen directives of the configuration
    MaxServers,  \* servers of the configuration
    Default80    \* the <<family, port>> a server without listen gets

VARIABLES
    server,     \* the server block being read
    listened,   \* has it a listen directive?
    directives, \* the listen directives read, with their server
    ports,      \* cmcf->ports
    phase,      \* "parse", "ready" or "error"
    sockets     \* cycle->listening: the bound address and its ngx_http_port_t

vars == <<server, listened, directives, ports, phase, sockets>>

INADDR_ANY == "*"   \* INADDR_ANY

-----------------------------------------------------------------------------
(* ngx_http_core_listen(): any option of the socket sets set and bind.     *)
Options == { o \in [default_server : BOOLEAN, set : BOOLEAN, ssl : BOOLEAN, invalid : BOOLEAN] :
                 o.invalid => ~o.default_server /\ ~o.set /\ ~o.ssl }
lsopt(family, port, ip, o) ==
    [family |-> family, port |-> port, ip |-> ip, wildcard |-> ip = INADDR_ANY, set |-> o.set, bind |-> o.set,
     default_server |-> o.default_server, ssl |-> o.ssl]

ngx_http_add_address(cscf, ls) ==
    [opt |-> ls, default_server |-> cscf, servers |-> <<cscf>>]

(* An address listed already: the server joins it and the options are      *)
(* merged; an empty sequence is the refusal of a duplicate.                *)
ngx_http_add_addresses(addr, cscf, ls) ==
    IF \/ cscf \in ToSet(addr.servers)                          \* a duplicate listen
       \/ ls.set /\ addr.opt.set                                \* duplicate listen options
       \/ ls.default_server /\ addr.opt.default_server          \* a duplicate default server
    THEN <<>>
    ELSE << [opt |-> [(IF ls.set THEN ls ELSE addr.opt) EXCEPT
                         !.default_server = addr.opt.default_server \/ ls.default_server,
                         !.ssl = ls.ssl \/ addr.opt.ssl],
             default_server |-> IF ls.default_server THEN cscf ELSE addr.default_server,
             servers |-> Append(addr.servers, cscf)] >>

Where(S) == CHOOSE k \in S : \A h \in S : k <= h
ngx_http_add_listen(cscf, ls) ==
    LET same == { k \in DOMAIN ports : ports[k].port = ls.port /\ ports[k].family = ls.family }
        p == Where(same)
        there == { k \in DOMAIN ports[p].addrs : ports[p].addrs[k].opt.ip = ls.ip }
        a == Where(there)
        added == ngx_http_add_addresses(ports[p].addrs[a], cscf, ls)
    IN IF same = {}
       THEN /\ ports' = Append(ports, [family |-> ls.family, port |-> ls.port, addrs |-> <<ngx_http_add_address(cscf, ls)>>])
            /\ UNCHANGED phase
       ELSE IF there = {}
       THEN ports' = [ports EXCEPT ![p].addrs = Append(@, ngx_http_add_address(cscf, ls))] /\ UNCHANGED phase
       ELSE IF added = <<>> THEN phase' = "error" /\ UNCHANGED ports
       ELSE ports' = [ports EXCEPT ![p].addrs[a] = added[1]] /\ UNCHANGED phase

ngx_http_core_listen(family, port, ip, o) ==
    /\ phase = "parse"
    /\ Len(directives) < MaxListens
    /\ listened' = TRUE
    /\ IF o.invalid
       THEN phase' = "error" /\ UNCHANGED <<ports, directives>>
       ELSE /\ ngx_http_add_listen(server, lsopt(family, port, ip, o))
            /\ directives' = Append(directives, [server |-> server, ls |-> lsopt(family, port, ip, o)])
    /\ UNCHANGED <<server, sockets>>

(* The end of a server block: without a listen directive it listens on the *)
(* wildcard of the default port.                                           *)
ngx_http_core_server ==
    /\ phase = "parse"
    /\ server <= MaxServers
    /\ IF listened THEN UNCHANGED <<ports, phase, directives>>
       ELSE LET ls == lsopt(Default80[1], Default80[2], INADDR_ANY, [default_server |-> FALSE, set |-> FALSE, ssl |-> FALSE])
            IN /\ ngx_http_add_listen(server, ls)
               /\ directives' = Append(directives, [server |-> server, ls |-> ls])
    /\ server' = server + 1
    /\ listened' = FALSE
    /\ UNCHANGED sockets

-----------------------------------------------------------------------------
(* The wildcard last, explicitly bound addresses first. *)
ngx_http_cmp_conf_addrs(one, two) ==
    CASE one.opt.wildcard -> 1
      [] ~one.opt.wildcard /\ two.opt.wildcard -> -1
      [] ~one.opt.wildcard /\ ~two.opt.wildcard /\ one.opt.bind /\ ~two.opt.bind -> -1
      [] ~one.opt.wildcard /\ ~two.opt.wildcard /\ ~one.opt.bind /\ two.opt.bind -> 1
      [] OTHER -> 0

(* ngx_sort() is an insertion sort: an element goes before those after it. *)
RECURSIVE ngx_sort(_)
ngx_sort(s) ==
    IF s = <<>> THEN <<>>
    ELSE LET sorted == ngx_sort(Front(s))
             stays == { k \in DOMAIN sorted : ngx_http_cmp_conf_addrs(sorted[k], Last(s)) <= 0 }
             place == IF stays = {} THEN 0 ELSE CHOOSE k \in stays : \A h \in stays : h <= k
         IN SubSeq(sorted, 1, place) \o <<Last(s)>> \o SubSeq(sorted, place + 1, Len(sorted))

ngx_http_add_addrs(addrs) ==
    [k \in DOMAIN addrs |-> [ip |-> addrs[k].opt.ip, default_server |-> addrs[k].default_server,
                             servers |-> addrs[k].servers, ssl |-> addrs[k].opt.ssl]]
(* The sockets of a port: addr is what is left of its addresses and i the  *)
(* index among them; an implicit address is skipped under a wildcard.      *)
RECURSIVE ListeningLoop(_, _, _, _)
ListeningLoop(port, addr, i, bind_wildcard) ==
    IF i > Len(addr) THEN <<>>
    ELSE IF bind_wildcard /\ ~addr[i].opt.bind THEN ListeningLoop(port, addr, i + 1, bind_wildcard)
    ELSE LET lastOne == i = Len(addr)
         IN << [family |-> port.family, port |-> port.port, ip |-> addr[i].opt.ip,
                addrs |-> ngx_http_add_addrs(IF lastOne THEN addr ELSE <<addr[1]>>)] >>
            \o ListeningLoop(port, Tail(addr), IF lastOne THEN i ELSE 1, bind_wildcard)
ngx_http_init_listening(port) ==
    LET addr == port.addrs
        n == Len(addr)
        wild == addr[n].opt.wildcard
    IN ListeningLoop(port, IF wild THEN [addr EXCEPT ![n].opt.bind = TRUE] ELSE addr, 1, wild)

ngx_http_optimize_servers ==
    /\ phase = "parse"
    /\ server > 1
    /\ ~listened
    /\ LET sorted == [p \in DOMAIN ports |-> [ports[p] EXCEPT !.addrs = ngx_sort(@)]]
       IN /\ ports' = sorted
          /\ sockets' = FlattenSeq([p \in DOMAIN sorted |-> ngx_http_init_listening(sorted[p])])
    /\ phase' = "ready"
    /\ UNCHANGED <<server, listened, directives>>

-----------------------------------------------------------------------------
(* The kernel gives a connection to the socket bound to its address, else  *)
(* to the wildcard; ngx_http_init_connection() then looks the address up   *)
(* in what that socket serves, the last one being the wildcard.            *)
Accepting(family, port, ip) ==
    LET of(a) == { k \in DOMAIN sockets : sockets[k].family = family /\ sockets[k].port = port /\ sockets[k].ip = a }
    IN IF of(ip) # {} THEN of(ip) ELSE of(INADDR_ANY)
ngx_http_init_connection(sock, ip) ==
    LET n == Len(sock.addrs)
        same == { k \in 1 .. n - 1 : sock.addrs[k].ip = ip }
    IN IF n > 1 /\ same # {} THEN sock.addrs[Where(same)] ELSE sock.addrs[n]

Init ==
    /\ server = 1
    /\ listened = FALSE
    /\ directives = <<>>
    /\ ports = <<>>
    /\ phase = "parse"
    /\ sockets = <<>>

Next ==
    \/ \E f \in Families, p \in Ports, ip \in Ips \union {INADDR_ANY}, o \in Options :
         server <= MaxServers /\ ngx_http_core_listen(f, p, ip, o)
    \/ ngx_http_core_server
    \/ ngx_http_optimize_servers
Spec == Init /\ [][Next]_vars

-----------------------------------------------------------------------------
On(f, p, ip) == { k \in DOMAIN directives :
                    directives[k].ls.family = f /\ directives[k].ls.port = p /\ directives[k].ls.ip = ip }

(* A connection gets the configuration of the address it was made to, else *)
(* of the wildcard of the port, whatever the order of the directives and   *)
(* whether the address has a socket of its own: its servers are the ones   *)
(* that listen there.                                                      *)
AddressServed ==
    phase = "ready" =>
        \A f \in Families, p \in Ports, ip \in Ips :
            LET own == IF On(f, p, ip) # {} THEN On(f, p, ip) ELSE On(f, p, INADDR_ANY)
                accepting == Accepting(f, p, ip)
            IN /\ (own = {}) = (accepting = {})
               /\ \A s \in accepting :
                    ToSet(ngx_http_init_connection(sockets[s], ip).servers) = { directives[k].server : k \in own }

(* The default server of an address is the one marked so, wherever it is,  *)
(* else the first; it is one of the servers of the address.                *)
DefaultKept ==
    phase = "ready" =>
        \A s \in DOMAIN sockets : \A a \in ToSet(sockets[s].addrs) :
            LET on == On(sockets[s].family, sockets[s].port, a.ip)
                marked == { k \in on : directives[k].ls.default_server }
            IN a.default_server = directives[Where(IF marked # {} THEN marked ELSE on)].server
(* ... and a configuration with two marked ones, two sets of options or a  *)
(* repeated address is refused.                                            *)
DuplicatesRefused ==
    phase = "ready" => \A h, k \in DOMAIN directives :
        LET a == directives[h].ls b == directives[k].ls
        IN h # k /\ <<a.family, a.port, a.ip>> = <<b.family, b.port, b.ip>> =>
             /\ directives[h].server # directives[k].server
             /\ ~(a.default_server /\ b.default_server)
             /\ ~(a.set /\ b.set)

(* No address is bound twice; a port with a wildcard binds, besides it,    *)
(* only the addresses with socket options of their own.                    *)
BoundOnce ==
    phase = "ready" =>
        /\ \A h, k \in DOMAIN sockets : h # k =>
             <<sockets[h].family, sockets[h].port, sockets[h].ip>> # <<sockets[k].family, sockets[k].port, sockets[k].ip>>
        /\ \A k \in DOMAIN sockets :
             LET s == sockets[k]
             IN On(s.family, s.port, INADDR_ANY) # {} /\ s.ip # INADDR_ANY => \E d \in On(s.family, s.port, s.ip) : directives[d].ls.set

(* An address speaks SSL when one of its directives says so, whichever of  *)
(* them brought the socket options.                                        *)
SslKept ==
    phase = "ready" =>
        \A s \in DOMAIN sockets : \A a \in ToSet(sockets[s].addrs) :
            a.ssl = (\E k \in On(sockets[s].family, sockets[s].port, a.ip) : directives[k].ls.ssl)
=============================================================================
